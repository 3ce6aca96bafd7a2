-------------------------- MODULE AlgorithmProofs ---------------------------
(***************************************************************************)
(* Proofs about the sequential algorithms, for inputs of any size: the     *)
(* lines a query is served (SourceWindow), the owner of an extracted       *)
(* reference (Facts), the plan of a Git status (PlanDraft), the verdict of *)
(* `rr check` (Check), what `rr init` writes (AgentContract), the exact    *)
(* route of a question (ExactRouting) and the access a declaration states  *)
(* (Languages).                                                            *)
(***************************************************************************)
EXTENDS Requests, FiniteOrders, SequenceTheorems

----------------------------------------------------------------------------
(* The lines served for an anchor.                                         *)

\* The bytes of a run of lines are those of a shorter one and of the rest.
LEMMA BytesLaws ==
  ASSUME NEW text \in Seq(Nat), NEW i \in 1..(Len(text) + 1), NEW j \in 0..Len(text)
  PROVE  /\ Bytes(text, i, j) \in Nat
         /\ i = j => Bytes(text, i, j) = text[i]
         /\ i > j => Bytes(text, i, j) = 0
         /\ \A m \in (i - 1)..j : Bytes(text, i, j) = Bytes(text, i, m) + Bytes(text, m + 1, j)
<1>1. text \in [1..Len(text) -> Nat] /\ Len(text) \in Nat
  OBVIOUS
<1>2. \A a, b \in Int : Bytes(text, a, b) = Total(text, a..b)
  BY DEF Bytes, Total
<1>3. IsFiniteSet(1..Len(text))
  BY <1>1, FS_Interval
<1>4. i..j \in SUBSET (1..Len(text)) /\ i \in Int /\ j \in Int
  BY <1>1
<1>5. Bytes(text, i, j) \in Nat
  BY <1>1, <1>2, <1>3, <1>4, SumLaws
<1>6. ASSUME i > j PROVE Bytes(text, i, j) = 0
  <2>1. i..j = {}
    BY <1>4, <1>6
  <2>2. Total(text, {}) = 0
    BY <1>1, <1>3, SumLaws
  <2> QED
    BY <1>2, <1>4, <2>1, <2>2
<1>7. ASSUME i = j PROVE Bytes(text, i, j) = text[i]
  <2> DEFINE S == 1..Len(text)
  <2>1. i..j = {i} /\ i \in S
    BY <1>4, <1>7
  <2>2. Bytes(text, i, j) = Total(text, {i})
    BY <1>2, <1>4, <2>1
  <2>3. IsFiniteSet(S) /\ text \in [S -> Nat]
    BY <1>1, <1>3
  <2> HIDE DEF S
  <2>4. Total(text, {i}) = text[i]
    BY <2>1, <2>3, SumOfOne
  <2> QED
    BY <2>2, <2>4
<1>8. ASSUME NEW m \in (i - 1)..j
      PROVE  Bytes(text, i, j) = Bytes(text, i, m) + Bytes(text, m + 1, j)
  <2>1. i..m \in SUBSET (i..j) /\ (i..j) \ (i..m) = (m + 1)..j /\ m \in Int
    BY <1>4
  <2>2. Total(text, i..j) = Total(text, i..m) + Total(text, (i..j) \ (i..m))
    <3> DEFINE S == 1..Len(text)
               C == i..j
               A == i..m
    <3>1. IsFiniteSet(S) /\ text \in [S -> Nat] /\ C \in SUBSET S /\ A \in SUBSET C
      BY <1>1, <1>3, <1>4, <2>1
    <3> HIDE DEF S, C, A
    <3>2. Total(text, C) = Total(text, A) + Total(text, C \ A)
      BY <3>1, SumSplits
    <3> QED
      BY <3>2 DEF C, A
  <2>3. m + 1 \in Int
    BY <2>1
  <2>4. /\ Bytes(text, i, j) = Total(text, i..j) /\ Bytes(text, i, m) = Total(text, i..m)
        /\ Bytes(text, m + 1, j) = Total(text, (m + 1)..j)
    BY <1>2, <1>4, <2>1, <2>3
  <2> QED
    BY <2>1, <2>2, <2>4
<1> QED
  BY <1>5, <1>6, <1>7, <1>8

\* What fits keeps fitting when lines are taken off either end.
LEMMA AffordableShrinks ==
  ASSUME NEW text \in Seq(Nat), NEW i \in 1..(Len(text) + 1), NEW j \in 0..Len(text),
         Affordable(text, i, j), NEW a \in i..(Len(text) + 1), NEW b \in 0..j
  PROVE  Affordable(text, a, b)
<1>0. Len(text) \in Nat /\ MaxLines \in Nat /\ MaxBytes \in Nat /\ i \in Nat /\ j \in Nat /\ a \in Nat /\ b \in Nat
  BY WindowAssumption
<1>1. b + 1 - a <= MaxLines
  BY <1>0 DEF Affordable
<1>2. CASE a > b
  <2>1. Bytes(text, a, b) = 0
    BY <1>0, <1>2, BytesLaws
  <2> QED
    BY <1>0, <1>1, <2>1 DEF Affordable
<1>3. CASE a <= b
  <2>1. Bytes(text, i, j) = Bytes(text, i, a - 1) + Bytes(text, (a - 1) + 1, j)
    BY <1>0, <1>3, BytesLaws
  <2>2. (a - 1) + 1 = a /\ a \in 1..(Len(text) + 1) /\ b \in (a - 1)..j /\ a - 1 \in 0..Len(text) /\ b + 1 \in 1..(Len(text) + 1)
    BY <1>0, <1>3
  <2>3. Bytes(text, a, j) = Bytes(text, a, b) + Bytes(text, b + 1, j)
    BY <2>2, BytesLaws
  <2>4. /\ Bytes(text, i, a - 1) \in Nat /\ Bytes(text, b + 1, j) \in Nat /\ Bytes(text, a, b) \in Nat
        /\ Bytes(text, a, j) \in Nat /\ Bytes(text, i, j) \in Nat
    <3>1. b \in 0..Len(text)
      BY <1>0
    <3>2. Bytes(text, i, a - 1) \in Nat /\ Bytes(text, b + 1, j) \in Nat
      BY <2>2, BytesLaws
    <3>3. Bytes(text, a, b) \in Nat /\ Bytes(text, a, j) \in Nat /\ Bytes(text, i, j) \in Nat
      BY <2>2, <3>1, BytesLaws
    <3> QED
      BY <3>2, <3>3
  <2>5. Bytes(text, a, b) <= Bytes(text, i, j)
    BY <2>1, <2>2, <2>3, <2>4, SMTT(30)
  <2> QED
    BY <1>0, <1>1, <2>4, <2>5 DEF Affordable
<1> QED
  BY <1>0, <1>2, <1>3

\* The anchor is served up to the first line that does not fit.
LEMMA AnchorIsServed ==
  ASSUME NEW text \in Seq(Nat), NEW first \in 1..Len(text), NEW last \in first..Len(text)
  PROVE  /\ AnchorLines(text, first, last) \in (first - 1)..last
         /\ AnchorLines(text, first, last) >= first =>
              Affordable(text, first, AnchorLines(text, first, last))
         /\ AnchorLines(text, first, last) < last =>
              ~Affordable(text, first, AnchorLines(text, first, last) + 1)
<1> DEFINE fits == {j \in first..last : \A m \in first..j : Affordable(text, first, m)}
           S == {first - 1} \cup fits
           served == AnchorLines(text, first, last)
<1>0. first \in Nat /\ last \in Nat /\ Len(text) \in Nat /\ first >= 1 /\ first <= last
  OBVIOUS
<1>1. S \in SUBSET Nat /\ S # {} /\ S \in SUBSET ((first - 1)..last)
  BY <1>0
<1>2. served \in S /\ \A n \in S : n <= served
  <2>1. IsFiniteSet(S)
    <3>1. first - 1 \in Int /\ last \in Int
      BY <1>0
    <3>2. IsFiniteSet((first - 1)..last)
      BY <3>1, FS_Interval
    <3> HIDE DEF S
    <3> QED BY <1>1, <3>2, FS_Subset
  <2>2. served = Max(S)
    BY DEF AnchorLines
  <2> HIDE DEF S, served
  <2> QED
    BY <1>1, <2>1, <2>2, MaxIsGreatest
<1> HIDE DEF served
<1>3. served \in (first - 1)..last /\ served \in Nat
  BY <1>1, <1>2
<1>4. served >= first => Affordable(text, first, served)
  BY <1>0, <1>2, <1>3
<1>5. ASSUME served < last, Affordable(text, first, served + 1) PROVE FALSE
  <2>1. served + 1 \in first..last /\ served + 1 \in 0..Len(text)
    BY <1>0, <1>3, <1>5
  <2>2. ASSUME NEW m \in first..(served + 1) PROVE Affordable(text, first, m)
    <3>1. first \in 1..(Len(text) + 1) /\ first \in first..(Len(text) + 1) /\ m \in 0..(served + 1)
      BY <1>0, <2>1
    <3> QED
      BY <1>5, <2>1, <3>1, AffordableShrinks
  <2>3. served + 1 \in S
    BY <2>1, <2>2
  <2> HIDE DEF S
  <2> QED
    BY <1>2, <1>3, <2>3
<1> QED
  BY <1>3, <1>4, <1>5 DEF served

\* Context comes before a whole anchor while there is room for it.
LEMMA ContextBeforeFits ==
  ASSUME NEW text \in Seq(Nat), NEW first \in 1..Len(text), NEW last \in first..Len(text),
         Affordable(text, first, last)
  PROVE  LET start == WindowStart(text, first, last)
         IN  /\ start \in 1..first /\ first - start <= ContextBefore /\ Affordable(text, start, last)
             /\ (start > 1 /\ first - start < ContextBefore) => ~Affordable(text, start - 1, last)
<1> DEFINE S == {i \in 1..first : first - i <= ContextBefore
                                  /\ \A m \in i..first : Affordable(text, m, last)}
           start == WindowStart(text, first, last)
<1>0. /\ first \in Nat /\ last \in Nat /\ Len(text) \in Nat /\ first >= 1 /\ first <= last
      /\ ContextBefore \in Nat
  BY WindowAssumption
<1>1. S \in SUBSET Nat /\ first \in S
  BY <1>0
<1>2. start \in S /\ \A n \in S : start <= n
  <2>1. start = Min(S)
    BY DEF WindowStart
  <2> HIDE DEF S, start
  <2> QED
    BY <1>1, <2>1, MinIsLeast
<1> HIDE DEF start
<1>3. start \in 1..first /\ first - start <= ContextBefore /\ Affordable(text, start, last) /\ start \in Nat
  BY <1>0, <1>2
<1>4. ASSUME start > 1, first - start < ContextBefore, Affordable(text, start - 1, last) PROVE FALSE
  <2>1. start - 1 \in 1..first /\ first - (start - 1) <= ContextBefore /\ start - 1 < start
        /\ start - 1 \in 1..(Len(text) + 1) /\ last \in 0..Len(text) /\ last \in 0..last
    BY <1>0, <1>3, <1>4
  <2>2. ASSUME NEW m \in (start - 1)..first PROVE Affordable(text, m, last)
    <3>1. m \in (start - 1)..(Len(text) + 1)
      BY <1>0, <1>3
    <3> QED
      BY <1>4, <2>1, <3>1, AffordableShrinks
  <2>3. start - 1 \in S
    BY <2>1, <2>2
  <2> HIDE DEF S
  <2> QED
    BY <1>2, <1>3, <2>1, <2>3
<1> QED
  BY <1>3, <1>4 DEF start

\* And after it, with what is left.
LEMMA ContextAfterFits ==
  ASSUME NEW text \in Seq(Nat), NEW start \in 1..Len(text), NEW last \in start..Len(text),
         Affordable(text, start, last)
  PROVE  LET end == WindowEnd(text, start, last)
         IN  /\ end \in last..Len(text) /\ end - last <= ContextAfter /\ Affordable(text, start, end)
             /\ (end < Len(text) /\ end - last < ContextAfter) => ~Affordable(text, start, end + 1)
<1> DEFINE S == {j \in last..Len(text) : j - last <= ContextAfter
                                         /\ \A m \in last..j : Affordable(text, start, m)}
           end == WindowEnd(text, start, last)
<1>0. /\ start \in Nat /\ last \in Nat /\ Len(text) \in Nat /\ start >= 1 /\ start <= last
      /\ last <= Len(text) /\ ContextAfter \in Nat
  BY WindowAssumption
<1>1. S \in SUBSET Nat /\ last \in S /\ S \in SUBSET (last..Len(text))
  BY <1>0
<1>2. end \in S /\ \A n \in S : n <= end
  <2>1. IsFiniteSet(S)
    <3>1. IsFiniteSet(last..Len(text))
      BY <1>0, FS_Interval
    <3> HIDE DEF S
    <3> QED BY <1>1, <3>1, FS_Subset
  <2>2. end = Max(S)
    BY DEF WindowEnd
  <2> HIDE DEF S, end
  <2> QED
    BY <1>1, <2>1, <2>2, MaxIsGreatest
<1> HIDE DEF end
<1>3. end \in last..Len(text) /\ end - last <= ContextAfter /\ Affordable(text, start, end) /\ end \in Nat
  BY <1>0, <1>2
<1>4. ASSUME end < Len(text), end - last < ContextAfter, Affordable(text, start, end + 1) PROVE FALSE
  <2>1. end + 1 \in last..Len(text) /\ (end + 1) - last <= ContextAfter /\ end + 1 \in 0..Len(text)
        /\ start \in 1..(Len(text) + 1) /\ start \in start..(Len(text) + 1)
    BY <1>0, <1>3, <1>4
  <2>2. ASSUME NEW m \in last..(end + 1) PROVE Affordable(text, start, m)
    <3>1. m \in 0..(end + 1)
      BY <1>0, <1>3
    <3> QED
      BY <1>4, <2>1, <3>1, AffordableShrinks
  <2>3. end + 1 \in S
    BY <2>1, <2>2
  <2> HIDE DEF S
  <2> QED
    BY <1>2, <1>3, <2>3
<1> QED
  BY <1>3, <1>4 DEF end

\* verify.rs, select_window: of any file and any anchor in it, what is served is
\* within both budgets, starts from the anchor, adds only lines that exist and fit,
\* is called complete only when nothing of it is cut, and what is served and what
\* is reported omitted make up the anchor.
THEOREM WindowsAreRight ==
  ASSUME NEW text \in Seq(Nat), NEW first \in 1..Len(text), NEW last \in first..Len(text)
  PROVE  WindowIsRight(text, first, last, Window(text, first, last))
<1> DEFINE served == AnchorLines(text, first, last)
           window == Window(text, first, last)
<1>0. /\ first \in Nat /\ last \in Nat /\ Len(text) \in Nat /\ 1 <= first /\ first <= last /\ last <= Len(text)
      /\ MaxLines \in Nat \ {0} /\ MaxBytes \in Nat /\ ContextBefore \in Nat /\ ContextAfter \in Nat
      /\ text[first] \in Nat
  BY WindowAssumption
<1>1. /\ served \in (first - 1)..last
      /\ served >= first => Affordable(text, first, served)
      /\ served < last => ~Affordable(text, first, served + 1)
  BY AnchorIsServed
<1> HIDE DEF served
<1>2. Affordable(text, first, first) <=> text[first] <= MaxBytes
  <2>1. Bytes(text, first, first) = text[first]
    BY <1>0, BytesLaws
  <2> QED
    BY <1>0, <2>1 DEF Affordable
<1>3. ASSUME NEW b \in first..last, Affordable(text, first, b), NEW a \in first..b
      PROVE  Affordable(text, first, a)
  <2>1. /\ first \in 1..(Len(text) + 1) /\ b \in 0..Len(text) /\ first \in first..(Len(text) + 1) /\ a \in 0..b
    BY <1>0
  <2> QED
    BY <1>3, <2>1, AffordableShrinks
<1>4. CASE served < first
  <2>1. window = TooLong
    BY <1>4 DEF Window, served
  <2>2. ~Affordable(text, first, first)
    <3>1. served + 1 = first /\ served < last
      BY <1>0, <1>1, <1>4
    <3> QED
      BY <1>1, <3>1
  <2> QED
    BY <1>0, <1>2, <2>1, <2>2 DEF WindowIsRight
<1>5. CASE served >= first /\ served < last
  <2>1. /\ window.served = <<first, served>> /\ window.requested = <<first, last>>
        /\ window.complete = FALSE /\ window.omittedBytes = Bytes(text, served + 1, last)
    <3>1. ~(served < first) /\ served # last
      BY <1>0, <1>1, <1>5
    <3> QED
      BY <3>1 DEF Window, served
  <2> HIDE DEF window
  <2>2. text[first] <= MaxBytes /\ served \in first..last
    BY <1>0, <1>1, <1>2, <1>3, <1>5
  <2>3. ~Affordable(text, first, last)
    <3>1. served + 1 \in first..last /\ last \in first..last
      BY <1>0, <2>2, <1>5
    <3> QED
      BY <1>1, <1>3, <1>5, <3>1
  <2>4. Bytes(text, first, last) = Bytes(text, first, served) + Bytes(text, served + 1, last)
    BY <1>0, <2>2, BytesLaws
  <2>5. Bytes(text, first, served) \in Nat /\ Bytes(text, served + 1, last) \in Nat
    <3>1. first \in 1..(Len(text) + 1) /\ served \in 0..Len(text) /\ served + 1 \in 1..(Len(text) + 1) /\ last \in 0..Len(text)
      BY <1>0, <1>5, <2>2
    <3> QED
      BY <3>1, BytesLaws
  <2>6. Max({first, first}) = first /\ Min({served, last}) = served
    <3>1. first \in Int /\ served \in Int /\ last \in Int /\ first >= first /\ served <= last
      BY <1>0, <1>5, <2>2
    <3>2. \A a, b \in Int : (a >= b => Max({a, b}) = a) /\ (a <= b => Min({a, b}) = a)
      BY MaxAndMinOfTwo
    <3> QED
      BY <3>1, <3>2
  <2>7. /\ window.served[1] = first /\ window.served[2] = served
        /\ window.requested[1] = first /\ window.requested[2] = last
    BY <2>1
  <2>8. /\ Affordable(text, first, served) /\ ~Affordable(text, first, served + 1)
        /\ first >= first /\ served <= last
    BY <1>0, <1>1, <1>5, <2>2
  <2>9. ~(text[first] > MaxBytes)
    BY <1>0, <2>2
  <2>10. Bytes(text, served + 1, last) + Bytes(text, first, served) = Bytes(text, first, last)
    BY <2>4, <2>5
  <2> DEFINE s == window.served[1]
             e == window.served[2]
  <2>11. /\ Affordable(text, s, e)
         /\ window.complete = Affordable(text, first, last)
         /\ window.complete => s <= first /\ e >= last
         /\ ~window.complete => s = first /\ e < last /\ ~Affordable(text, s, e + 1)
         /\ s >= window.requested[1] /\ e <= window.requested[2]
         /\ window.complete /\ s > window.requested[1] => ~Affordable(text, s - 1, e)
         /\ window.complete /\ e < window.requested[2] => ~Affordable(text, s, e + 1)
    <3>1. window.complete = Affordable(text, first, last)
      BY <2>1, <2>3 DEF Affordable
    <3>2. s = first /\ e = served /\ window.requested[1] = first /\ window.requested[2] = last
      BY <2>7
    <3> HIDE DEF s, e
    <3> QED
      BY <1>5, <2>1, <2>8, <3>1, <3>2
  <2>12. window.omittedBytes + Bytes(text, Max({s, first}), Min({e, last})) = Bytes(text, first, last)
    BY <2>1, <2>6, <2>7, <2>10
  <2> QED
    BY <2>9, <2>11, <2>12 DEF WindowIsRight, window
<1>6. CASE served = last
  <2> DEFINE start == WindowStart(text, first, last)
             end == WindowEnd(text, start, last)
             before == Max({1, first - ContextBefore})
             after == Min({Len(text), last + ContextAfter})
  <2>1. Affordable(text, first, last) /\ text[first] <= MaxBytes
    BY <1>0, <1>1, <1>2, <1>3, <1>6
  <2>2. /\ window.served = <<start, end>> /\ window.requested = <<before, after>>
        /\ window.complete = TRUE /\ window.omittedBytes = Bytes(text, last + 1, last)
    <3>1. ~(served < first)
      BY <1>0, <1>6
    <3> QED
      BY <1>6, <3>1 DEF Window, served
  <2> HIDE DEF window
  <2>3. /\ start \in 1..first /\ first - start <= ContextBefore /\ Affordable(text, start, last)
        /\ (start > 1 /\ first - start < ContextBefore) => ~Affordable(text, start - 1, last)
    BY <2>1, ContextBeforeFits
  <2> HIDE DEF start
  <2>4. /\ end \in last..Len(text) /\ end - last <= ContextAfter /\ Affordable(text, start, end)
        /\ (end < Len(text) /\ end - last < ContextAfter) => ~Affordable(text, start, end + 1)
    <3>1. start \in 1..Len(text) /\ last \in start..Len(text)
      BY <1>0, <2>3
    <3> QED
      BY <2>3, <3>1, ContextAfterFits
  <2> HIDE DEF end
  <2>5. /\ before = IF 1 >= first - ContextBefore THEN 1 ELSE first - ContextBefore
        /\ after = IF Len(text) <= last + ContextAfter THEN Len(text) ELSE last + ContextAfter
    <3>1. /\ 1 \in Int /\ first - ContextBefore \in Int /\ Len(text) \in Int /\ last + ContextAfter \in Int
      BY <1>0
    <3>2. \A a, b \in Int : /\ Max({a, b}) = IF a >= b THEN a ELSE b
                            /\ Min({a, b}) = IF a <= b THEN a ELSE b
      BY MaxAndMinOfTwo
    <3> QED
      BY <3>1, <3>2
  <2> HIDE DEF before, after
  <2>6. start \in Nat /\ end \in Nat /\ start >= before /\ end <= after
    BY <1>0, <2>3, <2>4, <2>5
  <2>7. ASSUME start > before PROVE ~Affordable(text, start - 1, end)
    <3>1. start > 1 /\ first - start < ContextBefore
      BY <1>0, <2>3, <2>5, <2>6, <2>7
    <3>2. start - 1 \in 1..(Len(text) + 1) /\ end \in 0..Len(text) /\ start - 1 \in (start - 1)..(Len(text) + 1) /\ last \in 0..end
      BY <1>0, <2>3, <2>4, <3>1
    <3> QED
      BY <2>3, <3>1, <3>2, AffordableShrinks
  <2>8. ASSUME end < after PROVE ~Affordable(text, start, end + 1)
    BY <1>0, <2>3, <2>4, <2>5, <2>6, <2>8
  <2>9. Max({start, first}) = first /\ Min({end, last}) = last
    <3>1. start \in Int /\ first \in Int /\ end \in Int /\ last \in Int /\ start <= first /\ last <= end
      BY <1>0, <2>3, <2>4
    <3>2. \A a, b \in Int : (a <= b => Max({a, b}) = b) /\ (a >= b => Min({a, b}) = b)
      BY MaxAndMinOfTwo
    <3> QED
      BY <3>1, <3>2
  <2>10. Bytes(text, last + 1, last) = 0 /\ Bytes(text, first, last) \in Nat
    <3>1. first \in 1..(Len(text) + 1) /\ last + 1 \in 1..(Len(text) + 1) /\ last \in 0..Len(text) /\ last + 1 > last
      BY <1>0
    <3> QED
      BY <3>1, BytesLaws
  <2>11. start <= first /\ end >= last
    BY <1>0, <2>3, <2>4
  <2>12. /\ window.served[1] = start /\ window.served[2] = end
         /\ window.requested[1] = before /\ window.requested[2] = after
    BY <2>2
  <2>13. ~(text[first] > MaxBytes)
    BY <1>0, <2>1
  <2> DEFINE s == window.served[1]
             e == window.served[2]
  <2>14. /\ Affordable(text, s, e)
         /\ window.complete = Affordable(text, first, last)
         /\ window.complete => s <= first /\ e >= last
         /\ ~window.complete => s = first /\ e < last /\ ~Affordable(text, s, e + 1)
         /\ s >= window.requested[1] /\ e <= window.requested[2]
         /\ window.complete /\ s > window.requested[1] => ~Affordable(text, s - 1, e)
         /\ window.complete /\ e < window.requested[2] => ~Affordable(text, s, e + 1)
    BY <2>1, <2>2, <2>4, <2>6, <2>7, <2>8, <2>11, <2>12
  <2>15. window.omittedBytes + Bytes(text, Max({s, first}), Min({e, last})) = Bytes(text, first, last)
    BY <2>2, <2>9, <2>10, <2>12
  <2> QED
    BY <2>13, <2>14, <2>15 DEF WindowIsRight, window
<1> QED
  BY <1>0, <1>1, <1>4, <1>5, <1>6

----------------------------------------------------------------------------
(* The owner of a reference.                                               *)

\* def_key starts with the start, so the starts of sorted definitions ascend.
LEMMA StartsAscend ==
  ASSUME NEW defs, WellOrdered(defs), NEW i \in DOMAIN defs, NEW k \in DOMAIN defs, i <= k
  PROVE  defs[i].span.from <= defs[k].span.from
<1> DEFINE Bad == {m \in i..Len(defs) : defs[i].span.from > defs[m].span.from}
<1>0. DOMAIN defs = 1..Len(defs) /\ Len(defs) \in Nat
      /\ \A m \in DOMAIN defs : defs[m].span.from \in Nat /\ defs[m].span.to \in Nat
  BY DEF WellOrdered, IsSpan
<1>1. \A m \in 1..(Len(defs) - 1) : defs[m].span.from <= defs[m + 1].span.from
  <2> TAKE m \in 1..(Len(defs) - 1)
  <2>1. ~KeyBefore(DefKey(defs[m + 1]), DefKey(defs[m]))
    BY DEF WellOrdered, KeySorted
  <2>2. DOMAIN DefKey(defs[m + 1]) = 1..4 /\ DefKey(defs[m + 1])[1] = defs[m + 1].span.from
        /\ DefKey(defs[m])[1] = defs[m].span.from
    BY DEF DefKey
  <2>3. ~(DefKey(defs[m + 1])[1] < DefKey(defs[m])[1])
    BY <2>1, <2>2 DEF KeyBefore
  <2> QED
    BY <1>0, <2>2, <2>3
<1> SUFFICES ASSUME Bad # {} PROVE FALSE
  BY <1>0
<1>2. PICK m \in Bad : \A n \in Bad : m <= n
  <2>1. Bad \in SUBSET Nat
    BY <1>0
  <2> HIDE DEF Bad
  <2> QED
    BY <2>1, LeastNatural
<1>3. m # i /\ m - 1 \in i..Len(defs) /\ m - 1 \notin Bad /\ m - 1 \in 1..(Len(defs) - 1)
  BY <1>0, <1>2, SMTT(30)
<1>4. defs[i].span.from <= defs[m - 1].span.from /\ defs[m - 1].span.from <= defs[m].span.from
  BY <1>0, <1>1, <1>3, SMTT(30)
<1> QED
  BY <1>0, <1>2, <1>3, <1>4, SMTT(30)

\* What ends a walk back is the greatest end so far.
LEMMA EndsAreBounded ==
  ASSUME NEW defs, WellOrdered(defs), NEW j \in DOMAIN defs, NEW i \in 1..j
  PROVE  /\ PrefixMaxEnd([k \in DOMAIN defs |-> defs[k].span], j) >= defs[i].span.to
         /\ PrefixMaxEnd([k \in DOMAIN defs |-> defs[k].span], j) \in Nat
<1> DEFINE spans == [k \in DOMAIN defs |-> defs[k].span]
           ends == {spans[k].to : k \in 1..j}
<1>0. DOMAIN defs = 1..Len(defs) /\ Len(defs) \in Nat
      /\ \A m \in DOMAIN defs : defs[m].span.from \in Nat /\ defs[m].span.to \in Nat
  BY DEF WellOrdered, IsSpan
<1>1. ends \in SUBSET Nat /\ ends # {} /\ defs[i].span.to \in ends
  <2>1. \A k \in 1..j : k \in DOMAIN defs /\ spans[k].to = defs[k].span.to
    BY <1>0
  <2>2. defs[i].span.to \in ends
    BY <2>1
  <2> QED
    BY <1>0, <2>1, <2>2
<1>2. IsFiniteSet(ends)
  <2> DEFINE f == [k \in 1..j |-> spans[k].to]
  <2>1. ends = {f[k] : k \in 1..j}
    OBVIOUS
  <2>0. 1 \in Int /\ j \in Int
    BY <1>0
  <2>2. IsFiniteSet(1..j)
    BY <2>0, FS_Interval
  <2> HIDE DEF f, ends
  <2> QED
    BY <2>1, <2>2, FiniteImage
<1>3. \E m \in ends : \A n \in ends : n <= m
  <2> HIDE DEF ends
  <2> QED
    BY <1>1, <1>2, GreatestNatural
<1>4. Max(ends) \in ends /\ \A n \in ends : n <= Max(ends)
  <2> HIDE DEF ends
  <2> QED
    BY <1>1, <1>3 DEF Max
<1> QED
  BY <1>1, <1>4 DEF PrefixMaxEnd

\* What the binary search and the early stop leave out is not around the span.
LEMMA ReachMissesNothing ==
  ASSUME NEW defs, WellOrdered(defs), NEW span, IsSpan(span), NEW i \in DOMAIN defs,
         Within(span, defs[i].span)
  PROVE  i \in Reach([k \in DOMAIN defs |-> defs[k].span], span)
<1> DEFINE spans == [k \in DOMAIN defs |-> defs[k].span]
           started == {k \in DOMAIN spans : spans[k].from <= span.from}
           last == Cardinality(started)
<1>0. DOMAIN defs = 1..Len(defs) /\ Len(defs) \in Nat
      /\ \A m \in DOMAIN defs : defs[m].span.from \in Nat /\ defs[m].span.to \in Nat
  BY DEF WellOrdered, IsSpan
<1>1. i \in started /\ started \in SUBSET (DOMAIN defs)
  BY DEF Within
<1>2. PICK m \in started : \A n \in started : n <= m
  <2>0. 1 \in Int /\ Len(defs) \in Int /\ DOMAIN defs = 1..Len(defs)
    BY <1>0
  <2>1. IsFiniteSet(DOMAIN defs)
    BY <2>0, FS_Interval
  <2>2. DOMAIN defs \in SUBSET Nat
    BY <1>0
  <2>3. started \in SUBSET Nat /\ IsFiniteSet(started) /\ started # {}
    <3> HIDE DEF started
    <3> QED BY <1>1, <2>1, <2>2, FS_Subset
  <2> HIDE DEF started
  <2> QED
    BY <2>3, GreatestNatural
<1>3. started = 1..m
  <2>1. started \subseteq 1..m
    BY <1>0, <1>1, <1>2
  <2>2. ASSUME NEW k \in 1..m PROVE k \in started
    <3>1. k \in DOMAIN defs /\ m \in DOMAIN defs /\ k <= m
      BY <1>0, <1>1, <1>2
    <3>2. defs[k].span.from <= defs[m].span.from
      BY <3>1, StartsAscend
    <3>3. defs[m].span.from <= span.from
      BY <1>2, <3>1
    <3> QED
      BY <1>0, <3>1, <3>2, <3>3 DEF IsSpan
  <2> QED
    BY <2>1, <2>2
<1>4. last = m
  <2>1. m \in Int /\ m >= 1
    BY <1>0, <1>1, <1>2
  <2> HIDE DEF started
  <2> QED
    BY <1>3, <2>1, FS_Interval
<1>5. i \in 1..last
  BY <1>1, <1>3, <1>4
<1>6. ASSUME NEW j \in i..last PROVE PrefixMaxEnd(spans, j) >= span.to
  <2>1. j \in DOMAIN defs /\ i \in 1..j
    BY <1>0, <1>1, <1>2, <1>4, <1>5
  <2>2. PrefixMaxEnd(spans, j) >= defs[i].span.to /\ defs[i].span.to >= span.to
    BY <2>1, EndsAreBounded DEF Within
  <2>3. PrefixMaxEnd(spans, j) \in Nat
    BY <2>1, EndsAreBounded
  <2> QED
    BY <1>0, <2>2, <2>3 DEF IsSpan
<1> QED
  BY <1>5, <1>6 DEF Reach

\* facts.rs: in any list of definitions the validation accepts, the backward search
\* that stops at a running maximum of ends finds the innermost definition that
\* encloses a span: stopping early misses nothing.
THEOREM OwnersAreNearest ==
  ASSUME NEW defs, WellOrdered(defs), NEW span, IsSpan(span)
  PROVE  OwnerIsNearest(defs, span)
<1> SUFFICES ASSUME NEW forImport \in BOOLEAN
             PROVE  LET around == {i \in DOMAIN defs : /\ Within(span, defs[i].span)
                                                       /\ forImport => OwnsNestedImports(defs[i].kind)}
                        owner == Lookup(defs, span, forImport)
                    IN  /\ owner = NoOwner <=> around = {}
                        /\ owner # NoOwner =>
                             /\ owner \in around
                             /\ \A i \in around :
                                  \/ Length(defs[owner].span) < Length(defs[i].span)
                                  \/ Length(defs[owner].span) = Length(defs[i].span) /\ owner <= i
  BY DEF OwnerIsNearest
<1> DEFINE around == {i \in DOMAIN defs : /\ Within(span, defs[i].span)
                                          /\ forImport => OwnsNestedImports(defs[i].kind)}
           candidates == {i \in Reach([j \in DOMAIN defs |-> defs[j].span], span) :
                            /\ Within(span, defs[i].span)
                            /\ forImport => OwnsNestedImports(defs[i].kind)}
           shortest == {i \in around : \A j \in around : Length(defs[i].span) <= Length(defs[j].span)}
           owner == Lookup(defs, span, forImport)
<1>0. DOMAIN defs = 1..Len(defs) /\ Len(defs) \in Nat
      /\ \A m \in DOMAIN defs : Length(defs[m].span) \in Nat
  BY DEF WellOrdered, IsSpan, Length
<1>1. candidates = around
  <2>1. \A i \in Reach([j \in DOMAIN defs |-> defs[j].span], span) : i \in DOMAIN defs
    <3>1. DOMAIN [j \in DOMAIN defs |-> defs[j].span] = DOMAIN defs
      OBVIOUS
    <3> DEFINE started == {k \in DOMAIN defs : [j \in DOMAIN defs |-> defs[j].span][k].from <= span.from}
    <3>2. IsFiniteSet(DOMAIN defs) /\ Cardinality(DOMAIN defs) = Len(defs)
      <4>1. Len(defs) \in Int /\ 1 \in Int /\ (1 > Len(defs) => Len(defs) = 0)
        BY <1>0
      <4>2. IsFiniteSet(1..Len(defs)) /\ Cardinality(1..Len(defs)) = Len(defs)
        BY <4>1, FS_Interval
      <4> QED
        BY <1>0, <4>2
    <3>3. Cardinality(started) <= Len(defs) /\ Cardinality(started) \in Nat
      <4>1. started \in SUBSET DOMAIN defs
        OBVIOUS
      <4> HIDE DEF started
      <4> QED
        BY <3>2, <4>1, FS_Subset, FS_CardinalityType
    <3> QED
      BY <1>0, <3>1, <3>3 DEF Reach
  <2> QED
    BY <2>1, ReachMissesNothing
<1>2. owner = IF around = {} THEN NoOwner ELSE Min(shortest)
  BY <1>1 DEF Lookup
<1>3. around # {} => shortest # {}
  <2> SUFFICES ASSUME around # {} PROVE shortest # {}
    OBVIOUS
  <2> DEFINE lengths == {Length(defs[i].span) : i \in around}
  <2>1. lengths \in SUBSET Nat /\ lengths # {}
    BY <1>0
  <2>2. PICK m \in lengths : \A n \in lengths : m <= n
    <3> HIDE DEF lengths
    <3> QED BY <2>1, LeastNatural
  <2> QED
    BY <2>2
<1>4. around # {} => owner \in shortest /\ \A i \in shortest : owner <= i
  <2>1. shortest \in SUBSET Nat
    BY <1>0
  <2> HIDE DEF shortest, owner
  <2> QED
    BY <1>2, <1>3, <2>1, LeastNatural DEF Min
<1>5. around # {} => owner \in around /\ owner # NoOwner
  BY <1>0, <1>4 DEF NoOwner
<1>6. ASSUME NEW i \in around
      PROVE  \/ Length(defs[owner].span) < Length(defs[i].span)
             \/ Length(defs[owner].span) = Length(defs[i].span) /\ owner <= i
  <2>1. owner \in around /\ owner \in shortest /\ Length(defs[owner].span) <= Length(defs[i].span)
    BY <1>4, <1>5
  <2>2. Length(defs[owner].span) \in Nat /\ Length(defs[i].span) \in Nat
    BY <1>0, <2>1
  <2>3. Length(defs[owner].span) = Length(defs[i].span) => i \in shortest
    BY <2>1
  <2> HIDE DEF owner, shortest, around
  <2> QED
    BY <1>4, <2>1, <2>2, <2>3
<1>7. owner = NoOwner <=> around = {}
  BY <1>2, <1>5
<1> HIDE DEF owner, around, shortest
<1>8. /\ owner = NoOwner <=> around = {}
      /\ owner # NoOwner =>
           /\ owner \in around
           /\ \A i \in around :
                \/ Length(defs[owner].span) < Length(defs[i].span)
                \/ Length(defs[owner].span) = Length(defs[i].span) /\ owner <= i
  BY <1>5, <1>6, <1>7
<1> QED
  BY <1>8 DEF owner, around

----------------------------------------------------------------------------
(* The plan of a Git status.                                               *)

Dispositions == {"unclaimed", "recheck", "remove"}
Drafts ==
  [dispositions : [Paths -> Dispositions], renames : [Paths -> Paths \cup {NoSource}],
   conflicted : SUBSET Paths, failure : {Sound, "source-is-target", "two-sources"}]

\* The parts of a draft.
LEMMA DraftParts ==
  ASSUME NEW d \in Drafts
  PROVE  /\ d.dispositions \in [Paths -> Dispositions] /\ d.renames \in [Paths -> Paths \cup {NoSource}]
         /\ d.conflicted \in SUBSET Paths /\ d.failure \in {Sound, "source-is-target", "two-sources"}
BY DEF Drafts

\* What each claim does to a draft.
LEMMA RecheckDoes ==
  ASSUME NEW d \in Drafts, NEW p \in Paths
  PROVE  /\ RecheckPath(d, p) \in Drafts
         /\ RecheckPath(d, p).dispositions = [d.dispositions EXCEPT ![p] = "recheck"]
         /\ RecheckPath(d, p).renames = d.renames /\ RecheckPath(d, p).conflicted = d.conflicted
         /\ RecheckPath(d, p).failure = d.failure
<1>1. [d.dispositions EXCEPT ![p] = "recheck"] \in [Paths -> Dispositions]
  BY DraftParts DEF Dispositions
<1> QED
  BY <1>1 DEF RecheckPath, Drafts

\* A removal that is the first claim of a path marks it; any other leaves it.
LEMMA RemoveDoes ==
  ASSUME NEW d \in Drafts, NEW p \in Paths
  PROVE  /\ RemovePath(d, p) \in Drafts
         /\ RemovePath(d, p).dispositions =
              [d.dispositions EXCEPT ![p] = IF @ = "unclaimed" THEN "remove" ELSE @]
         /\ RemovePath(d, p).renames = d.renames /\ RemovePath(d, p).conflicted = d.conflicted
         /\ RemovePath(d, p).failure = d.failure
<1>1. [d.dispositions EXCEPT ![p] = IF @ = "unclaimed" THEN "remove" ELSE @] \in [Paths -> Dispositions]
  BY DraftParts DEF Dispositions
<1> QED
  BY <1>1 DEF RemovePath, Drafts

\* The first contradiction stays.
LEMMA FailDoes ==
  ASSUME NEW d \in Drafts, NEW reason \in {"source-is-target", "two-sources"}
  PROVE  /\ Fail(d, reason) \in Drafts /\ Fail(d, reason).failure # Sound
         /\ d.failure # Sound => Fail(d, reason) = d
BY DEF Fail, Drafts, Sound

\* A conflict is noted beside what else is claimed.
LEMMA ConflictDoes ==
  ASSUME NEW d \in Drafts, NEW p \in Paths
  PROVE  LET c == [d EXCEPT !.conflicted = @ \cup {p}]
         IN  /\ c \in Drafts /\ c.conflicted = d.conflicted \cup {p}
             /\ c.dispositions = d.dispositions /\ c.renames = d.renames /\ c.failure = d.failure
BY DEF Drafts

\* The source of a rename is noted beside what else is claimed.
LEMMA RecordDoes ==
  ASSUME NEW d \in Drafts, NEW s \in Paths, NEW t \in Paths
  PROVE  LET r == [d EXCEPT !.renames[t] = s]
         IN  /\ r \in Drafts /\ r.renames = [d.renames EXCEPT ![t] = s]
             /\ r.dispositions = d.dispositions /\ r.conflicted = d.conflicted /\ r.failure = d.failure
<1>1. [d.renames EXCEPT ![t] = s] \in [Paths -> Paths \cup {NoSource}]
  BY DraftParts
<1> QED
  BY <1>1 DEF Drafts

\* The dispositions after a rename of s to t.
Moved(f, s, t) == [[f EXCEPT ![s] = IF @ = "unclaimed" THEN "remove" ELSE @] EXCEPT ![t] = "recheck"]

\* A rename fails, or records its source, removes it and rechecks its target.
LEMMA RenameDoes ==
  ASSUME NEW d \in Drafts, NEW s \in Paths, NEW t \in Paths
  PROVE  LET r == RenamePath(d, s, t)
         IN  /\ r \in Drafts
             /\ d.failure # Sound \/ s = t \/ d.renames[t] \notin {NoSource, s} => r.failure # Sound
             /\ s # t /\ d.renames[t] \in {NoSource, s} =>
                  /\ r.failure = d.failure /\ r.conflicted = d.conflicted
                  /\ r.renames = [d.renames EXCEPT ![t] = s]
                  /\ r.dispositions = Moved(d.dispositions, s, t)
<1> DEFINE recorded == [d EXCEPT !.renames[t] = s]
           removed == RemovePath(recorded, s)
           r == RenamePath(d, s, t)
<1>1. /\ recorded \in Drafts /\ recorded.renames = [d.renames EXCEPT ![t] = s]
      /\ recorded.dispositions = d.dispositions /\ recorded.conflicted = d.conflicted
      /\ recorded.failure = d.failure
  BY RecordDoes
<1> HIDE DEF recorded
<1>2. CASE s = t
  <2>1. r = Fail(d, "source-is-target")
    BY <1>2 DEF RenamePath
  <2> QED
    BY <1>2, <2>1, FailDoes
<1>3. CASE s # t /\ d.renames[t] \notin {NoSource, s}
  <2>1. r = Fail(recorded, "two-sources")
    BY <1>3 DEF RenamePath, recorded
  <2> QED
    BY <1>1, <1>3, <2>1, FailDoes
<1>4. CASE s # t /\ d.renames[t] \in {NoSource, s}
  <2>1. r = RecheckPath(removed, t)
    BY <1>4 DEF RenamePath, recorded
  <2>2. /\ removed \in Drafts /\ removed.renames = recorded.renames /\ removed.conflicted = recorded.conflicted
        /\ removed.failure = recorded.failure
        /\ removed.dispositions = [recorded.dispositions EXCEPT ![s] = IF @ = "unclaimed" THEN "remove" ELSE @]
    BY <1>1, RemoveDoes
  <2> HIDE DEF removed
  <2>3. /\ r \in Drafts /\ r.renames = removed.renames /\ r.conflicted = removed.conflicted
        /\ r.failure = removed.failure /\ r.dispositions = [removed.dispositions EXCEPT ![t] = "recheck"]
    BY <2>1, <2>2, RecheckDoes
  <2> HIDE DEF r
  <2>4. /\ r.failure = d.failure /\ r.conflicted = d.conflicted
        /\ r.renames = [d.renames EXCEPT ![t] = s]
        /\ r.dispositions = Moved(d.dispositions, s, t)
    BY <1>1, <2>2, <2>3 DEF Moved
  <2> QED
    BY <1>4, <2>3, <2>4 DEF r
<1> QED
  BY <1>2, <1>3, <1>4

\* Any claim of any item makes a draft of a draft.
LEMMA ClaimTyped ==
  ASSUME NEW d \in Drafts, NEW item, IsItem(item)
  PROVE  Claim(d, item) \in Drafts
<1>1. CASE item.is = "remove"
  BY <1>1, RemoveDoes DEF Claim, IsItem
<1>2. CASE item.is = "rename"
  BY <1>2, RenameDoes DEF Claim, IsItem
<1>3. CASE item.is = "conflict"
  BY <1>3, ConflictDoes, RecheckDoes DEF Claim, IsItem
<1>4. CASE item.is \in {"recheck", "copy"}
  BY <1>4, RecheckDoes DEF Claim, IsItem
<1> QED
  BY <1>1, <1>2, <1>3, <1>4 DEF IsItem

----------------------------------------------------------------------------
(* The draft is built one claim at a time.                                 *)

\* The fold over the items is what claiming them one by one from a new draft gives.
LEMMA DraftUnfolds ==
  ASSUME NEW Listed, NEW items \in Seq(Listed), \A i \in DOMAIN items : IsItem(items[i])
  PROVE  \E d \in [0..Len(items) -> Drafts] :
           /\ d[0] = NewDraft /\ d[Len(items)] = Draft(items)
           /\ \A k \in 1..Len(items) : d[k] = Claim(d[k - 1], items[k])
<1> DEFINE D == DOMAIN items
           n == Len(items)
           pick == [s \in (SUBSET D) \ {{}} |-> Max(s)]
           step == [p \in D \X Drafts |-> Claim(p[2], items[p[1]])]
           Folds(f) == f = [s \in SUBSET D |-> IF s = {} THEN NewDraft
                                               ELSE Claim(f[s \ {Max(s)}], items[Max(s)])]
           f0 == CHOOSE f : Folds(f)
<1>0. D = 1..n /\ n \in Nat /\ IsFiniteSet(D)
  BY FS_Interval
<1>1. \A s \in (SUBSET D) \ {{}} : Max(s) \in s /\ \A m \in s : m <= Max(s)
  <2> TAKE s \in (SUBSET D) \ {{}}
  <2>1. s \in SUBSET Nat /\ IsFiniteSet(s) /\ s # {}
    BY <1>0, FS_Subset
  <2> QED
    BY <2>1, MaxIsGreatest
<1>2. Picks(pick, D)
  BY <1>1 DEF Picks
<1>3. step \in [D \X Drafts -> Drafts]
  BY ClaimTyped
<1>4. NewDraft \in Drafts
  BY DEF NewDraft, Drafts, Dispositions
<1>5. PICK g \in [SUBSET D -> Drafts] : Recursion(g, D, NewDraft, step, pick)
  <2> HIDE DEF step, pick, D
  <2> QED
    BY <1>0, <1>2, <1>3, <1>4, RecursionExists
<1>6. Folds(g)
  <2>1. \A s \in SUBSET D : s # {} => g[s] = Claim(g[s \ {Max(s)}], items[Max(s)])
    <3> TAKE s \in SUBSET D
    <3> SUFFICES ASSUME s # {} PROVE g[s] = Claim(g[s \ {Max(s)}], items[Max(s)])
      OBVIOUS
    <3>1. pick[s] = Max(s) /\ Max(s) \in D /\ g[s \ {Max(s)}] \in Drafts
      BY <1>1
    <3>2. g[s] = step[<<pick[s], g[s \ {pick[s]}]>>]
      BY <1>5 DEF Recursion
    <3> QED
      BY <3>1, <3>2
  <2>2. g[{}] = NewDraft
    BY <1>5 DEF Recursion
  <2> HIDE DEF D
  <2> QED
    BY <2>1, <2>2
<1>7. Folds(f0)
  <2> HIDE DEF Folds
  <2> QED
    BY <1>6
<1>8. Draft(items) = f0[D]
  BY DEF Draft, FoldLeft, MapThenFoldSet
<1> HIDE DEF f0
<1>9. f0[{}] = NewDraft /\ \A s \in SUBSET D : s # {} => f0[s] = Claim(f0[s \ {Max(s)}], items[Max(s)])
  BY <1>7
<1> DEFINE d == [k \in 0..n |-> f0[1..k]]
<1>10. d[0] = NewDraft
  <2>1. 1..0 = {} /\ 0 \in 0..n
    BY <1>0
  <2> QED
    BY <1>9, <2>1
<1>11. ASSUME NEW k \in 1..n PROVE d[k] = Claim(d[k - 1], items[k])
  <2>1. 1..k \in SUBSET D /\ 1..k # {} /\ k \in 1..k
    BY <1>0
  <2>2. Max(1..k) = k
    <3>1. Max(1..k) \in 1..k /\ k <= Max(1..k)
      BY <1>1, <2>1
    <3> QED
      BY <1>0, <3>1
  <2>3. (1..k) \ {k} = 1..(k - 1) /\ k \in 0..n /\ k - 1 \in 0..n
    BY <1>0
  <2>4. f0[1..k] = Claim(f0[(1..k) \ {Max(1..k)}], items[Max(1..k)])
    BY <1>9, <2>1
  <2> QED
    BY <2>2, <2>3, <2>4
<1>12. d[n] = Draft(items)
  BY <1>0, <1>8
<1>13. \A k \in 0..n : d[k] \in Drafts
  <2> DEFINE Good == {k \in 0..n : d[k] \in Drafts}
  <2>1. 0 \in Good
    BY <1>0, <1>4, <1>10
  <2>2. ASSUME NEW k \in 0..(n - 1), k \in Good PROVE k + 1 \in Good
    <3>1. k + 1 \in 1..n /\ (k + 1) - 1 = k /\ k + 1 \in 0..n
      BY <1>0
    <3>2. d[k + 1] = Claim(d[k], items[k + 1])
      BY <1>11, <3>1
    <3>3. Claim(d[k], items[k + 1]) \in Drafts
      BY <1>0, <2>2, <3>1, ClaimTyped
    <3> QED
      BY <3>1, <3>2, <3>3
  <2> HIDE DEF d, Good
  <2>3. \A k \in 0..n : k \in Good
    BY <1>0, <2>1, <2>2, InductionUpTo
  <2> QED
    BY <2>3 DEF Good
<1>14. d \in [0..n -> Drafts]
  BY <1>13
<1> HIDE DEF d
<1> QED
  BY <1>10, <1>11, <1>12, <1>14
----------------------------------------------------------------------------
(* What a draft says of the items claimed so far, whatever their order.    *)

Renames(S) == {item \in S : item.is = "rename"}
IsSeen(S, p) == \E item \in S : item.is # "remove" /\ item.path = p
IsGone(S, p) == \E item \in S : \/ item.is = "remove" /\ item.path = p
                                \/ item.is = "rename" /\ item.source = p
TwoSources(S) ==
  \E item \in Renames(S) : \/ item.source = item.path
                           \/ \E other \in Renames(S) : other.path = item.path /\ other.source # item.source

RenamesFollow(d, S) ==
  /\ \A item \in Renames(S) : item.source # item.path /\ d.renames[item.path] = item.source
  /\ \A t \in Paths : d.renames[t] # NoSource => \E item \in Renames(S) : item.path = t
PathsFollow(d, S) ==
  \A p \in Paths : /\ d.dispositions[p] = "recheck" <=> IsSeen(S, p)
                   /\ d.dispositions[p] = "remove" <=> IsGone(S, p) /\ ~IsSeen(S, p)
ConflictsFollow(d, S) ==
  \A p \in Paths : p \in d.conflicted <=> \E item \in S : item.is = "conflict" /\ item.path = p
Follows(d, S) ==
  IF d.failure = Sound THEN RenamesFollow(d, S) /\ PathsFollow(d, S) /\ ConflictsFollow(d, S)
                       ELSE TwoSources(S)

\* What one more item sees and takes away.
LEMMA SeenOneMore ==
  ASSUME NEW S, NEW item, NEW p
  PROVE  /\ IsSeen(S \cup {item}, p) <=> IsSeen(S, p) \/ (item.is # "remove" /\ item.path = p)
         /\ IsGone(S \cup {item}, p) <=> \/ IsGone(S, p)
                                         \/ item.is = "remove" /\ item.path = p
                                         \/ item.is = "rename" /\ item.source = p
BY DEF IsSeen, IsGone

\* What one more item adds to the renames.
LEMMA RenamesOneMore ==
  ASSUME NEW S, NEW item
  PROVE  /\ item.is = "rename" => Renames(S \cup {item}) = Renames(S) \cup {item}
         /\ item.is # "rename" => Renames(S \cup {item}) = Renames(S)
BY DEF Renames

\* An item that is no rename disturbs neither the renames nor the failure.
LEMMA OtherClaims ==
  ASSUME NEW d \in Drafts, NEW S, \A item \in S : IsItem(item), Follows(d, S),
         NEW item, IsItem(item), item.is # "rename"
  PROVE  Follows(Claim(d, item), S \cup {item})
<1> USE PlanAssumption
<1> DEFINE e == Claim(d, item)
           T == S \cup {item}
           p == item.path
           conflict == item.is = "conflict"
<1>0. p \in Paths /\ item.is \in {"recheck", "copy", "conflict", "remove"}
  BY DEF IsItem
<1>1. /\ e \in Drafts /\ e.renames = d.renames /\ e.failure = d.failure
      /\ e.dispositions = IF item.is = "remove"
                          THEN [d.dispositions EXCEPT ![p] = IF @ = "unclaimed" THEN "remove" ELSE @]
                          ELSE [d.dispositions EXCEPT ![p] = "recheck"]
      /\ e.conflicted = IF conflict THEN d.conflicted \cup {p} ELSE d.conflicted
  <2>1. CASE item.is = "remove"
    BY <1>0, <2>1, RemoveDoes DEF Claim
  <2>2. CASE item.is = "conflict"
    <3> DEFINE c == [d EXCEPT !.conflicted = @ \cup {p}]
    <3>1. /\ c \in Drafts /\ c.conflicted = d.conflicted \cup {p}
          /\ c.dispositions = d.dispositions /\ c.renames = d.renames /\ c.failure = d.failure
      BY <1>0, ConflictDoes
    <3>2. e = RecheckPath(c, p)
      BY <2>2 DEF Claim
    <3> HIDE DEF c, e
    <3> QED
      BY <1>0, <2>2, <3>1, <3>2, RecheckDoes
  <2>3. CASE item.is \in {"recheck", "copy"}
    BY <1>0, <2>3, RecheckDoes DEF Claim
  <2> QED
    BY <1>0, <2>1, <2>2, <2>3
<1> SUFFICES Follows(e, T)
  OBVIOUS
<1> HIDE DEF e
<1>2. Renames(T) = Renames(S)
  BY RenamesOneMore
<1>3. CASE d.failure # Sound
  BY <1>1, <1>2, <1>3 DEF Follows, TwoSources
<1>4. CASE d.failure = Sound
  <2>1. RenamesFollow(e, T)
    BY <1>1, <1>2, <1>4 DEF Follows, RenamesFollow
  <2>2. ConflictsFollow(e, T)
    BY <1>0, <1>1, <1>4 DEF Follows, ConflictsFollow
  <2>3. PathsFollow(e, T)
    <3> SUFFICES ASSUME NEW q \in Paths
                 PROVE  /\ e.dispositions[q] = "recheck" <=> IsSeen(T, q)
                        /\ e.dispositions[q] = "remove" <=> IsGone(T, q) /\ ~IsSeen(T, q)
      BY DEF PathsFollow
    <3>1. /\ d.dispositions[q] = "recheck" <=> IsSeen(S, q)
          /\ d.dispositions[q] = "remove" <=> IsGone(S, q) /\ ~IsSeen(S, q)
          /\ d.dispositions[q] \in {"unclaimed", "recheck", "remove"}
          /\ d.dispositions \in [Paths -> Dispositions]
      BY <1>4, DraftParts DEF Follows, PathsFollow, Dispositions
    <3>2. /\ IsSeen(T, q) <=> IsSeen(S, q) \/ (item.is # "remove" /\ p = q)
          /\ IsGone(T, q) <=> IsGone(S, q) \/ (item.is = "remove" /\ p = q)
      BY SeenOneMore
    <3>3. e.dispositions[q] = CASE q # p -> d.dispositions[q]
                                [] q = p /\ item.is # "remove" -> "recheck"
                                [] q = p /\ item.is = "remove" ->
                                     IF d.dispositions[q] = "unclaimed" THEN "remove" ELSE d.dispositions[q]
      BY <1>0, <1>1, <3>1
    <3>4. CASE q # p
      BY <3>1, <3>2, <3>3, <3>4
    <3>5. CASE q = p /\ item.is # "remove"
      BY <3>1, <3>2, <3>3, <3>5
    <3>6. CASE q = p /\ item.is = "remove"
      BY <3>1, <3>2, <3>3, <3>6
    <3> QED
      BY <3>4, <3>5, <3>6
  <2> QED
    BY <1>1, <1>4, <2>1, <2>2, <2>3 DEF Follows
<1> QED
  BY <1>3, <1>4

\* A rename is recorded, or contradicts itself or an earlier one.
LEMMA RenameClaims ==
  ASSUME NEW d \in Drafts, NEW S, \A item \in S : IsItem(item), Follows(d, S),
         NEW item, IsItem(item), item.is = "rename"
  PROVE  Follows(Claim(d, item), S \cup {item})
<1> USE PlanAssumption
<1> DEFINE e == Claim(d, item)
           T == S \cup {item}
           s == item.source
           t == item.path
<1>0. s \in Paths /\ t \in Paths /\ e = RenamePath(d, s, t) /\ s # NoSource
  BY DEF IsItem, Claim
<1>1. /\ e \in Drafts
      /\ d.failure # Sound \/ s = t \/ d.renames[t] \notin {NoSource, s} => e.failure # Sound
      /\ s # t /\ d.renames[t] \in {NoSource, s} =>
           /\ e.failure = d.failure /\ e.conflicted = d.conflicted
           /\ e.renames = [d.renames EXCEPT ![t] = s]
           /\ e.dispositions = Moved(d.dispositions, s, t)
  <2> HIDE DEF e, s, t
  <2>1. e = RenamePath(d, s, t) /\ s \in Paths /\ t \in Paths
    BY <1>0
  <2> QED
    BY <2>1, RenameDoes
<1> SUFFICES Follows(e, T)
  OBVIOUS
<1> HIDE DEF e
<1>2. Renames(T) = Renames(S) \cup {item}
  BY RenamesOneMore
<1>3. CASE d.failure # Sound
  BY <1>1, <1>2, <1>3 DEF Follows, TwoSources
<1>4. CASE d.failure = Sound /\ s = t
  BY <1>1, <1>2, <1>4 DEF Follows, TwoSources
<1>5. CASE d.failure = Sound /\ s # t /\ d.renames[t] \notin {NoSource, s}
  <2>1. PICK other \in Renames(S) : other.path = t /\ other.source = d.renames[t]
    BY <1>0, <1>5 DEF Follows, RenamesFollow
  <2> QED
    BY <1>1, <1>2, <1>5, <2>1 DEF Follows, TwoSources
<1>6. CASE d.failure = Sound /\ s # t /\ d.renames[t] \in {NoSource, s}
  <2>1. /\ e.failure = Sound /\ e.conflicted = d.conflicted /\ e.renames = [d.renames EXCEPT ![t] = s]
        /\ d.renames \in [Paths -> Paths \cup {NoSource}]
        /\ RenamesFollow(d, S) /\ PathsFollow(d, S) /\ ConflictsFollow(d, S)
    BY <1>1, <1>6, DraftParts DEF Follows
  <2>2. RenamesFollow(e, T)
    <3>1. ASSUME NEW i \in Renames(T) PROVE i.source # i.path /\ e.renames[i.path] = i.source
      <4>1. CASE i = item
        BY <1>0, <1>6, <2>1, <4>1
      <4>2. CASE i \in Renames(S)
        <5>1. i.path \in Paths /\ i.source \in Paths
          BY <4>2 DEF Renames, IsItem
        <5>2. i.source # i.path /\ d.renames[i.path] = i.source
          BY <2>1, <4>2 DEF RenamesFollow
        <5>3. i.path = t => i.source = s
          BY <1>6, <5>1, <5>2
        <5> QED
          BY <1>0, <2>1, <5>1, <5>2, <5>3
      <4> QED
        BY <1>2, <4>1, <4>2
    <3>2. ASSUME NEW u \in Paths, e.renames[u] # NoSource PROVE \E i \in Renames(T) : i.path = u
      <4>1. CASE u = t
        BY <1>2, <4>1
      <4>2. CASE u # t
        <5>1. d.renames[u] # NoSource
          BY <1>0, <2>1, <3>2, <4>2
        <5>2. PICK i \in Renames(S) : i.path = u
          BY <2>1, <5>1 DEF RenamesFollow
        <5> QED
          BY <1>2, <5>2
      <4> QED
        BY <4>1, <4>2
    <3> QED
      BY <3>1, <3>2 DEF RenamesFollow
  <2>3. ConflictsFollow(e, T)
    BY <2>1 DEF ConflictsFollow
  <2>4. PathsFollow(e, T)
    <3> SUFFICES ASSUME NEW q \in Paths
                 PROVE  /\ e.dispositions[q] = "recheck" <=> IsSeen(T, q)
                        /\ e.dispositions[q] = "remove" <=> IsGone(T, q) /\ ~IsSeen(T, q)
      BY DEF PathsFollow
    <3>1. /\ d.dispositions[q] = "recheck" <=> IsSeen(S, q)
          /\ d.dispositions[q] = "remove" <=> IsGone(S, q) /\ ~IsSeen(S, q)
          /\ d.dispositions[q] \in {"unclaimed", "recheck", "remove"}
          /\ d.dispositions \in [Paths -> Dispositions]
      BY <2>1, DraftParts DEF PathsFollow, Dispositions
    <3>2. /\ IsSeen(T, q) <=> IsSeen(S, q) \/ t = q
          /\ IsGone(T, q) <=> IsGone(S, q) \/ s = q
      BY SeenOneMore
    <3>3. e.dispositions[q] = CASE q = t -> "recheck"
                                [] q = s -> IF d.dispositions[q] = "unclaimed" THEN "remove"
                                                                             ELSE d.dispositions[q]
                                [] q \notin {s, t} -> d.dispositions[q]
      BY <1>0, <1>1, <1>6, <3>1 DEF Moved
    <3>4. CASE q = t
      <4>1. e.dispositions[q] = "recheck" /\ IsSeen(T, q)
        BY <1>6, <3>2, <3>3, <3>4
      <4> QED
        BY <4>1
    <3>5. CASE q = s
      BY <1>6, <3>1, <3>2, <3>3, <3>5
    <3>6. CASE q \notin {s, t}
      BY <3>1, <3>2, <3>3, <3>6
    <3> QED
      BY <3>4, <3>5, <3>6
  <2> QED
    BY <2>1, <2>2, <2>3, <2>4 DEF Follows
<1> QED
  BY <1>3, <1>4, <1>5, <1>6

\* So the whole draft follows the set of the items, however they are ordered.
LEMMA DraftFollows ==
  ASSUME NEW Listed, NEW items \in Seq(Listed), \A i \in DOMAIN items : IsItem(items[i])
  PROVE  Draft(items) \in Drafts /\ Follows(Draft(items), {items[i] : i \in DOMAIN items})
<1> USE PlanAssumption
<1> DEFINE n == Len(items)
           Of(k) == {items[i] : i \in 1..k}
<1>0. n \in Nat /\ DOMAIN items = 1..n
  OBVIOUS
<1>1. PICK d \in [0..n -> Drafts] :
        /\ d[0] = NewDraft /\ d[n] = Draft(items)
        /\ \A k \in 1..n : d[k] = Claim(d[k - 1], items[k])
  BY DraftUnfolds
<1> DEFINE Good == {k \in 0..n : Follows(d[k], Of(k))}
<1>2. 0 \in Good
  <2>1. Of(0) = {} /\ 0 \in 0..n
    BY <1>0
  <2>2. Follows(NewDraft, {})
    BY DEF Follows, NewDraft, RenamesFollow, PathsFollow, ConflictsFollow, Renames, IsSeen, IsGone
  <2> QED
    BY <1>1, <2>1, <2>2
<1>3. ASSUME NEW k \in 0..(n - 1), k \in Good PROVE k + 1 \in Good
  <2>1. k + 1 \in 1..n /\ k + 1 \in 0..n /\ (k + 1) - 1 = k /\ k \in 0..n
    BY <1>0
  <2>2. d[k] \in Drafts /\ Follows(d[k], Of(k)) /\ IsItem(items[k + 1]) /\ \A item \in Of(k) : IsItem(item)
    <3>1. d[k] \in Drafts
      BY <2>1
    <3>2. Follows(d[k], Of(k))
      BY <1>3
    <3>3. \A i \in 1..(k + 1) : IsItem(items[i])
      BY <1>0, <2>1
    <3>4. k + 1 \in 1..(k + 1) /\ \A i \in 1..k : i \in 1..(k + 1)
      BY <2>1
    <3>5. \A item \in Of(k) : IsItem(item)
      BY <3>3, <3>4
    <3> QED
      BY <3>1, <3>2, <3>3, <3>4, <3>5
  <2>3. Of(k + 1) = Of(k) \cup {items[k + 1]}
    <3>1. 1..(k + 1) = (1..k) \cup {k + 1}
      BY <1>0
    <3> QED
      BY <3>1
  <2>4. d[k + 1] = Claim(d[k], items[k + 1])
    BY <1>1, <2>1
  <2> HIDE DEF Of
  <2>5. Follows(Claim(d[k], items[k + 1]), Of(k) \cup {items[k + 1]})
    BY <2>2, OtherClaims, RenameClaims
  <2> QED
    BY <2>1, <2>3, <2>4, <2>5
<1>4. n \in Good
  <2> HIDE DEF Good
  <2>1. \A k \in 0..n : k \in Good
    BY <1>0, <1>2, <1>3, InductionUpTo
  <2> QED
    BY <1>0, <2>1
<1> QED
  BY <1>0, <1>1, <1>4 DEF Good

\* The plan of a Git status depends on the set of its items and on nothing else:
\* refresh/mod.rs builds it claim by claim in the order Git lists them.
THEOREM PlansIgnoreOrder ==
  ASSUME NEW Listed, NEW items \in Seq(Listed), \A i \in DOMAIN items : IsItem(items[i])
  PROVE  PlanIgnoresOrder(items)
<1> USE PlanAssumption
<1> DEFINE S == {items[i] : i \in DOMAIN items}
           d == Draft(items)
           plan == Freeze(d)
           of(kind) == {items[i] : i \in {j \in DOMAIN items : items[j].is = kind}}
           renames == {<<r.source, r.path>> : r \in of("rename")}
           seen == {item.path : item \in of("recheck") \cup of("copy") \cup of("conflict") \cup of("rename")}
           gone == {item.path : item \in of("remove")} \cup {r[1] : r \in renames}
           contradict == \/ \E r \in renames : r[1] = r[2]
                         \/ \E r, s \in renames : r # s /\ (r[1] = s[1] \/ r[2] = s[2])
           planned == {<<d.renames[t], t>> : t \in {u \in Paths : d.renames[u] # NoSource}}
           forked == \E r, s \in planned : r[1] = s[1] /\ r[2] # s[2]
<1>1. d \in Drafts /\ Follows(d, S)
  BY DraftFollows
<1>2. /\ d.dispositions \in [Paths -> Dispositions] /\ d.renames \in [Paths -> Paths \cup {NoSource}]
      /\ d.conflicted \in SUBSET Paths
  BY <1>1, DraftParts
<1>3. \A item \in S : IsItem(item)
  OBVIOUS
<1>4. \A kind : of(kind) = {item \in S : item.is = kind}
  OBVIOUS
<1>5. of("rename") = Renames(S)
  BY <1>4 DEF Renames
<1>6. /\ plan.refused = (d.failure # Sound \/ forked)
      /\ plan.recheck = {p \in Paths : d.dispositions[p] = "recheck"}
      /\ plan.remove = {p \in Paths : d.dispositions[p] = "remove"}
      /\ plan.renames = planned /\ plan.conflicted = d.conflicted
  BY DEF Freeze
<1> HIDE DEF d, plan, S, of
<1>7. TwoSources(S) => contradict
  <2> SUFFICES ASSUME TwoSources(S) PROVE contradict
    OBVIOUS
  <2>1. PICK i \in Renames(S) :
          i.source = i.path \/ \E j \in Renames(S) : j.path = i.path /\ j.source # i.source
    BY DEF TwoSources
  <2>2. <<i.source, i.path>> \in renames
    BY <1>5
  <2>3. CASE i.source = i.path
    BY <2>2, <2>3
  <2>4. CASE \E j \in Renames(S) : j.path = i.path /\ j.source # i.source
    <3>1. PICK j \in Renames(S) : j.path = i.path /\ j.source # i.source
      BY <2>4
    <3>2. <<j.source, j.path>> \in renames /\ <<j.source, j.path>> # <<i.source, i.path>>
      BY <1>5, <3>1
    <3> QED
      BY <2>2, <3>1, <3>2
  <2> QED
    BY <2>1, <2>3, <2>4
<1>8. CASE d.failure # Sound
  <2>1. TwoSources(S)
    BY <1>1, <1>8 DEF Follows
  <2>2. contradict /\ plan.refused
    BY <1>6, <1>7, <1>8, <2>1
  <2> QED
    BY <2>2 DEF PlanIgnoresOrder, plan, d, of
<1>9. CASE d.failure = Sound
  <2>1. RenamesFollow(d, S) /\ PathsFollow(d, S) /\ ConflictsFollow(d, S)
    BY <1>1, <1>9 DEF Follows
  <2>2. planned = renames
    <3>1. ASSUME NEW r \in planned PROVE r \in renames
      <4>1. PICK t \in Paths : d.renames[t] # NoSource /\ r = <<d.renames[t], t>>
        OBVIOUS
      <4>2. PICK i \in Renames(S) : i.path = t /\ d.renames[t] = i.source
        BY <2>1, <4>1 DEF RenamesFollow
      <4> QED
        BY <1>5, <4>1, <4>2
    <3>2. ASSUME NEW r \in renames PROVE r \in planned
      <4>1. PICK i \in Renames(S) : r = <<i.source, i.path>>
        BY <1>5
      <4>2. d.renames[i.path] = i.source /\ i.path \in Paths /\ i.source \in Paths
        BY <1>3, <2>1, <4>1 DEF RenamesFollow, Renames, IsItem
      <4> QED
        BY <4>1, <4>2
    <3> QED
      BY <3>1, <3>2
  <2>3. ASSUME NEW r \in renames, NEW s \in renames, r[2] = s[2] PROVE r = s
    <3>1. PICK i \in Renames(S), j \in Renames(S) : r = <<i.source, i.path>> /\ s = <<j.source, j.path>>
      BY <1>5
    <3>2. d.renames[i.path] = i.source /\ d.renames[j.path] = j.source /\ i.path = j.path
      BY <2>1, <2>3, <3>1 DEF RenamesFollow
    <3> QED
      BY <3>1, <3>2
  <2>4. \A r \in renames : r[1] # r[2] /\ r = <<r[1], r[2]>>
    BY <1>5, <2>1 DEF RenamesFollow
  <2>5. plan.refused <=> contradict
    <3> HIDE DEF planned, renames
    <3>1. forked => contradict
      BY <2>2
    <3>2. contradict => forked
      <4> SUFFICES ASSUME contradict PROVE forked
        OBVIOUS
      <4>1. PICK r \in renames, s \in renames : r # s /\ (r[1] = s[1] \/ r[2] = s[2])
        BY <2>4
      <4> QED
        BY <2>2, <2>3, <2>4, <4>1
    <3> QED
      BY <1>6, <1>9, <3>1, <3>2
  <2>6. seen = {p \in Paths : IsSeen(S, p)}
    <3>1. seen = {item.path : item \in {j \in S : j.is # "remove"}}
      BY <1>3, <1>4 DEF IsItem
    <3> QED
      BY <1>3, <3>1 DEF IsSeen, IsItem
  <2>7. gone = {p \in Paths : IsGone(S, p)}
    <3>1. {r[1] : r \in renames} = {i.source : i \in Renames(S)}
      <4>1. renames = {<<i.source, i.path>> : i \in Renames(S)}
        BY <1>5
      <4>2. \A i \in Renames(S) : <<i.source, i.path>>[1] = i.source
        OBVIOUS
      <4> HIDE DEF renames
      <4> QED
        BY <4>1, <4>2
    <3>2. gone = {i.path : i \in {j \in S : j.is = "remove"}} \cup {i.source : i \in Renames(S)}
      BY <1>4, <3>1
    <3> HIDE DEF gone
    <3> QED
      BY <1>3, <3>2 DEF IsGone, IsItem, Renames
  <2>8. {item.path : item \in of("conflict")} = {p \in Paths : \E i \in S : i.is = "conflict" /\ i.path = p}
    BY <1>3, <1>4 DEF IsItem
  <2> HIDE DEF seen, gone, renames, planned
  <2>9. /\ plan.recheck = seen /\ plan.remove = gone \ seen /\ plan.renames = renames
        /\ plan.conflicted = {item.path : item \in of("conflict")}
    <3>1. plan.recheck = seen
      BY <1>6, <2>1, <2>6 DEF PathsFollow
    <3>2. plan.remove = gone \ seen
      BY <1>6, <2>1, <2>6, <2>7 DEF PathsFollow
    <3>3. plan.conflicted = {item.path : item \in of("conflict")}
      BY <1>2, <1>6, <2>1, <2>8 DEF ConflictsFollow
    <3> QED
      BY <1>6, <2>2, <3>1, <3>2, <3>3
  <2> QED
    BY <2>5, <2>9 DEF PlanIgnoresOrder, plan, d, of, seen, gone, renames
<1> QED
  BY <1>8, <1>9

----------------------------------------------------------------------------
(* The verdict of rr check.                                                *)

\* An exit code of zero means that no severity counted a finding.
LEMMA ZeroMeansNone ==
  ASSUME NEW S, IsFiniteSet(S), \A d \in S : d.severity \in Severities,
         ExitCode(CheckStatus(CountsOfCheck(S))) = 0
  PROVE  S = {}
<1> DEFINE Of(s) == {d \in S : d.severity = s}
<1>1. \A s \in Severities : CountsOfCheck(S)[s] = Cardinality(Of(s))
  BY DEF CountsOfCheck, Severities
<1>2. \A s \in Severities : IsFiniteSet(Of(s)) /\ Cardinality(Of(s)) \in Nat
  <2>1. \A s \in Severities : Of(s) \in SUBSET S
    OBVIOUS
  <2> HIDE DEF Of
  <2> QED
    BY <2>1, FS_Subset, FS_CardinalityType
<1>3. \A s \in Severities : ~(CountsOfCheck(S)[s] > 0)
  BY DEF ExitCode, CheckStatus, Severities
<1>4. \A s \in Severities : Of(s) = {}
  <2> HIDE DEF Of
  <2>1. \A s \in Severities : Cardinality(Of(s)) = 0
    BY <1>1, <1>2, <1>3
  <2> QED
    BY <1>2, <2>1, FS_EmptySet
<1> QED
  BY <1>4

\* The findings about finitely many things are finitely many.
LEMMA FiniteDiagnostics ==
  ASSUME NEW S, IsFiniteSet(S)
  PROVE  /\ IsFiniteSet({ConflictDiagnostic(c) : c \in S})
         /\ IsFiniteSet({AbsentArtifact(c) : c \in S})
         /\ IsFiniteSet({StaleArtifact(c) : c \in S})
         /\ IsFiniteSet({OverBudget(c) : c \in S})
         /\ IsFiniteSet({RoutesInvalid(c) : c \in S})
         /\ IsFiniteSet({RouteAnchorMissing(c) : c \in S})
         /\ IsFiniteSet({Diagnostic("RR0401", "warning", c, "corrupt") : c \in S})
<1> DEFINE f1 == [c \in S |-> ConflictDiagnostic(c)]
           f2 == [c \in S |-> AbsentArtifact(c)]
           f3 == [c \in S |-> StaleArtifact(c)]
           f4 == [c \in S |-> OverBudget(c)]
           f5 == [c \in S |-> RoutesInvalid(c)]
           f6 == [c \in S |-> RouteAnchorMissing(c)]
           f7 == [c \in S |-> Diagnostic("RR0401", "warning", c, "corrupt")]
<1>1. {ConflictDiagnostic(c) : c \in S} = {f1[c] : c \in S}
  OBVIOUS
<1>2. {AbsentArtifact(c) : c \in S} = {f2[c] : c \in S}
  OBVIOUS
<1>3. {StaleArtifact(c) : c \in S} = {f3[c] : c \in S}
  OBVIOUS
<1>4. {OverBudget(c) : c \in S} = {f4[c] : c \in S}
  OBVIOUS
<1>5. {RoutesInvalid(c) : c \in S} = {f5[c] : c \in S}
  OBVIOUS
<1>6. {RouteAnchorMissing(c) : c \in S} = {f6[c] : c \in S}
  OBVIOUS
<1>7. {Diagnostic("RR0401", "warning", c, "corrupt") : c \in S} = {f7[c] : c \in S}
  OBVIOUS
<1> HIDE DEF f1, f2, f3, f4, f5, f6, f7
<1>8. \A f \in {f1, f2, f3, f4, f5, f6, f7} : IsFiniteSet({f[c] : c \in S})
  BY FiniteImage
<1> QED
  BY <1>1, <1>2, <1>3, <1>4, <1>5, <1>6, <1>7, <1>8

\* What is published is finite, of the three severities, and under documented rules.
Everything(world) ==
  SnapshotDiagnostics(world)
  \cup (IF world.snapshot = "ready"
        THEN TextDiagnostics(world) \cup RouteDiagnostics(world) \cup CacheDiagnostics(world) ELSE {})
  \cup (IF world.quality = NoReport THEN {} ELSE world.quality)

\* Everything found is finite, counted under some severity, and of a rule rr emits
\* unless it comes from the quality report.
LEMMA EverythingHasASeverity ==
  ASSUME NEW world, Answerable(world)
  PROVE  /\ IsFiniteSet(Everything(world))
         /\ \A d \in Everything(world) : d.severity \in Severities
         /\ \A d \in Everything(world) : d.rule \in EmittedRules \/ d \in world.quality
<1>1. IsFiniteSet(SnapshotDiagnostics(world))
  <2>1. SnapshotDiagnostics(world) \in {{}, {SnapshotMissing}, {StaleSnapshot}, {UnusableSnapshot(world.snapshot)}}
    BY DEF SnapshotDiagnostics
  <2>2. \A x : IsFiniteSet({x})
    BY FS_Singleton
  <2> QED
    BY <2>1, <2>2, FS_EmptySet
<1>2. IsFiniteSet(TextDiagnostics(world))
  <2> USE DEF Answerable
  <2>1. /\ IsFiniteSet({ConflictDiagnostic(c) : c \in world.conflicts})
        /\ IsFiniteSet({AbsentArtifact(p) : p \in world.missing})
        /\ IsFiniteSet({StaleArtifact(p) : p \in world.stale})
        /\ IsFiniteSet({OverBudget(s) : s \in world.overBudget})
    BY FiniteDiagnostics
  <2> QED
    BY <2>1, FS_Union DEF TextDiagnostics
<1>3. IsFiniteSet(RouteDiagnostics(world))
  <2> DEFINE dead == {r \in world.routes : ~r.resolves}
  <2>1. IsFiniteSet(dead) /\ IsFiniteSet(world.fault)
    BY FS_Subset DEF Answerable
  <2>2. IsFiniteSet({RouteAnchorMissing(r) : r \in dead}) /\ IsFiniteSet({RoutesInvalid(f) : f \in world.fault})
    <3> HIDE DEF dead
    <3> QED BY <2>1, FiniteDiagnostics
  <2>3. IsFiniteSet({Diagnostic("RR0303", "warning", RoutesPath, "api")}) /\ IsFiniteSet({})
    BY FS_EmptySet, FS_Singleton
  <2> QED
    BY <2>2, <2>3, FS_Union DEF RouteDiagnostics
<1>4. IsFiniteSet(CacheDiagnostics(world))
  <2>1. IsFiniteSet({Diagnostic("RR0401", "warning", p, "corrupt") : p \in world.damaged})
    BY FiniteDiagnostics DEF Answerable
  <2> QED
    BY <2>1, FS_EmptySet DEF CacheDiagnostics
<1>5. IsFiniteSet(Everything(world))
  <2>1. IsFiniteSet(TextDiagnostics(world) \cup RouteDiagnostics(world) \cup CacheDiagnostics(world))
    BY <1>2, <1>3, <1>4, FS_Union
  <2>2. IsFiniteSet(IF world.quality = NoReport THEN {} ELSE world.quality)
    BY FS_EmptySet DEF Answerable
  <2> QED
    BY <1>1, <2>1, <2>2, FS_Union, FS_EmptySet DEF Everything
<1>6. ASSUME NEW d \in Everything(world), d \notin (IF world.quality = NoReport THEN {} ELSE world.quality)
      PROVE  d.severity \in Severities /\ d.rule \in EmittedRules
  <2> USE DEF Severities, EmittedRules, Diagnostic
  <2>1. CASE d \in SnapshotDiagnostics(world)
    BY <2>1 DEF SnapshotDiagnostics, SnapshotMissing, StaleSnapshot, UnusableSnapshot
  <2>2. CASE d \in TextDiagnostics(world)
    BY <2>2 DEF TextDiagnostics, ConflictDiagnostic, RuleFor, Family, AbsentArtifact, StaleArtifact, OverBudget
  <2>3. CASE d \in RouteDiagnostics(world)
    BY <2>3 DEF RouteDiagnostics, RoutesInvalid, RouteAnchorMissing
  <2>4. CASE d \in CacheDiagnostics(world)
    BY <2>4 DEF CacheDiagnostics
  <2> QED
    BY <1>6, <2>1, <2>2, <2>3, <2>4 DEF Everything
<1> QED
  BY <1>5, <1>6 DEF Answerable

\* Check.GreenIsClean of whatever the owners answer.
THEOREM CheckNeverHidesAFinding ==
  ASSUME NEW world, Answerable(world)
  PROVE  GreenIsClean(world, CheckReport(world))
<1> DEFINE report == CheckReport(world)
<1>1. CASE world.cancelled
  BY <1>1 DEF CheckReport, GreenIsClean
<1>2. CASE ~world.cancelled
  <2>1. report = [failed |-> FALSE, diagnostics |-> Everything(world), counts |-> CountsOfCheck(Everything(world)),
                  exit |-> ExitCode(CheckStatus(CountsOfCheck(Everything(world))))]
    BY <1>2 DEF CheckReport, Everything
  <2>2. \A d \in report.diagnostics : d.rule \in EmittedRules \/ d \in world.quality
    BY <2>1, EverythingHasASeverity
  <2>3. ASSUME report.exit = 0 PROVE Everything(world) = {}
    BY <2>1, <2>3, EverythingHasASeverity, ZeroMeansNone
  <2>4. ASSUME Everything(world) = {}
        PROVE  /\ world.snapshot = "ready" /\ world.label # "stale"
               /\ world.conflicts = {} /\ world.missing = {} /\ world.stale = {} /\ world.overBudget = {}
               /\ world.fault = {} /\ \A r \in world.routes : r.resolves /\ r.api = world.corpus
               /\ (world.factsDir /\ world.ignoreStamp /\ world.opens) => world.damaged = {}
               /\ world.quality \in {NoReport, {}}
    <3>1. world.snapshot = "ready" /\ world.label # "stale"
      BY <2>4 DEF Everything, SnapshotDiagnostics
    <3>2. TextDiagnostics(world) = {} /\ RouteDiagnostics(world) = {} /\ CacheDiagnostics(world) = {}
      BY <2>4, <3>1 DEF Everything
    <3>3. world.conflicts = {} /\ world.missing = {} /\ world.stale = {} /\ world.overBudget = {}
      BY <3>2 DEF TextDiagnostics
    <3>4. world.fault = {} /\ \A r \in world.routes : r.resolves /\ r.api = world.corpus
      BY <3>2 DEF RouteDiagnostics
    <3>5. (world.factsDir /\ world.ignoreStamp /\ world.opens) => world.damaged = {}
      BY <3>2 DEF CacheDiagnostics
    <3>6. world.quality \in {NoReport, {}}
      BY <2>4 DEF Everything
    <3> QED
      BY <3>1, <3>3, <3>4, <3>5, <3>6
  <2>5. report.exit = 0 =>
          /\ world.snapshot = "ready" /\ world.label # "stale"
          /\ world.conflicts = {} /\ world.missing = {} /\ world.stale = {} /\ world.overBudget = {}
          /\ world.fault = {} /\ \A r \in world.routes : r.resolves /\ r.api = world.corpus
          /\ (world.factsDir /\ world.ignoreStamp /\ world.opens) => world.damaged = {}
          /\ world.quality \in {NoReport, {}}
    BY <2>3, <2>4
  <2> HIDE DEF report
  <2> QED
    BY <2>2, <2>5 DEF GreenIsClean, report
<1> QED
  BY <1>1, <1>2

----------------------------------------------------------------------------
(***************************************************************************)
(* rr init (AgentContract).  A text a block is put in is lines without a   *)
(* marker around the block, and such a text is a fixed point; so what a    *)
(* target is left with is a fixed point too, whether it was written or     *)
(* refused.  The four targets are four files, in whatever spelling they    *)
(* are found, and the work on one is not seen by the others: the disk      *)
(* after a run is known name by name, and a second run finds each settled. *)
(***************************************************************************)

\* A text of lines without a marker, the block, and lines without a marker.
Unmarked(lines) == lines \in Seq(Range(lines)) /\ \A i \in DOMAIN lines : lines[i] \notin {"begin", "end"}
Around(before, after) == before \o Block \o after

\* Where everything is in such a text.
LEMMA AroundIsPlaced ==
  ASSUME NEW before, NEW after, Unmarked(before), Unmarked(after)
  PROVE  LET new == Around(before, after)
             b == Len(before) + 1
         IN  /\ new \in Seq(Range(new)) /\ b \in Nat \ {0} /\ Len(new) = b + 2 + Len(after)
             /\ Len(after) \in Nat
             /\ \A i \in DOMAIN new : new[i] = IF i < b THEN before[i]
                                               ELSE IF i < b + 3 THEN Block[i - b + 1]
                                               ELSE after[i - (b + 2)]
             /\ SubSeq(new, 1, b - 1) = before /\ SubSeq(new, b + 3, Len(new)) = after
             /\ SubSeq(new, b, b + 2) = Block
<1> DEFINE new == Around(before, after)
           b == Len(before) + 1
           S == Range(before) \cup Range(after) \cup {"begin", "rule", "end"}
           left == before \o Block
<1>1. before \in Seq(S) /\ after \in Seq(S) /\ Block \in Seq(S) /\ Len(Block) = 3
  BY DEF Unmarked, Block, Range
<1>2. Len(before) \in Nat /\ Len(after) \in Nat
  BY <1>1
<1> HIDE DEF S
<1>3. /\ left \in Seq(S) /\ Len(left) = Len(before) + 3
      /\ \A i \in 1..(Len(before) + 3) : left[i] = IF i <= Len(before) THEN before[i]
                                                  ELSE Block[i - Len(before)]
  <2>1. /\ before \o Block \in Seq(S) /\ Len(before \o Block) = Len(before) + Len(Block)
        /\ \A i \in 1..Len(before) + Len(Block) :
             (before \o Block)[i] = IF i <= Len(before) THEN before[i] ELSE Block[i - Len(before)]
    BY <1>1, ConcatProperties
  <2> QED
    BY <1>1, <2>1, Zenon
<1> HIDE DEF left
<1>4. /\ new \in Seq(S) /\ Len(new) = Len(left) + Len(after)
      /\ \A i \in 1..(Len(left) + Len(after)) : new[i] = IF i <= Len(left) THEN left[i]
                                                      ELSE after[i - Len(left)]
  <2>1. /\ left \o after \in Seq(S) /\ Len(left \o after) = Len(left) + Len(after)
        /\ \A i \in 1..Len(left) + Len(after) :
             (left \o after)[i] = IF i <= Len(left) THEN left[i] ELSE after[i - Len(left)]
    <3>1. left \in Seq(S) /\ after \in Seq(S)
      BY <1>1, <1>3
    <3> QED
      BY <3>1, ConcatProperties
  <2>2. new = left \o after
    BY DEF Around, left
  <2> QED
    BY <2>1, <2>2, Zenon
<1> HIDE DEF new
<1>5. Len(new) = b + 2 + Len(after) /\ DOMAIN new = 1..Len(new) /\ b \in Nat \ {0}
  BY <1>2, <1>3, <1>4
<1>6. \A i \in DOMAIN new : new[i] = IF i < b THEN before[i]
                                     ELSE IF i < b + 3 THEN Block[i - b + 1]
                                     ELSE after[i - (b + 2)]
  <2> SUFFICES ASSUME NEW i \in 1..(b + 2 + Len(after))
               PROVE  new[i] = IF i < b THEN before[i]
                               ELSE IF i < b + 3 THEN Block[i - b + 1]
                               ELSE after[i - (b + 2)]
    BY <1>5
  <2>1. Len(left) = b + 2 /\ Len(before) = b - 1 /\ i \in Int /\ i - (b - 1) = i - b + 1
    BY <1>2, <1>3
  <2>2. i \in 1..(Len(left) + Len(after))
    BY <1>2, <2>1
  <2>3. new[i] = IF i <= b + 2 THEN left[i] ELSE after[i - (b + 2)]
    BY <1>4, <2>1, <2>2
  <2>4. i <= b + 2 => left[i] = IF i <= b - 1 THEN before[i] ELSE Block[i - b + 1]
    BY <1>2, <1>3, <2>1
  <2> HIDE DEF b
  <2> QED
    BY <1>5, <2>3, <2>4
<1>7. new \in Seq(Range(new))
  BY <1>4 DEF Range
<1>8. SubSeq(new, 1, b - 1) = before
  <2>1. \A i \in 1..(b - 1) : new[i] \in S
    BY <1>2, <1>4, <1>5
  <2>2. /\ SubSeq(new, 1, b - 1) \in Seq(S)
        /\ Len(SubSeq(new, 1, b - 1)) = Len(before)
        /\ \A i \in 1..Len(before) : SubSeq(new, 1, b - 1)[i] = new[i]
    BY <1>2, <2>1, SubSeqProperties
  <2>3. \A i \in 1..Len(before) : new[i] = before[i]
    BY <1>2, <1>5, <1>6
  <2> DEFINE part == SubSeq(new, 1, b - 1)
  <2>4. part \in Seq(S) /\ Len(part) = Len(before) /\ \A i \in 1..Len(before) : part[i] = before[i]
    BY <1>1, <2>2, <2>3
  <2> HIDE DEF part
  <2>5. part = before
    BY <1>1, <2>4, SeqEqual
  <2> QED
    BY <2>5 DEF part
<1>9. SubSeq(new, b + 3, Len(new)) = after
  <2>1. \A i \in (b + 3)..Len(new) : new[i] \in S
    BY <1>2, <1>4, <1>5
  <2>2. /\ SubSeq(new, b + 3, Len(new)) \in Seq(S)
        /\ Len(SubSeq(new, b + 3, Len(new))) = Len(after)
        /\ \A i \in 1..Len(after) : SubSeq(new, b + 3, Len(new))[i] = new[b + 2 + i]
    BY <1>2, <1>5, <2>1, SubSeqProperties
  <2>3. \A i \in 1..Len(after) : new[b + 2 + i] = after[i]
    BY <1>2, <1>5, <1>6
  <2> DEFINE part == SubSeq(new, b + 3, Len(new))
  <2>4. part \in Seq(S) /\ Len(part) = Len(after) /\ \A i \in 1..Len(after) : part[i] = after[i]
    BY <1>1, <2>2, <2>3
  <2> HIDE DEF part
  <2>5. part = after
    BY <1>1, <2>4, SeqEqual
  <2> QED
    BY <2>5 DEF part
<1>10. SubSeq(new, b, b + 2) = Block
  <2>1. \A i \in b..(b + 2) : new[i] \in S
    BY <1>2, <1>4, <1>5
  <2>2. /\ SubSeq(new, b, b + 2) \in Seq(S)
        /\ Len(SubSeq(new, b, b + 2)) = 3
        /\ \A i \in 1..3 : SubSeq(new, b, b + 2)[i] = new[b + i - 1]
    BY <1>2, <1>5, <2>1, SubSeqProperties
  <2>3. \A i \in 1..3 : new[b + i - 1] = Block[i]
    BY <1>2, <1>5, <1>6
  <2> DEFINE part == SubSeq(new, b, b + 2)
  <2>4. part \in Seq(S) /\ Len(part) = Len(Block) /\ \A i \in 1..Len(Block) : part[i] = Block[i]
    BY <1>1, <2>2, <2>3
  <2> HIDE DEF part
  <2>5. part = Block
    BY <1>1, <2>4, SeqEqual
  <2> QED
    BY <2>5 DEF part
<1> QED
  BY <1>2, <1>5, <1>6, <1>7, <1>8, <1>9, <1>10 DEF new

\* It has the one pair of markers, and the block between them (marker_lines).
LEMMA AroundIsMarked ==
  ASSUME NEW before, NEW after, Unmarked(before), Unmarked(after)
  PROVE  LET new == Around(before, after)
             b == Len(before) + 1
         IN  MarkerLines(new, "begin") = {b} /\ MarkerLines(new, "end") = {b + 2}
<1> DEFINE new == Around(before, after)
           b == Len(before) + 1
<1>1. /\ new \in Seq(Range(new)) /\ b \in Nat \ {0} /\ Len(new) = b + 2 + Len(after) /\ Len(after) \in Nat
      /\ \A i \in DOMAIN new : new[i] = IF i < b THEN before[i]
                                        ELSE IF i < b + 3 THEN Block[i - b + 1]
                                        ELSE after[i - (b + 2)]
  BY AroundIsPlaced
<1>2. DOMAIN new = 1..(b + 2 + Len(after)) /\ DOMAIN before = 1..(b - 1) /\ DOMAIN after = 1..Len(after)
  BY <1>1 DEF Unmarked
<1> HIDE DEF new, b
<1>3. Block[1] = "begin" /\ Block[2] = "rule" /\ Block[3] = "end"
  BY DEF Block
<1>4. \A i \in DOMAIN new : (new[i] = "begin" <=> i = b) /\ (new[i] = "end" <=> i = b + 2)
  <2> SUFFICES ASSUME NEW i \in DOMAIN new
               PROVE  (new[i] = "begin" <=> i = b) /\ (new[i] = "end" <=> i = b + 2)
    OBVIOUS
  <2>1. CASE i < b
    <3>1. i \in DOMAIN before /\ new[i] = before[i]
      BY <1>1, <1>2, <2>1
    <3> QED
      BY <1>1, <1>2, <2>1, <3>1 DEF Unmarked
  <2>2. CASE ~(i < b) /\ i < b + 3
    <3>1. new[i] = Block[i - b + 1] /\ i \in {b, b + 1, b + 2}
      BY <1>1, <1>2, <2>2
    <3> QED
      BY <1>1, <1>3, <3>1
  <2>3. CASE ~(i < b + 3)
    <3>1. i - (b + 2) \in DOMAIN after /\ new[i] = after[i - (b + 2)]
      BY <1>1, <1>2, <2>3
    <3> QED
      BY <1>1, <1>2, <2>3, <3>1 DEF Unmarked
  <2> QED
    BY <2>1, <2>2, <2>3
<1>5. b \in DOMAIN new /\ b + 2 \in DOMAIN new
  BY <1>1, <1>2
<1>6. MarkerLines(new, "begin") = {b} /\ MarkerLines(new, "end") = {b + 2}
  BY <1>4, <1>5 DEF MarkerLines
<1> QED
  BY <1>6 DEF new, b

\* To apply the block to it changes nothing, and what is outside is what is around (apply_to_lf).
LEMMA AroundIsSettled ==
  ASSUME NEW before, NEW after, Unmarked(before), Unmarked(after), NEW newline, newline # "mixed"
  PROVE  LET file == TextFile(Around(before, after), TRUE, newline)
         IN  /\ ApplyBlock(file) = file /\ HasBlock(file)
             /\ Outside(file.lines) = <<Unparted(before), after>>
<1> DEFINE new == Around(before, after)
           b == Len(before) + 1
           file == TextFile(new, TRUE, newline)
<1>1. MarkerLines(new, "begin") = {b} /\ MarkerLines(new, "end") = {b + 2}
  BY AroundIsMarked
<1>2. /\ b \in Nat \ {0} /\ Len(new) = b + 2 + Len(after) /\ Len(after) \in Nat
      /\ SubSeq(new, 1, b - 1) = before /\ SubSeq(new, b + 3, Len(new)) = after
      /\ SubSeq(new, b, b + 2) = Block
  BY AroundIsPlaced
<1>3. new = before \o Block \o after
  BY DEF Around
<1> HIDE DEF new, b
<1>4. (b + 2) + 1 = b + 3 /\ b < b + 2 /\ b \in 1..(Len(new) - 2)
  BY <1>2
<1>5. file.lines = new /\ file.newline = newline /\ file.is = "text" /\ file # NoFile
  BY DEF TextFile, NoFile
<1>6. ReplaceRegion(new, b, b + 2) = new
  BY <1>2, <1>3, <1>4 DEF ReplaceRegion
<1>7. ~Repeated({b}) /\ ~Repeated({b + 2}) /\ (CHOOSE i \in {b} : TRUE) = b
      /\ (CHOOSE i \in {b + 2} : TRUE) = b + 2
  BY DEF Repeated
<1>8. ApplyBlock(file) = file
  <2>1. ApplyBlock(file) = ApplyToLf(file)
    BY <1>5 DEF ApplyBlock
  <2>2. \A x \in {b}, y \in {b + 2} : x < y
    BY <1>4
  <2>3. ApplyToLf(file) = TextFile(ReplaceRegion(new, b, b + 2), TRUE, newline)
    BY <1>1, <1>5, <1>7, <2>2, Zenon DEF ApplyToLf
  <2> QED
    BY <1>6, <2>1, <2>3
<1>9. HasBlock(file)
  BY <1>1, <1>2, <1>4, <1>5, <1>7 DEF HasBlock
<1>10. Outside(new) = <<Unparted(SubSeq(new, 1, b - 1)), SubSeq(new, (b + 2) + 1, Len(new))>>
  BY <1>1, <1>7, Zenon DEF Outside
<1> QED
  BY <1>2, <1>4, <1>5, <1>8, <1>9, <1>10 DEF new

\* Lines without a marker, and what the block is put after, are parted alike (append_block).
LEMMA AppendedIsAround ==
  ASSUME NEW lines, Unmarked(lines)
  PROVE  \E before : /\ AppendBlock(lines) = Around(before, <<>>) /\ Unmarked(before)
                     /\ Unparted(before) = Unparted(lines)
<1>1. <<>> \in Seq(Range(lines)) /\ Block \in Seq({"begin", "rule", "end"})
  BY DEF Block
<1>2. CASE lines = <<>> \/ (Len(lines) > 1 /\ Last(lines) = "blank")
  <2>1. AppendBlock(lines) = lines \o Block
    BY <1>2 DEF AppendBlock
  <2>2. lines \o Block = Around(lines, <<>>)
    BY DEF Around, Unmarked, Block
  <2> QED
    BY <2>1, <2>2
<1>3. CASE ~(lines = <<>> \/ (Len(lines) > 1 /\ Last(lines) = "blank"))
  <2> DEFINE before == Append(lines, "blank")
             S == Range(lines) \cup {"blank"}
  <2>1. lines \in Seq(S) /\ before \in Seq(S) /\ Len(before) = Len(lines) + 1 /\ Len(lines) \in Nat
    BY DEF Unmarked, Range
  <2>2. \A i \in 1..Len(before) : before[i] = IF i = Len(before) THEN "blank" ELSE lines[i]
    BY <2>1
  <2>3. Len(lines) > 0
    BY <1>3, <2>1
  <2> HIDE DEF before
  <2>4. Unmarked(before)
    BY <2>1, <2>2 DEF Unmarked, Range
  <2>5. Unparted(lines) = lines
    BY <1>3 DEF Unparted
  <2>6. Len(before) > 1 /\ Last(before) = "blank"
    BY <2>1, <2>2, <2>3 DEF Last
  <2>7. Front(before) = lines
    BY <2>1, <2>2 DEF Front
  <2>8. AppendBlock(lines) = before \o Block
    BY <1>3 DEF AppendBlock, before
  <2>9. before \o Block = Around(before, <<>>)
    BY <2>1 DEF Around, Block
  <2> QED
    BY <2>4, <2>5, <2>6, <2>7, <2>8, <2>9 DEF Unparted
<1> QED
  BY <1>2, <1>3

\* The region of a text whose markers say which it is, and what is around it (apply_to_lf).
LEMMA ReplacedIsAround ==
  ASSUME NEW lines, lines \in Seq(Range(lines)), NEW b \in DOMAIN lines, NEW e \in DOMAIN lines, b < e,
         MarkerLines(lines, "begin") = {b}, MarkerLines(lines, "end") = {e}
  PROVE  LET before == SubSeq(lines, 1, b - 1)
             after  == SubSeq(lines, e + 1, Len(lines))
         IN  /\ ReplaceRegion(lines, b, e) = Around(before, after) /\ Unmarked(before) /\ Unmarked(after)
             /\ Outside(lines) = <<Unparted(before), after>>
<1> DEFINE before == SubSeq(lines, 1, b - 1)
           after  == SubSeq(lines, e + 1, Len(lines))
           S == Range(lines)
<1>1. Len(lines) \in Nat /\ DOMAIN lines = 1..Len(lines) /\ \A i \in DOMAIN lines : lines[i] \in S
  BY DEF Range
<1>2. \A i \in DOMAIN lines : (lines[i] = "begin" <=> i = b) /\ (lines[i] = "end" <=> i = e)
  BY DEF MarkerLines
<1> HIDE DEF S
<1>3. before \in Seq(S) /\ Len(before) = b - 1 /\ \A i \in 1..(b - 1) : before[i] = lines[i]
  <2>1. \A i \in 1..(b - 1) : lines[i] \in S
    BY <1>1
  <2> QED
    BY <1>1, <2>1, SubSeqProperties
<1>4. after \in Seq(S) /\ Len(after) = Len(lines) - e
      /\ \A i \in 1..(Len(lines) - e) : after[i] = lines[e + i]
  <2>1. \A i \in (e + 1)..Len(lines) : lines[i] \in S
    BY <1>1
  <2>2. /\ after \in Seq(S)
        /\ Len(after) = IF e + 1 <= Len(lines) THEN Len(lines) - (e + 1) + 1 ELSE 0
        /\ \A i \in 1..(Len(lines) - (e + 1) + 1) : after[i] = lines[(e + 1) + i - 1]
    BY <1>1, <2>1, SubSeqProperties
  <2> QED
    BY <1>1, <2>2
<1> HIDE DEF before, after
<1>5. Unmarked(before)
  <2>1. DOMAIN before = 1..(b - 1)
    BY <1>1, <1>3
  <2>3. before \in Seq(Range(before))
    <3>1. before \in Seq(S)
      BY <1>3
    <3> QED
      BY <3>1 DEF Range
  <2>2. \A i \in 1..(b - 1) : before[i] \notin {"begin", "end"}
    BY <1>1, <1>2, <1>3
  <2> QED
    BY <2>1, <2>2, <2>3 DEF Unmarked
<1>6. Unmarked(after)
  <2>1. DOMAIN after = 1..(Len(lines) - e)
    BY <1>1, <1>4
  <2>3. after \in Seq(Range(after))
    <3>1. after \in Seq(S)
      BY <1>4
    <3> QED
      BY <3>1 DEF Range
  <2>2. \A i \in 1..(Len(lines) - e) : after[i] \notin {"begin", "end"}
    <3> TAKE i \in 1..(Len(lines) - e)
    <3>1. after[i] = lines[e + i] /\ e + i \in DOMAIN lines /\ e + i # e /\ e + i # b
      BY <1>1, <1>4
    <3> QED
      BY <1>2, <3>1
  <2> QED
    BY <2>1, <2>2, <2>3 DEF Unmarked
<1>7. (CHOOSE i \in {b} : TRUE) = b /\ (CHOOSE i \in {e} : TRUE) = e
  OBVIOUS
<1>8. Outside(lines) = <<Unparted(before), after>>
  BY <1>7, Zenon DEF Outside, before, after
<1> QED
  BY <1>5, <1>6, <1>8 DEF ReplaceRegion, Around, before, after

\* The block is refused, or it is in what is written and would not be written again; and what
\* was outside the region still is (apply_block).
Keeps(file, wanted) ==
  /\ file.is = "text" /\ Paired(file.lines)
  /\ Outside(wanted.lines) = Outside(file.lines) /\ wanted.newline = file.newline
LEMMA BlocksAreKept ==
  ASSUME NEW file, IsFile(file), file.is \in {"absent", "text"}
  PROVE  LET wanted == ApplyBlock(file)
         IN  \/ wanted.is = "refusal" /\ wanted.reason # "none"
             \/ /\ IsFile(wanted) /\ HasBlock(wanted) /\ ApplyBlock(wanted) = wanted
                /\ file = NoFile \/ Keeps(file, wanted)
<1> DEFINE Good(wanted) == \/ wanted.is = "refusal" /\ wanted.reason # "none"
                           \/ /\ IsFile(wanted) /\ HasBlock(wanted) /\ ApplyBlock(wanted) = wanted
                              /\ file = NoFile \/ Keeps(file, wanted)
           Written(before, after, newline) == TextFile(Around(before, after), TRUE, newline)
<1>1. ASSUME NEW before, NEW after, NEW newline \in {"lf", "crlf"}, Unmarked(before), Unmarked(after)
      PROVE  LET wanted == Written(before, after, newline)
             IN  /\ IsFile(wanted) /\ HasBlock(wanted) /\ ApplyBlock(wanted) = wanted
                 /\ Outside(wanted.lines) = <<Unparted(before), after>>
  <2> DEFINE wanted == Written(before, after, newline)
  <2>1. HasBlock(wanted) /\ ApplyBlock(wanted) = wanted /\ Outside(wanted.lines) = <<Unparted(before), after>>
    BY <1>1, AroundIsSettled
  <2>2. Around(before, after) \in Seq(Range(Around(before, after)))
    BY <1>1, AroundIsPlaced
  <2>3. IsFile(wanted)
    BY <2>2 DEF IsFile, TextFile
  <2> QED
    BY <2>1, <2>3
<1>2. \A reason : Refusal(reason).is = "refusal" /\ Refusal(reason).reason = reason
  BY DEF Refusal
<1>3. CASE file = NoFile
  <2>1. <<>> \o Block \o <<>> = Block /\ Unmarked(<<>>)
    BY DEF Block, Unmarked, Range
  <2>2. ApplyBlock(file) = Written(<<>>, <<>>, "lf")
    BY <1>3, <2>1 DEF ApplyBlock, Around
  <2> HIDE DEF Written
  <2> QED
    BY <1>1, <1>3, <2>1, <2>2
<1>4. CASE file # NoFile
  <2> DEFINE lines == file.lines
             begins == MarkerLines(lines, "begin")
             ends   == MarkerLines(lines, "end")
  <2>1. /\ file.is = "text" /\ file = TextFile(lines, file.ended, file.newline)
        /\ lines \in Seq(Range(lines)) /\ file.newline \in {"lf", "crlf", "mixed"}
    BY <1>4 DEF IsFile, NoFile, Skill
  <2>2. CASE file.newline = "mixed"
    BY <1>2, <1>4, <2>2 DEF ApplyBlock
  <2>3. CASE file.newline # "mixed"
    <3>1. ApplyBlock(file) = ApplyToLf(file) /\ file.newline \in {"lf", "crlf"}
      BY <1>4, <2>1, <2>3 DEF ApplyBlock
    <3>2. CASE Repeated(begins) \/ Repeated(ends)
      BY <1>2, <3>1, <3>2 DEF ApplyToLf
    <3>3. CASE ~Repeated(begins) /\ ~Repeated(ends) /\ begins = {} /\ ends = {}
      <4>1. ApplyToLf(file) = TextFile(AppendBlock(lines), TRUE, file.newline)
        BY <3>3 DEF ApplyToLf
      <4>2. Unmarked(lines) /\ Paired(lines) /\ Outside(lines) = <<Unparted(lines), <<>>>>
        BY <2>1, <3>3 DEF Unmarked, Paired, Outside, MarkerLines
      <4>3. PICK before : /\ AppendBlock(lines) = Around(before, <<>>) /\ Unmarked(before)
                          /\ Unparted(before) = Unparted(lines)
        BY <4>2, AppendedIsAround
      <4>4. Unmarked(<<>>)
        BY DEF Unmarked, Range
      <4>5. ApplyBlock(file) = Written(before, <<>>, file.newline)
        BY <3>1, <4>1, <4>3
      <4>6. /\ IsFile(ApplyBlock(file)) /\ HasBlock(ApplyBlock(file))
            /\ ApplyBlock(ApplyBlock(file)) = ApplyBlock(file)
            /\ Outside(ApplyBlock(file).lines) = <<Unparted(before), <<>>>>
        <5> HIDE DEF Written
        <5> QED
          BY <1>1, <3>1, <4>3, <4>4, <4>5
      <4>7. ApplyBlock(file).newline = file.newline
        BY <4>5 DEF TextFile
      <4> QED
        BY <2>1, <4>2, <4>3, <4>6, <4>7 DEF Keeps
    <3>4. CASE ~Repeated(begins) /\ ~Repeated(ends) /\ begins # {} /\ ends # {}
               /\ \A b \in begins, e \in ends : b < e
      <4>1. PICK b \in begins, e \in ends : begins = {b} /\ ends = {e} /\ b < e
        BY <3>4 DEF Repeated
      <4>2. b \in DOMAIN lines /\ e \in DOMAIN lines
        BY DEF MarkerLines
      <4> DEFINE before == SubSeq(lines, 1, b - 1)
                 after  == SubSeq(lines, e + 1, Len(lines))
      <4>3. (CHOOSE i \in begins : TRUE) = b /\ (CHOOSE i \in ends : TRUE) = e
        BY <4>1
      <4>4. ApplyToLf(file) = TextFile(ReplaceRegion(lines, b, e), TRUE, file.newline)
        BY <3>4, <4>3, Zenon DEF ApplyToLf
      <4>5. /\ ReplaceRegion(lines, b, e) = Around(before, after) /\ Unmarked(before) /\ Unmarked(after)
            /\ Outside(lines) = <<Unparted(before), after>>
        BY <2>1, <4>1, <4>2, ReplacedIsAround
      <4> HIDE DEF before, after
      <4>6. Paired(lines)
        BY <3>4 DEF Paired
      <4>7. ApplyBlock(file) = Written(before, after, file.newline)
        BY <3>1, <4>4, <4>5
      <4>8. /\ IsFile(ApplyBlock(file)) /\ HasBlock(ApplyBlock(file))
            /\ ApplyBlock(ApplyBlock(file)) = ApplyBlock(file)
            /\ Outside(ApplyBlock(file).lines) = <<Unparted(before), after>>
        <5> HIDE DEF Written
        <5> QED
          BY <1>1, <3>1, <4>5, <4>7
      <4>9. ApplyBlock(file).newline = file.newline
        BY <4>7 DEF TextFile
      <4> QED
        BY <2>1, <4>5, <4>6, <4>8, <4>9 DEF Keeps
    <3>5. CASE ~Repeated(begins) /\ ~Repeated(ends) /\ ~(begins = {} /\ ends = {})
               /\ ~(begins # {} /\ ends # {} /\ \A b \in begins, e \in ends : b < e)
      <4>1. ApplyToLf(file) = Refusal("malformed")
        BY <3>5 DEF ApplyToLf
      <4> QED
        BY <1>2, <3>1, <4>1
    <3> QED
      BY <3>2, <3>3, <3>4, <3>5
  <2> QED
    BY <2>2, <2>3
<1> QED
  BY <1>3, <1>4
----------------------------------------------------------------------------
\* What rr wants of a target (apply_region, install_skill), and what it may replace.
Wanted(target, file) == IF target = SkillFile THEN SkillWanted(file) ELSE RegionWanted(file)
AsWanted(target, file) == IF target = SkillFile THEN file = SkillDocument ELSE HasBlock(file)
Mine(file, wanted) == IsRrWrittenSkill(file) \/ Keeps(file, wanted)

\* The targets are told apart from the skill.
LEMMA TargetsDiffer ==
  /\ Targets \subseteq FileNames
  /\ \A t, u \in Targets : t # u => Folded[t] # Folded[u]
  /\ IgnoreFile # SkillFile /\ AgentsFile # SkillFile /\ ClaudeFile # SkillFile
  /\ IgnoreFile # AgentsFile /\ IgnoreFile # ClaudeFile /\ AgentsFile # ClaudeFile
BY ContractAssumption DEF Targets

\* A file is refused for a reason, or what is written over it is what is wanted of it, for good.
LEMMA WantedIsSettled ==
  ASSUME NEW target, NEW file, IsFile(file)
  PROVE  LET wanted == Wanted(target, file)
         IN  \/ wanted.is = "refusal" /\ wanted.reason # "none"
             \/ /\ wanted.is # "refusal" /\ IsFile(wanted) /\ wanted # NoFile
                /\ Wanted(target, wanted) = wanted /\ AsWanted(target, wanted)
                /\ wanted = file \/ file = NoFile \/ Mine(file, wanted)
<1>1. \A reason : Refusal(reason).is = "refusal" /\ Refusal(reason).reason = reason
  BY DEF Refusal
<1>2. file.is \in {"absent", "binary", "directory", "text", "skill"}
  BY DEF IsFile, NoFile
<1>3. CASE target # SkillFile
  <2>1. Wanted(target, file) = RegionWanted(file)
    BY <1>3 DEF Wanted
  <2>2. CASE file.is \in {"absent", "text"}
    <3>1. RegionWanted(file) = ApplyBlock(file)
      BY <2>2 DEF RegionWanted
    <3>2. CASE ApplyBlock(file).is = "refusal" /\ ApplyBlock(file).reason # "none"
      BY <2>1, <3>1, <3>2
    <3>3. CASE /\ IsFile(ApplyBlock(file)) /\ HasBlock(ApplyBlock(file))
               /\ ApplyBlock(ApplyBlock(file)) = ApplyBlock(file)
               /\ file = NoFile \/ Keeps(file, ApplyBlock(file))
      <4> DEFINE wanted == ApplyBlock(file)
      <4>1. wanted.is = "text"
        BY <3>3 DEF HasBlock
      <4> HIDE DEF wanted
      <4>2. wanted # NoFile /\ wanted.is # "refusal"
        BY <4>1 DEF NoFile
      <4>3. RegionWanted(wanted) = ApplyBlock(wanted)
        BY <4>1 DEF RegionWanted
      <4> QED
        BY <1>3, <2>1, <3>1, <3>3, <4>2, <4>3 DEF Wanted, AsWanted, Mine, wanted
    <3> QED
      BY <2>2, <3>2, <3>3, BlocksAreKept
  <2>3. CASE file.is = "directory"
    BY <1>1, <2>1, <2>3 DEF RegionWanted
  <2>4. CASE file.is \in {"binary", "skill"}
    BY <1>1, <2>1, <2>4 DEF RegionWanted
  <2> QED
    BY <1>2, <2>2, <2>3, <2>4
<1>4. CASE target = SkillFile
  <2>1. Wanted(target, file) = SkillWanted(file)
    BY <1>4 DEF Wanted
  <2>2. SkillDocument.is = "skill" /\ SkillDocument # NoFile
    BY DEF SkillDocument, Skill, NoFile
  <2>3. IsFile(SkillDocument)
    BY DEF IsFile, SkillDocument, Skill, Range
  <2>4. SkillWanted(SkillDocument) = SkillDocument
    BY <2>2 DEF SkillWanted
  <2>5. CASE file.is \in {"directory", "binary"}
    <3>1. file \notin {NoFile, SkillDocument} /\ ~IsRrWrittenSkill(file)
      BY <2>2, <2>5 DEF IsRrWrittenSkill, NoFile
    <3>2. SkillWanted(file) \in {Refusal("read-failed"), Refusal("unreadable")}
      BY <2>5, <3>1 DEF SkillWanted
    <3> QED
      BY <1>1, <2>1, <3>2
  <2>7. CASE file.is \notin {"directory", "binary"} /\ (file \in {NoFile, SkillDocument} \/ IsRrWrittenSkill(file))
    <3>1. SkillWanted(file) = SkillDocument
      BY <2>7 DEF SkillWanted
    <3> QED
      BY <1>4, <2>1, <2>2, <2>3, <2>4, <2>7, <3>1 DEF Wanted, AsWanted, Mine
  <2>8. CASE file.is \notin {"directory", "binary"} /\ ~(file \in {NoFile, SkillDocument} \/ IsRrWrittenSkill(file))
    <3>1. SkillWanted(file) = Refusal("not-ours")
      BY <2>8 DEF SkillWanted
    <3> QED
      BY <1>1, <2>1, <3>1
  <2> QED
    BY <2>5, <2>7, <2>8
<1> QED
  BY <1>3, <1>4

\* What a target is told and left with (write_atomic, Outcome).
Left(said, before, wanted) == IF said.outcome \in {"created", "updated"} THEN wanted ELSE before

\* What is refused is left alone and refused again; the rest is as wanted and not written again.
LEMMA ConclusionIsSettled ==
  ASSUME NEW target, NEW name, NEW file, IsFile(file), NEW locked
  PROVE  LET said  == Conclusion(name, file, Wanted(target, file), locked)
             left  == Left(said, file, Wanted(target, file))
             again == Conclusion(name, left, Wanted(target, left), locked)
         IN  /\ said = [path |-> name, outcome |-> said.outcome, reason |-> said.reason]
             /\ said.outcome = "refused" <=> said.reason # "none"
             /\ IsFile(left) /\ (left = NoFile => file = NoFile)
             /\ said.outcome = "refused" => left = file
             /\ said.outcome # "refused" => AsWanted(target, left)
             /\ left # file => file = NoFile \/ Mine(file, left)
             /\ again = IF said.outcome = "refused" THEN said ELSE [said EXCEPT !.outcome = "unchanged"]
             /\ Left(again, left, Wanted(target, left)) = left
<1> DEFINE wanted == Wanted(target, file)
           said   == Conclusion(name, file, wanted, locked)
           left   == Left(said, file, wanted)
           again  == Conclusion(name, left, Wanted(target, left), locked)
           Told(outcome, reason) == [path |-> name, outcome |-> outcome, reason |-> reason]
<1>1. \/ wanted.is = "refusal" /\ wanted.reason # "none"
      \/ /\ wanted.is # "refusal" /\ IsFile(wanted) /\ wanted # NoFile
         /\ Wanted(target, wanted) = wanted /\ AsWanted(target, wanted)
         /\ wanted = file \/ file = NoFile \/ Mine(file, wanted)
  BY WantedIsSettled
<1> HIDE DEF wanted
<1>2. CASE wanted.is = "refusal"
  <2>1. said = Told("refused", wanted.reason)
    BY <1>2 DEF Conclusion
  <2>2. left = file
    BY <2>1 DEF Left
  <2>3. again = said
    BY <2>2 DEF wanted
  <2> QED
    BY <1>1, <1>2, <2>1, <2>2, <2>3 DEF Left, wanted
<1>3. CASE wanted.is # "refusal" /\ wanted = file
  <2>1. said = Told("unchanged", "none")
    BY <1>3 DEF Conclusion
  <2>2. left = file /\ again = said
    BY <2>1 DEF Left, wanted
  <2>3. said = [said EXCEPT !.outcome = "unchanged"]
    BY <2>1
  <2>4. AsWanted(target, left)
    BY <1>1, <1>3, <2>2
  <2> QED
    BY <1>1, <1>3, <2>1, <2>2, <2>3, <2>4 DEF Left, wanted
<1>4. CASE wanted.is # "refusal" /\ wanted # file /\ name \in locked
  <2>1. said = Told("refused", "write-failed")
    BY <1>4 DEF Conclusion
  <2>2. left = file /\ again = said
    BY <2>1 DEF Left, wanted
  <2> QED
    BY <1>1, <2>1, <2>2 DEF Left, wanted
<1>5. CASE wanted.is # "refusal" /\ wanted # file /\ name \notin locked
  <2>1. PICK outcome \in {"created", "updated"} : said = Told(outcome, "none")
    BY <1>5 DEF Conclusion
  <2>2. left = wanted
    BY <2>1 DEF Left
  <2>3. Wanted(target, left) = left
    BY <1>1, <1>5, <2>2
  <2>4. again = Told("unchanged", "none")
    BY <1>5, <2>2, <2>3 DEF Conclusion
  <2>5. again = [said EXCEPT !.outcome = "unchanged"]
    BY <2>1, <2>4
  <2>6. Left(again, left, Wanted(target, left)) = left
    BY <2>4 DEF Left
  <2> QED
    BY <1>1, <1>5, <2>1, <2>2, <2>5, <2>6 DEF wanted
<1> QED
  BY <1>2, <1>3, <1>4, <1>5
----------------------------------------------------------------------------
\* The file of a target, what is said of it and what is left of it, on a disk as it is.
HoldsFiles(disk) == disk = [n \in FileNames |-> disk[n]] /\ \A n \in FileNames : IsFile(disk[n])
NameOf(disk, target) == ResolveExistingName(disk, target)
WantedOf(disk, target) == Wanted(target, disk[NameOf(disk, target)])
OutcomeOf(disk, target, locked) ==
  Conclusion(NameOf(disk, target), disk[NameOf(disk, target)], WantedOf(disk, target), locked)
LeftOf(disk, target, locked) ==
  Left(OutcomeOf(disk, target, locked), disk[NameOf(disk, target)], WantedOf(disk, target))

\* The disk once some of the targets are done.
Through(disk, locked, done) ==
  [n \in FileNames |->
     IF \E t \in done : NameOf(disk, t) = n
     THEN LeftOf(disk, CHOOSE t \in done : NameOf(disk, t) = n, locked) ELSE disk[n]]

\* A target is a file of its name in some spelling, and no file in any where it is none
\* (resolve_existing_name); so two targets are two files.
LEMMA NamesAreFound ==
  ASSUME NEW disk, NEW target \in Targets
  PROVE  LET name == NameOf(disk, target)
         IN  /\ name \in FileNames /\ Folded[name] = Folded[target]
             /\ disk[name] = NoFile =>
                  name = target /\ \A m \in FileNames : Folded[m] = Folded[target] => disk[m] = NoFile
<1> DEFINE found == {n \in FileNames : disk[n] # NoFile /\ Folded[n] = Folded[target]}
           name == NameOf(disk, target)
<1>1. target \in FileNames
  BY TargetsDiffer
<1>2. name = IF disk[target] # NoFile \/ found = {} THEN target ELSE CHOOSE n \in found : TRUE
  BY DEF NameOf, ResolveExistingName
<1> HIDE DEF name
<1>3. CASE disk[target] # NoFile
  BY <1>1, <1>2, <1>3 DEF name
<1>4. CASE disk[target] = NoFile /\ found = {}
  BY <1>1, <1>2, <1>4 DEF name
<1>5. CASE disk[target] = NoFile /\ found # {}
  <2>1. name \in found
    BY <1>2, <1>5
  <2> QED
    BY <2>1 DEF name
<1> QED
  BY <1>3, <1>4, <1>5

LEMMA NamesDiffer ==
  ASSUME NEW disk, NEW t \in Targets, NEW u \in Targets, NameOf(disk, t) = NameOf(disk, u)
  PROVE  t = u
BY NamesAreFound, TargetsDiffer

\* Each target that is done is left as it is said, and nothing else is touched.
LEMMA ThroughIsKnown ==
  ASSUME NEW disk, HoldsFiles(disk), NEW locked, NEW done, done \subseteq Targets
  PROVE  LET now == Through(disk, locked, done)
         IN  /\ HoldsFiles(now)
             /\ \A t \in done : now[NameOf(disk, t)] = LeftOf(disk, t, locked)
             /\ \A n \in FileNames : (\A t \in done : NameOf(disk, t) # n) => now[n] = disk[n]
<1> DEFINE now == Through(disk, locked, done)
<1>1. ASSUME NEW t \in done
      PROVE  now[NameOf(disk, t)] = LeftOf(disk, t, locked) /\ NameOf(disk, t) \in FileNames
  <2>1. NameOf(disk, t) \in FileNames
    BY NamesAreFound
  <2>2. \A u \in done : NameOf(disk, u) = NameOf(disk, t) => u = t
    BY NamesDiffer
  <2>3. (CHOOSE u \in done : NameOf(disk, u) = NameOf(disk, t)) = t
    BY <2>2
  <2>4. now[NameOf(disk, t)] = LeftOf(disk, CHOOSE u \in done : NameOf(disk, u) = NameOf(disk, t), locked)
    BY <2>1 DEF Through
  <2> QED
    BY <2>1, <2>3, <2>4
<1>2. ASSUME NEW n \in FileNames, \A t \in done : NameOf(disk, t) # n
      PROVE  now[n] = disk[n]
  BY <1>2 DEF Through
<1>3. now = [n \in FileNames |-> now[n]]
  BY DEF Through
<1>4. \A n \in FileNames : IsFile(now[n])
  <2> TAKE n \in FileNames
  <2>1. CASE \A t \in done : NameOf(disk, t) # n
    BY <1>2, <2>1 DEF HoldsFiles
  <2>2. CASE \E t \in done : NameOf(disk, t) = n
    <3>1. PICK t \in done : NameOf(disk, t) = n
      BY <2>2
    <3>2. IsFile(disk[n])
      BY DEF HoldsFiles
    <3>3. IsFile(LeftOf(disk, t, locked))
      BY <3>1, <3>2, ConclusionIsSettled DEF LeftOf, OutcomeOf, WantedOf
    <3> QED
      BY <1>1, <3>1, <3>3
  <2> QED
    BY <2>1, <2>2
<1> HIDE DEF now
<1>5. HoldsFiles(now)
  BY <1>3, <1>4 DEF HoldsFiles
<1> QED
  BY <1>1, <1>2, <1>5 DEF now

\* Where a target is to be found is not changed by the work on any of them.
LEMMA NamesStay ==
  ASSUME NEW disk, HoldsFiles(disk), NEW locked, NEW done, done \subseteq Targets, NEW t \in Targets
  PROVE  NameOf(Through(disk, locked, done), t) = NameOf(disk, t)
<1> DEFINE now == Through(disk, locked, done)
           name == NameOf(disk, t)
           Found(d) == {n \in FileNames : d[n] # NoFile /\ Folded[n] = Folded[t]}
<1>1. /\ \A u \in done : now[NameOf(disk, u)] = LeftOf(disk, u, locked)
      /\ \A n \in FileNames : (\A u \in done : NameOf(disk, u) # n) => now[n] = disk[n]
  BY ThroughIsKnown
<1>2. /\ name \in FileNames /\ Folded[name] = Folded[t]
      /\ disk[name] = NoFile =>
           name = t /\ \A m \in FileNames : Folded[m] = Folded[t] => disk[m] = NoFile
  BY NamesAreFound
<1>3. \A m \in FileNames : Folded[m] = Folded[t] /\ m # name => now[m] = disk[m]
  <2> SUFFICES ASSUME NEW m \in FileNames, Folded[m] = Folded[t], m # name
               PROVE  now[m] = disk[m]
    OBVIOUS
  <2>1. \A u \in done : NameOf(disk, u) # m
    BY NamesAreFound, TargetsDiffer
  <2> HIDE DEF now
  <2> QED
    BY <1>1, <2>1
<1>4. now[name] = NoFile => disk[name] = NoFile
  <2>1. CASE t \in done
    <3>1. IsFile(disk[name])
      BY <1>2 DEF HoldsFiles
    <3>2. LeftOf(disk, t, locked) = NoFile => disk[name] = NoFile
      BY <3>1, ConclusionIsSettled DEF LeftOf, OutcomeOf, WantedOf
    <3> QED
      BY <1>1, <2>1, <3>2
  <2>2. CASE t \notin done
    <3>1. \A u \in done : NameOf(disk, u) # name
      BY <2>2, NamesDiffer
    <3> HIDE DEF now
    <3> QED
      BY <1>1, <1>2, <3>1
  <2> QED
    BY <2>1, <2>2
<1>5. t \in FileNames
  BY TargetsDiffer
<1>6. \A d : NameOf(d, t) = IF d[t] # NoFile \/ Found(d) = {} THEN t ELSE CHOOSE n \in Found(d) : TRUE
  BY DEF NameOf, ResolveExistingName
<1>7. CASE disk[name] # NoFile
  <2>1. \A m \in FileNames : Folded[m] = Folded[t] => (now[m] = NoFile <=> disk[m] = NoFile)
    <3> HIDE DEF now, name
    <3> QED
      BY <1>3, <1>4, <1>7
  <2>2. Found(now) = Found(disk) /\ (now[t] = NoFile <=> disk[t] = NoFile)
    <3> HIDE DEF now
    <3> QED
      BY <1>5, <2>1
  <2>3. NameOf(now, t) = NameOf(disk, t)
    <3> HIDE DEF now, Found
    <3> QED
      BY <1>6, <2>2
  <2> QED
    BY <2>3
<1>8. CASE disk[name] = NoFile
  <2>1. name = t /\ \A m \in FileNames : Folded[m] = Folded[t] /\ m # t => now[m] = NoFile
    <3> HIDE DEF now, name
    <3> QED
      BY <1>2, <1>3, <1>8
  <2>2. now[t] # NoFile \/ Found(now) = {}
    <3> HIDE DEF now, name
    <3> QED
      BY <2>1
  <2> QED
    BY <1>6, <2>1, <2>2
<1> QED
  BY <1>7, <1>8
\* One target of a run (apply_region, install_skill).
TargetStep(run, target) ==
  Concluded(run, NameOf(run.disk, target), Wanted(target, run.disk[NameOf(run.disk, target)]))
LEMMA StepsAreTargets ==
  ASSUME NEW run
  PROVE  /\ ApplyRegion(run, IgnoreFile) = TargetStep(run, IgnoreFile)
         /\ ApplyRegion(run, AgentsFile) = TargetStep(run, AgentsFile)
         /\ ApplyRegion(run, ClaudeFile) = TargetStep(run, ClaudeFile)
         /\ InstallSkill(run) = TargetStep(run, SkillFile)
BY TargetsDiffer DEF ApplyRegion, InstallSkill, TargetStep, NameOf, Wanted

\* It leaves the disk as the target is said to be left, and says so.
LEMMA StepsAreSaid ==
  ASSUME NEW disk, HoldsFiles(disk), NEW locked, NEW report, NEW t \in Targets
  PROVE  TargetStep([disk |-> disk, locked |-> locked, report |-> report], t) =
           [disk   |-> [disk EXCEPT ![NameOf(disk, t)] = LeftOf(disk, t, locked)],
            locked |-> locked, report |-> Append(report, OutcomeOf(disk, t, locked))]
<1> DEFINE run == [disk |-> disk, locked |-> locked, report |-> report]
           name == NameOf(disk, t)
           wanted == Wanted(t, disk[name])
           said == Conclusion(name, disk[name], wanted, locked)
<1>1. TargetStep(run, t) = [run EXCEPT !.disk[name] = IF said.outcome \in {"created", "updated"} THEN wanted ELSE @,
                                       !.report = Append(@, said)]
  BY DEF TargetStep, Concluded
<1>2. name \in FileNames /\ disk = [n \in FileNames |-> disk[n]]
  BY NamesAreFound DEF HoldsFiles
<1>3. said = OutcomeOf(disk, t, locked) /\ wanted = WantedOf(disk, t)
      /\ LeftOf(disk, t, locked) = IF said.outcome \in {"created", "updated"} THEN wanted ELSE disk[name]
  BY DEF OutcomeOf, LeftOf, WantedOf, Left
<1> HIDE DEF said, wanted, name
<1>4. TargetStep(run, t) = [disk |-> [disk EXCEPT ![name] = IF said.outcome \in {"created", "updated"} THEN wanted ELSE disk[name]],
                            locked |-> locked, report |-> Append(report, said)]
  BY <1>1
<1> QED
  BY <1>3, <1>4 DEF name

\* After some of the targets, another finds its file as it was at the start.
LEMMA StepsGoOn ==
  ASSUME NEW disk, HoldsFiles(disk), NEW locked, NEW report,
         NEW done, done \subseteq Targets, NEW t \in Targets \ done
  PROVE  TargetStep([disk |-> Through(disk, locked, done), locked |-> locked, report |-> report], t) =
           [disk   |-> Through(disk, locked, done \cup {t}),
            locked |-> locked, report |-> Append(report, OutcomeOf(disk, t, locked))]
<1> DEFINE now  == Through(disk, locked, done)
           next == Through(disk, locked, done \cup {t})
           name == NameOf(disk, t)
<1>1. /\ HoldsFiles(now)
      /\ \A u \in done : now[NameOf(disk, u)] = LeftOf(disk, u, locked)
      /\ \A n \in FileNames : (\A u \in done : NameOf(disk, u) # n) => now[n] = disk[n]
  BY ThroughIsKnown
<1>2. /\ HoldsFiles(next)
      /\ \A u \in done \cup {t} : next[NameOf(disk, u)] = LeftOf(disk, u, locked)
      /\ \A n \in FileNames : (\A u \in done \cup {t} : NameOf(disk, u) # n) => next[n] = disk[n]
  <2>1. done \cup {t} \subseteq Targets
    OBVIOUS
  <2> QED
    BY <2>1, ThroughIsKnown
<1>3. NameOf(now, t) = name /\ name \in FileNames
  BY NamesStay, NamesAreFound
<1>4. \A u \in done : NameOf(disk, u) # name
  BY NamesDiffer
<1> HIDE DEF now, next, name
<1>5. now[name] = disk[name]
  BY <1>1, <1>3, <1>4
<1>6. OutcomeOf(now, t, locked) = OutcomeOf(disk, t, locked) /\ LeftOf(now, t, locked) = LeftOf(disk, t, locked)
  BY <1>3, <1>5 DEF OutcomeOf, LeftOf, WantedOf, name
<1>7. [now EXCEPT ![name] = LeftOf(disk, t, locked)] = next
  <2>1. now = [n \in FileNames |-> now[n]] /\ next = [n \in FileNames |-> next[n]]
    BY <1>1, <1>2 DEF HoldsFiles
  <2>2. next[name] = LeftOf(disk, t, locked)
    BY <1>2 DEF name
  <2>3. \A n \in FileNames : n # name => next[n] = now[n]
    <3> TAKE n \in FileNames
    <3>1. CASE \E u \in done : NameOf(disk, u) = n
      BY <1>1, <1>2, <3>1
    <3>2. CASE \A u \in done : NameOf(disk, u) # n
      BY <1>1, <1>2, <3>2 DEF name
    <3> QED
      BY <3>1, <3>2
  <2> QED
    BY <1>3, <2>1, <2>2, <2>3
<1>8. TargetStep([disk |-> now, locked |-> locked, report |-> report], t) =
        [disk   |-> [now EXCEPT ![NameOf(now, t)] = LeftOf(now, t, locked)],
         locked |-> locked, report |-> Append(report, OutcomeOf(now, t, locked))]
  BY <1>1, StepsAreSaid
<1> QED
  BY <1>3, <1>6, <1>7, <1>8 DEF now, next

\* An ignore file that is made and then marked is told as made (run).
IgnoreSaid(disk, locked) ==
  LET said == OutcomeOf(EnsurePrivate(disk, locked), IgnoreFile, locked)
  IN  IF disk[IgnoreFile] = NoFile /\ said.outcome = "updated" THEN [said EXCEPT !.outcome = "created"] ELSE said

\* A whole run (run).
LEMMA RunIsKnown ==
  ASSUME NEW disk, NEW locked, HoldsFiles(EnsurePrivate(disk, locked))
  PROVE  LET d == EnsurePrivate(disk, locked)
         IN  InitRun(disk, locked) =
               [disk |-> Through(d, locked, Targets), locked |-> locked,
                report |-> <<IgnoreSaid(disk, locked), OutcomeOf(d, AgentsFile, locked),
                             OutcomeOf(d, ClaudeFile, locked), OutcomeOf(d, SkillFile, locked)>>]
<1> DEFINE d == EnsurePrivate(disk, locked)
           Run(done, report) == [disk |-> Through(d, locked, done), locked |-> locked, report |-> report]
           first == OutcomeOf(d, IgnoreFile, locked)
           one == IgnoreSaid(disk, locked)
           two == OutcomeOf(d, AgentsFile, locked)
           three == OutcomeOf(d, ClaudeFile, locked)
           four == OutcomeOf(d, SkillFile, locked)
           start == [disk |-> d, locked |-> locked, report |-> <<>>]
           told == IF disk[IgnoreFile] = NoFile /\ ApplyRegion(start, IgnoreFile).report[1].outcome = "updated"
                   THEN [ApplyRegion(start, IgnoreFile) EXCEPT !.report[1].outcome = "created"]
                   ELSE ApplyRegion(start, IgnoreFile)
<1>1. Through(d, locked, {}) = d
  BY DEF Through, HoldsFiles
<1>2. \A report : \A done \in SUBSET Targets, t \in Targets :
        t \notin done => TargetStep(Run(done, report), t) = Run(done \cup {t}, Append(report, OutcomeOf(d, t, locked)))
  BY StepsGoOn
<1>3. InitRun(disk, locked) = InstallSkill(ApplyRegion(ApplyRegion(told, AgentsFile), ClaudeFile))
  BY DEF InitRun
<1>4. start = Run({}, <<>>)
  BY <1>1
<1>5. Targets = {IgnoreFile, AgentsFile, ClaudeFile, SkillFile}
  BY DEF Targets
<1> HIDE DEF start
<1>6. ApplyRegion(start, IgnoreFile) = Run({IgnoreFile}, <<first>>)
  <2>1. ApplyRegion(start, IgnoreFile) = TargetStep(Run({}, <<>>), IgnoreFile)
    BY <1>4, StepsAreTargets
  <2>2. Append(<<>>, first) = <<first>> /\ {} \cup {IgnoreFile} = {IgnoreFile}
    OBVIOUS
  <2> HIDE DEF Run, first
  <2>3. TargetStep(Run({}, <<>>), IgnoreFile) = Run({} \cup {IgnoreFile}, Append(<<>>, first))
    BY <1>2, <1>5 DEF first
  <2> QED
    BY <2>1, <2>2, <2>3
<1>7. told = Run({IgnoreFile}, <<one>>)
  <2>1. ApplyRegion(start, IgnoreFile).report = <<first>>
    BY <1>6
  <2>2. told = IF disk[IgnoreFile] = NoFile /\ first.outcome = "updated"
               THEN [Run({IgnoreFile}, <<first>>) EXCEPT !.report[1].outcome = "created"]
               ELSE Run({IgnoreFile}, <<first>>)
    <3> HIDE DEF first
    <3> QED
      BY <1>6, <2>1
  <2>3. one = IF disk[IgnoreFile] = NoFile /\ first.outcome = "updated"
              THEN [first EXCEPT !.outcome = "created"] ELSE first
    BY DEF IgnoreSaid
  <2> HIDE DEF first, one
  <2>4. [<<first>> EXCEPT ![1].outcome = "created"] = <<[first EXCEPT !.outcome = "created"]>>
    OBVIOUS
  <2>5. [Run({IgnoreFile}, <<first>>) EXCEPT !.report[1].outcome = "created"] =
          Run({IgnoreFile}, <<[first EXCEPT !.outcome = "created"]>>)
    BY <2>4
  <2> HIDE DEF Run, told
  <2> QED
    BY <2>2, <2>3, <2>5
<1> HIDE DEF told, Run, one, two, three, four
<1>11. Append(<<one>>, two) = <<one, two>>
  <2> DEFINE S == {one, two}
             whole == <<one, two>>
             longer == Append(<<one>>, two)
  <2>1. <<one>> \in Seq(S) /\ Len(<<one>>) = 1 /\ two \in S
    OBVIOUS
  <2>2. whole \in Seq(S) /\ Len(whole) = 2
    OBVIOUS
  <2>3. longer \in Seq(S) /\ Len(longer) = 2
    BY <2>1
  <2>4. \A i \in 1..1 : longer[i] = <<one>>[i]
    BY <2>1
  <2>5. longer[2] = two
    BY <2>1
  <2>6. \A i \in 1..2 : longer[i] = whole[i]
    BY <2>4, <2>5
  <2> HIDE DEF longer, whole, S
  <2>7. longer = whole
    BY <2>2, <2>3, <2>6, SeqEqual
  <2> QED
    BY <2>7 DEF longer, whole
<1>12. Append(<<one, two>>, three) = <<one, two, three>>
  <2> DEFINE S == {one, two, three}
             whole == <<one, two, three>>
             longer == Append(<<one, two>>, three)
  <2>1. <<one, two>> \in Seq(S) /\ Len(<<one, two>>) = 2 /\ three \in S
    OBVIOUS
  <2>2. whole \in Seq(S) /\ Len(whole) = 3
    OBVIOUS
  <2>3. longer \in Seq(S) /\ Len(longer) = 3
    BY <2>1
  <2>4. \A i \in 1..2 : longer[i] = <<one, two>>[i]
    BY <2>1
  <2>5. longer[3] = three
    BY <2>1
  <2>6. \A i \in 1..3 : longer[i] = whole[i]
    BY <2>4, <2>5
  <2> HIDE DEF longer, whole, S
  <2>7. longer = whole
    BY <2>2, <2>3, <2>6, SeqEqual
  <2> QED
    BY <2>7 DEF longer, whole
<1>13. Append(<<one, two, three>>, four) = <<one, two, three, four>>
  <2> DEFINE S == {one, two, three, four}
             whole == <<one, two, three, four>>
             longer == Append(<<one, two, three>>, four)
  <2>1. <<one, two, three>> \in Seq(S) /\ Len(<<one, two, three>>) = 3 /\ four \in S
    OBVIOUS
  <2>2. whole \in Seq(S) /\ Len(whole) = 4
    OBVIOUS
  <2>3. longer \in Seq(S) /\ Len(longer) = 4
    BY <2>1
  <2>4. \A i \in 1..3 : longer[i] = <<one, two, three>>[i]
    BY <2>1
  <2>5. longer[4] = four
    BY <2>1
  <2>6. \A i \in 1..4 : longer[i] = whole[i]
    BY <2>4, <2>5
  <2> HIDE DEF longer, whole, S
  <2>7. longer = whole
    BY <2>2, <2>3, <2>6, SeqEqual
  <2> QED
    BY <2>7 DEF longer, whole
<1>8. ApplyRegion(told, AgentsFile) = Run({IgnoreFile, AgentsFile}, <<one, two>>)
  <2>1. TargetStep(Run({IgnoreFile}, <<one>>), AgentsFile) =
          Run({IgnoreFile} \cup {AgentsFile}, Append(<<one>>, two))
    BY <1>2, <1>5, TargetsDiffer DEF two
  <2>2. {IgnoreFile} \cup {AgentsFile} = {IgnoreFile, AgentsFile}
    OBVIOUS
  <2>3. Append(<<one>>, two) = <<one, two>>
    BY <1>11
  <2> QED
    BY <1>7, <2>1, <2>2, <2>3, StepsAreTargets
<1>9. ApplyRegion(ApplyRegion(told, AgentsFile), ClaudeFile) =
        Run({IgnoreFile, AgentsFile, ClaudeFile}, <<one, two, three>>)
  <2>1. TargetStep(Run({IgnoreFile, AgentsFile}, <<one, two>>), ClaudeFile) =
          Run({IgnoreFile, AgentsFile} \cup {ClaudeFile}, Append(<<one, two>>, three))
    BY <1>2, <1>5, TargetsDiffer DEF three
  <2>2. {IgnoreFile, AgentsFile} \cup {ClaudeFile} = {IgnoreFile, AgentsFile, ClaudeFile}
    OBVIOUS
  <2>3. Append(<<one, two>>, three) = <<one, two, three>>
    BY <1>12
  <2> QED
    BY <1>8, <2>1, <2>2, <2>3, StepsAreTargets
<1>10. InitRun(disk, locked) = Run(Targets, <<one, two, three, four>>)
  <2>1. TargetStep(Run({IgnoreFile, AgentsFile, ClaudeFile}, <<one, two, three>>), SkillFile) =
          Run({IgnoreFile, AgentsFile, ClaudeFile} \cup {SkillFile}, Append(<<one, two, three>>, four))
    BY <1>2, <1>5, TargetsDiffer DEF four
  <2>2. {IgnoreFile, AgentsFile, ClaudeFile} \cup {SkillFile} = Targets
    BY <1>5
  <2>3. Append(<<one, two, three>>, four) = <<one, two, three, four>>
    BY <1>13
  <2> QED
    BY <1>3, <1>9, <2>1, <2>2, <2>3, StepsAreTargets
<1> QED
  BY <1>10 DEF Run, one, two, three, four
\* The disk of a run holds files from the start, and only a missing ignore file is marked
\* (ensure_private).
LEMMA PrivateIsKnown ==
  ASSUME NEW disk, HoldsFiles(disk), NEW locked
  PROVE  LET d == EnsurePrivate(disk, locked)
         IN  /\ HoldsFiles(d) /\ (d[IgnoreFile] = NoFile => IgnoreFile \in locked)
             /\ \A n \in FileNames : /\ d[n] # disk[n] => n = IgnoreFile /\ disk[n] = NoFile
                                     /\ d[n] = NoFile => disk[n] = NoFile
<1> DEFINE d == EnsurePrivate(disk, locked)
           mark == TextFile(<<"everything">>, TRUE, "lf")
<1>1. IsFile(mark) /\ mark # NoFile
  <2>1. <<"everything">> \in Seq(Range(<<"everything">>))
    BY DEF Range
  <2> QED
    BY <2>1 DEF IsFile, TextFile, NoFile
<1>2. IgnoreFile \in FileNames
  BY TargetsDiffer DEF Targets
<1> HIDE DEF mark
<1>3. CASE disk[IgnoreFile] = NoFile /\ IgnoreFile \notin locked
  <2>1. d = [disk EXCEPT ![IgnoreFile] = mark]
    BY <1>3 DEF EnsurePrivate, mark
  <2>2. /\ d = [n \in FileNames |-> d[n]] /\ d[IgnoreFile] = mark
        /\ \A n \in FileNames : n # IgnoreFile => d[n] = disk[n]
    BY <1>2, <2>1 DEF HoldsFiles
  <2> HIDE DEF d
  <2>3. HoldsFiles(d)
    BY <1>1, <2>2 DEF HoldsFiles
  <2> QED
    BY <1>1, <1>3, <2>2, <2>3 DEF d
<1>4. CASE ~(disk[IgnoreFile] = NoFile /\ IgnoreFile \notin locked)
  <2>1. d = disk
    BY <1>4 DEF EnsurePrivate
  <2> QED
    BY <1>4, <2>1
<1> QED
  BY <1>3, <1>4

\* What is said of a target and left of it (Outcome), on any disk of files.
LEMMA TargetsAreSettled ==
  ASSUME NEW disk, HoldsFiles(disk), NEW locked, NEW t \in Targets
  PROVE  LET said == OutcomeOf(disk, t, locked)
             left == LeftOf(disk, t, locked)
             name == NameOf(disk, t)
             file == disk[name]
             now  == Through(disk, locked, Targets)
         IN  /\ said = [path |-> name, outcome |-> said.outcome, reason |-> said.reason]
             /\ said.outcome = "refused" <=> said.reason # "none"
             /\ said.outcome = "refused" => left = file
             /\ said.outcome # "refused" => AsWanted(t, left)
             /\ left # file => file = NoFile \/ Mine(file, left)
             /\ left = NoFile => file = NoFile
             /\ now[name] = left /\ NameOf(now, t) = name /\ LeftOf(now, t, locked) = left
             /\ OutcomeOf(now, t, locked) = IF said.outcome = "refused" THEN said
                                         ELSE [said EXCEPT !.outcome = "unchanged"]
<1> DEFINE name == NameOf(disk, t)
           now  == Through(disk, locked, Targets)
<1>1. IsFile(disk[name])
  BY NamesAreFound DEF HoldsFiles
<1>2. now[name] = LeftOf(disk, t, locked) /\ NameOf(now, t) = name
  BY ThroughIsKnown, NamesStay
<1> HIDE DEF now, name
<1>3. LET said  == Conclusion(name, disk[name], Wanted(t, disk[name]), locked)
          left  == Left(said, disk[name], Wanted(t, disk[name]))
          again == Conclusion(name, left, Wanted(t, left), locked)
      IN  /\ said = [path |-> name, outcome |-> said.outcome, reason |-> said.reason]
          /\ said.outcome = "refused" <=> said.reason # "none"
          /\ (left = NoFile => disk[name] = NoFile)
          /\ said.outcome = "refused" => left = disk[name]
          /\ said.outcome # "refused" => AsWanted(t, left)
          /\ left # disk[name] => disk[name] = NoFile \/ Mine(disk[name], left)
          /\ again = IF said.outcome = "refused" THEN said ELSE [said EXCEPT !.outcome = "unchanged"]
          /\ Left(again, left, Wanted(t, left)) = left
  BY <1>1, ConclusionIsSettled
<1>4. /\ OutcomeOf(disk, t, locked) = Conclusion(name, disk[name], Wanted(t, disk[name]), locked)
      /\ LeftOf(disk, t, locked) = Left(OutcomeOf(disk, t, locked), disk[name], Wanted(t, disk[name]))
  BY DEF OutcomeOf, LeftOf, WantedOf, name
<1>5. /\ OutcomeOf(now, t, locked) = Conclusion(name, now[name], Wanted(t, now[name]), locked)
      /\ LeftOf(now, t, locked) = Left(OutcomeOf(now, t, locked), now[name], Wanted(t, now[name]))
  BY <1>2 DEF OutcomeOf, LeftOf, WantedOf
<1> QED
  BY <1>2, <1>3, <1>4, <1>5 DEF now, name

\* A run over what a run left changes nothing.
LEMMA DoneIsDone ==
  ASSUME NEW disk, HoldsFiles(disk), NEW locked
  PROVE  LET now == Through(disk, locked, Targets)
         IN  HoldsFiles(now) /\ Through(now, locked, Targets) = now
<1> DEFINE now == Through(disk, locked, Targets)
           next == Through(now, locked, Targets)
<1>1. HoldsFiles(now)
  BY ThroughIsKnown
<1> HIDE DEF now
<1>2. /\ HoldsFiles(next)
      /\ \A t \in Targets : next[NameOf(now, t)] = LeftOf(now, t, locked)
      /\ \A n \in FileNames : (\A t \in Targets : NameOf(now, t) # n) => next[n] = now[n]
  BY <1>1, ThroughIsKnown
<1>3. \A t \in Targets : NameOf(now, t) = NameOf(disk, t) /\ LeftOf(now, t, locked) = now[NameOf(now, t)]
  BY TargetsAreSettled DEF now
<1> HIDE DEF next
<1>4. \A n \in FileNames : next[n] = now[n]
  BY <1>2, <1>3
<1>5. next = [n \in FileNames |-> next[n]] /\ now = [n \in FileNames |-> now[n]]
  BY <1>1, <1>2 DEF HoldsFiles
<1>6. next = now
  BY <1>4, <1>5
<1> QED
  BY <1>1, <1>6 DEF next, now

\* Whatever is on the disk, in whatever spelling, and whatever of it cannot be written, a run of
\* rr init changes no line that is not rr's, tells what it did, and is done when it is (run).
THEOREM InitsAreCareful ==
  ASSUME NEW disk, IsDisk(disk), NEW locked
  PROVE  InitKeepsWhatIsYours(disk, locked, InitRun(disk, locked))
<1> DEFINE d == EnsurePrivate(disk, locked)
           now == Through(d, locked, Targets)
           done == InitRun(disk, locked)
           one == IgnoreSaid(disk, locked)
           two == OutcomeOf(d, AgentsFile, locked)
           three == OutcomeOf(d, ClaudeFile, locked)
           four == OutcomeOf(d, SkillFile, locked)
           Told(t) == IF t = IgnoreFile THEN one ELSE OutcomeOf(d, t, locked)
           Again(told) == IF told.outcome = "refused" THEN told ELSE [told EXCEPT !.outcome = "unchanged"]
<1>1. HoldsFiles(disk)
  BY DEF IsDisk, HoldsFiles
<1>2. /\ HoldsFiles(d) /\ (d[IgnoreFile] = NoFile => IgnoreFile \in locked)
      /\ \A n \in FileNames : /\ d[n] # disk[n] => n = IgnoreFile /\ disk[n] = NoFile
                              /\ d[n] = NoFile => disk[n] = NoFile
  BY <1>1, PrivateIsKnown
<1>3. done.disk = now /\ done.report = <<one, two, three, four>>
  BY <1>2, RunIsKnown
<1> HIDE DEF d, done
<1>4. HoldsFiles(now) /\ Through(now, locked, Targets) = now
  BY <1>2, DoneIsDone
<1>5. \A t \in Targets :
        /\ LeftOf(d, t, locked) # d[NameOf(d, t)] =>
             d[NameOf(d, t)] = NoFile \/ Mine(d[NameOf(d, t)], LeftOf(d, t, locked))
        /\ LeftOf(d, t, locked) = NoFile => d[NameOf(d, t)] = NoFile
        /\ now[NameOf(d, t)] = LeftOf(d, t, locked)
  BY <1>2, TargetsAreSettled
<1>6. ASSUME NEW t \in Targets
      PROVE  /\ Told(t).path = NameOf(d, t)
             /\ Told(t).outcome = "refused" <=> Told(t).reason # "none"
             /\ Told(t).outcome = "refused" => now[Told(t).path] = d[Told(t).path]
             /\ Told(t).outcome # "refused" => AsWanted(t, now[Told(t).path])
             /\ OutcomeOf(now, t, locked) = Again(Told(t))
  <2> DEFINE said == OutcomeOf(d, t, locked)
  <2>1. /\ said = [path |-> NameOf(d, t), outcome |-> said.outcome, reason |-> said.reason]
        /\ said.outcome = "refused" <=> said.reason # "none"
        /\ said.outcome = "refused" => now[NameOf(d, t)] = d[NameOf(d, t)]
        /\ said.outcome # "refused" => AsWanted(t, now[NameOf(d, t)])
        /\ OutcomeOf(now, t, locked) = Again(said)
    BY <1>2, TargetsAreSettled
  <2>2. Told(t) = said \/ (Told(t) = [said EXCEPT !.outcome = "created"] /\ said.outcome = "updated")
    BY DEF IgnoreSaid, d
  <2> HIDE DEF said, now, Told
  <2>3. CASE Told(t) = said
    BY <2>1, <2>3
  <2>4. CASE Told(t) = [said EXCEPT !.outcome = "created"] /\ said.outcome = "updated"
    <3>1. Told(t) = [path |-> NameOf(d, t), outcome |-> "created", reason |-> said.reason]
      BY <2>1, <2>4
    <3>2. [Told(t) EXCEPT !.outcome = "unchanged"] = [said EXCEPT !.outcome = "unchanged"]
      BY <2>1, <3>1
    <3> QED
      BY <2>1, <2>4, <3>1, <3>2
  <2> QED
    BY <2>2, <2>3, <2>4
<1>7. OnlyYourRegion(disk, done)
  <2> SUFFICES ASSUME NEW n \in FileNames, now[n] # disk[n]
               PROVE  \/ /\ disk[n] = NoFile
                         /\ n # IgnoreFile => \A m \in FileNames : Folded[m] = Folded[n] => disk[m] = NoFile
                      \/ IsRrWrittenSkill(disk[n])
                      \/ /\ disk[n].is = "text" /\ Paired(disk[n].lines)
                         /\ Outside(now[n].lines) = Outside(disk[n].lines) /\ now[n].newline = disk[n].newline
    BY <1>3 DEF OnlyYourRegion
  <2>1. CASE d[n] # disk[n]
    BY <1>2, <2>1
  <2>2. CASE d[n] = disk[n]
    <3>1. PICK t \in Targets : NameOf(d, t) = n
      <4>1. \A m \in FileNames : (\A t \in Targets : NameOf(d, t) # m) => now[m] = d[m]
        BY <1>2, ThroughIsKnown
      <4> HIDE DEF now
      <4> QED
        BY <2>2, <4>1
    <3>2. d[n] = NoFile \/ Mine(d[n], now[n])
      <4> HIDE DEF now
      <4> QED
        BY <1>5, <2>2, <3>1
    <3>3. CASE d[n] = NoFile
      <4>1. Folded[n] = Folded[t] /\ \A m \in FileNames : Folded[m] = Folded[t] => d[m] = NoFile
        BY <3>1, <3>3, NamesAreFound
      <4> QED
        BY <1>2, <2>2, <3>3, <4>1
    <3>4. CASE Mine(d[n], now[n])
      BY <2>2, <3>4 DEF Mine, Keeps
    <3> QED
      BY <3>2, <3>3, <3>4
  <2> QED
    BY <2>1, <2>2
<1> HIDE DEF now, Told
<1>8. /\ Told(IgnoreFile) = one /\ Told(AgentsFile) = two /\ Told(ClaudeFile) = three /\ Told(SkillFile) = four
      /\ IgnoreFile \in Targets /\ AgentsFile \in Targets /\ ClaudeFile \in Targets /\ SkillFile \in Targets
  BY TargetsDiffer DEF Told, Targets
<1>9. DOMAIN done.report = 1..4 /\ done.report[1] = Told(IgnoreFile) /\ done.report[2] = Told(AgentsFile)
      /\ done.report[3] = Told(ClaudeFile) /\ done.report[4] = Told(SkillFile)
  <2> HIDE DEF one, two, three, four
  <2> QED
    BY <1>3, <1>8
<1>10. ReportIsTrue(disk, locked, done)
  <2>1. \A t \in Targets :
          /\ Told(t).outcome = "refused" => now[Told(t).path] = d[Told(t).path]
          /\ Told(t).outcome # "refused" => AsWanted(t, now[Told(t).path])
    BY <1>6
  <2>2. ASSUME NEW i \in 1..4, NEW t \in Targets, done.report[i] = Told(t), i = 4 <=> t = SkillFile
        PROVE  IF done.report[i].outcome = "refused" THEN now[done.report[i].path] = d[done.report[i].path]
               ELSE IF i = 4 THEN now[done.report[i].path] = SkillDocument ELSE HasBlock(now[done.report[i].path])
    BY <2>1, <2>2 DEF AsWanted
  <2>3. \A i \in 1..4 : IF done.report[i].outcome = "refused" THEN now[done.report[i].path] = d[done.report[i].path]
               ELSE IF i = 4 THEN now[done.report[i].path] = SkillDocument ELSE HasBlock(now[done.report[i].path])
    <3> TAKE i \in 1..4
    <3>1. i \in {1, 2, 3, 4}
      OBVIOUS
    <3>2. PICK t \in Targets : done.report[i] = Told(t) /\ (i = 4 <=> t = SkillFile)
      BY <1>8, <1>9, <3>1, TargetsDiffer
    <3> QED
      BY <2>2, <3>2
  <2> QED
    BY <1>3, <1>9, <2>3 DEF ReportIsTrue, d
<1>11. RunsOnce(locked, done)
  <2>1. now[IgnoreFile] = NoFile => IgnoreFile \in locked
    <3>1. CASE \E t \in Targets : NameOf(d, t) = IgnoreFile
      BY <1>2, <1>5, <3>1
    <3>2. CASE \A t \in Targets : NameOf(d, t) # IgnoreFile
      <4>1. now[IgnoreFile] = d[IgnoreFile]
        BY <1>2, <3>2, ThroughIsKnown, TargetsDiffer DEF now, Targets
      <4> QED
        BY <1>2, <4>1
    <3> QED
      BY <3>1, <3>2
  <2>2. EnsurePrivate(now, locked) = now
    BY <2>1 DEF EnsurePrivate
  <2>3. InitRun(now, locked).disk = now
        /\ InitRun(now, locked).report = <<IgnoreSaid(now, locked), OutcomeOf(now, AgentsFile, locked),
                                          OutcomeOf(now, ClaudeFile, locked), OutcomeOf(now, SkillFile, locked)>>
    BY <1>4, <2>2, RunIsKnown
  <2>4. \A t \in Targets : OutcomeOf(now, t, locked) = Again(Told(t))
    BY <1>6
  <2>5. IgnoreSaid(now, locked) = OutcomeOf(now, IgnoreFile, locked)
    <3>1. Told(IgnoreFile).outcome # "refused" => Again(Told(IgnoreFile)).outcome # "updated"
      <4>1. "outcome" \in DOMAIN one
        <5>1. LET said == OutcomeOf(d, IgnoreFile, locked)
              IN  said = [path |-> said.path, outcome |-> said.outcome, reason |-> said.reason]
          BY <1>2, <1>8, TargetsAreSettled
        <5> QED
          BY <5>1 DEF IgnoreSaid, d
      <4> HIDE DEF one
      <4> QED
        BY <1>8, <4>1
    <3>2. OutcomeOf(now, IgnoreFile, locked).outcome # "updated"
      BY <1>8, <2>4, <3>1
    <3> QED
      BY <2>2, <3>2 DEF IgnoreSaid
  <2>6. InitRun(now, locked).report = <<Again(Told(IgnoreFile)), Again(Told(AgentsFile)),
                                       Again(Told(ClaudeFile)), Again(Told(SkillFile))>>
    BY <1>8, <2>3, <2>4, <2>5
  <2> HIDE DEF Again
  <2>7. InitRun(now, locked).report = [i \in 1..4 |-> Again(done.report[i])]
    BY <1>9, <2>6
  <2> QED
    BY <1>3, <2>3, <2>7 DEF RunsOnce, Again
<1>12. InitExitCode(done) = 0 <=> (\A i \in DOMAIN done.report : done.report[i].reason = "none")
  <2>1. \A t \in Targets : Told(t).outcome = "refused" <=> Told(t).reason # "none"
    BY <1>6
  <2>2. \A i \in DOMAIN done.report : done.report[i].outcome = "refused" <=> done.report[i].reason # "none"
    <3> TAKE i \in DOMAIN done.report
    <3>1. i \in {1, 2, 3, 4}
      BY <1>9
    <3> QED
      BY <1>8, <1>9, <2>1, <3>1
  <2> QED
    BY <2>2 DEF InitExitCode
<1> QED
  BY <1>7, <1>10, <1>11, <1>12 DEF InitKeepsWhatIsYours, done

----------------------------------------------------------------------------
(* Every request is answered as its module promises.                       *)

\* A request does not change, and its answer is what the algorithm says of it.
LEMMA RequestsAreAnswered == RequestSpec => []RequestInvariant
<1>1. RequestInit => RequestInvariant
  BY DEF RequestInit, RequestInvariant
<1>2. RequestInvariant /\ [RequestNext]_requestVars => RequestInvariant'
  <2> SUFFICES ASSUME RequestInvariant, [RequestNext]_requestVars
               PROVE  RequestInvariant'
    OBVIOUS
  <2>1. request' = request
    BY DEF RequestNext, Answers, requestVars
  <2>2. Requested'
    BY <2>1 DEF RequestInvariant, Requested
  <2>3. CASE UNCHANGED requestVars
    BY <2>1, <2>2, <2>3 DEF RequestInvariant, requestVars
  <2>4. CASE RequestNext
    BY <2>1, <2>2, <2>4 DEF RequestInvariant, RequestNext, Answers
  <2> QED
    BY <2>3, <2>4
<1> QED
  BY <1>1, <1>2, PTL DEF RequestSpec

\* Whatever the file and the anchor, the window that is served is right
\* (select_window).
THEOREM WindowsAreServed == RequestSpec => []WindowServed
<1>1. RequestInvariant => WindowServed
  BY WindowsAreRight DEF RequestInvariant, Requested, WindowServed, Answered
<1> QED
  BY <1>1, RequestsAreAnswered, PTL

\* Whatever the definitions of a file, a fact belongs to the innermost one around
\* it (OwnerIndex).
THEOREM OwnersAreServed == RequestSpec => []OwnerServed
<1>1. RequestInvariant => OwnerServed
  BY OwnersAreNearest DEF RequestInvariant, Requested, OwnerServed, Answered
<1> QED
  BY <1>1, RequestsAreAnswered, PTL

\* Whatever a status lists, its plan is that of the set of its items (PlanDraft).
THEOREM PlansAreServed == RequestSpec => []PlanServed
<1>1. RequestInvariant => PlanServed
  BY PlansIgnoreOrder DEF RequestInvariant, Requested, PlanServed, Answered
<1> QED
  BY <1>1, RequestsAreAnswered, PTL

\* Whatever the owners of the artifacts answer, rr check says all is well only
\* when it is (check).
THEOREM VerdictsAreServed == RequestSpec => []VerdictServed
<1>1. RequestInvariant => VerdictServed
  BY CheckNeverHidesAFinding DEF RequestInvariant, Requested, VerdictServed, Answered
<1> QED
  BY <1>1, RequestsAreAnswered, PTL

----------------------------------------------------------------------------
(* The exact route of a question.                                          *)

\* Candidates with numbers to compare, told apart by their symbols.
IsField(P) ==
  /\ \A s \in P : s.overlap \in Nat /\ s.qual \in Nat /\ s.file \in Nat /\ s.line \in Nat /\ s.id \in Nat
  /\ \A s, t \in P : s.id = t.id => s = t

\* Candidates are ordered, the greatest overlap first (compare_scored).
LEMMA PrecedesOrders ==
  ASSUME NEW P, IsField(P)
  PROVE  /\ \A s, t \in P : s # t => Precedes(s, t) \/ Precedes(t, s)
         /\ \A s \in P : ~Precedes(s, s)
         /\ \A s, t, u \in P : Precedes(s, t) /\ Precedes(t, u) => Precedes(s, u)
         /\ \A s, t \in P : Precedes(s, t) => s.overlap >= t.overlap
<1> DEFINE Lex(a, b) ==
             \/ a.overlap > b.overlap
             \/ a.overlap = b.overlap /\ a.qual < b.qual
             \/ a.overlap = b.overlap /\ a.qual = b.qual /\ a.file < b.file
             \/ a.overlap = b.overlap /\ a.qual = b.qual /\ a.file = b.file /\ a.line < b.line
             \/ a.overlap = b.overlap /\ a.qual = b.qual /\ a.file = b.file /\ a.line = b.line /\ a.id < b.id
<1>1. ASSUME NEW s \in P, NEW t \in P PROVE Precedes(s, t) <=> Lex(s, t)
  <2> DEFINE a == ScoreKeys(s)
             b == ScoreKeys(t)
  <2>1. /\ a[1] = -s.overlap /\ a[2] = s.qual /\ a[3] = s.file /\ a[4] = s.line /\ a[5] = s.id
        /\ b[1] = -t.overlap /\ b[2] = t.qual /\ b[3] = t.file /\ b[4] = t.line /\ b[5] = t.id
    BY DEF ScoreKeys
  <2>2. Precedes(s, t) <=> \E i \in 1..5 : a[i] < b[i] /\ \A j \in 1..(i - 1) : a[j] = b[j]
    BY DEF Precedes
  <2> HIDE DEF a, b
  <2>3. (\E i \in 1..5 : a[i] < b[i] /\ \A j \in 1..(i - 1) : a[j] = b[j])
          <=> \/ a[1] < b[1]
              \/ a[1] = b[1] /\ a[2] < b[2]
              \/ a[1] = b[1] /\ a[2] = b[2] /\ a[3] < b[3]
              \/ a[1] = b[1] /\ a[2] = b[2] /\ a[3] = b[3] /\ a[4] < b[4]
              \/ a[1] = b[1] /\ a[2] = b[2] /\ a[3] = b[3] /\ a[4] = b[4] /\ a[5] < b[5]
    OBVIOUS
  <2> QED
    BY <2>1, <2>2, <2>3 DEF IsField
<1>2. \A s, t \in P : s # t => Lex(s, t) \/ Lex(t, s)
  BY DEF IsField
<1>3. \A s \in P : ~Lex(s, s)
  BY DEF IsField
<1>4. \A s, t, u \in P : Lex(s, t) /\ Lex(t, u) => Lex(s, u)
  BY DEF IsField
<1>5. \A s, t \in P : Lex(s, t) => s.overlap >= t.overlap
  BY DEF IsField
<1> HIDE DEF Lex
<1> QED
  BY <1>1, <1>2, <1>3, <1>4, <1>5

\* Of finitely many candidates one is the last.
LEMMA SomeLast ==
  ASSUME NEW P, IsField(P), NEW F \in SUBSET P, IsFiniteSet(F), F # {}
  PROVE  \E s \in F : \A t \in F \ {s} : Precedes(t, s)
<1> DEFINE R == {p \in F \X F : p[1] = p[2] \/ Precedes(p[2], p[1])}
<1>1. \A x, y \in F : <<x, y>> \in R <=> x = y \/ Precedes(y, x)
  OBVIOUS
<1>2. R \in SUBSET (F \X F)
  OBVIOUS
<1> HIDE DEF R
<1>3. \A x, y \in F : <<x, y>> \in R \/ <<y, x>> \in R
  BY <1>1, PrecedesOrders
<1>4. \A x, y, z \in F : <<x, y>> \in R /\ <<y, z>> \in R => <<x, z>> \in R
  BY <1>1, PrecedesOrders
<1>5. PICK s \in F : \A t \in F : <<s, t>> \in R
  BY <1>2, <1>3, <1>4, LeastElement
<1> QED
  BY <1>1, <1>5

\* What is held of the candidates seen: few, of distinct anchors, and each that was seen
\* is outdone by its anchor's or by all of as many as are held.
Covers(top, c) ==
  \/ \E t \in top : ShareOneAnchor(t, c) /\ t.overlap >= c.overlap
  \/ Cardinality(top) = TopPlaces /\ \A t \in top : t.overlap >= c.overlap
HoldsBest(top, seen) ==
  /\ top \in SUBSET seen /\ IsFiniteSet(top) /\ Cardinality(top) <= TopPlaces
  /\ \A s, t \in top : s # t => ~ShareOneAnchor(s, t)
  /\ \A c \in seen : Covers(top, c)

\* One more candidate is held, or outdone, and nothing held is forgotten
\* (retain_top_three).
LEMMA RetainHolds ==
  ASSUME NEW P, IsField(P), NEW seen \in SUBSET P, NEW top, HoldsBest(top, seen), NEW c \in P
  PROVE  HoldsBest(RetainTopThree(top, c), seen \cup {c})
<1> DEFINE twins == {held \in top : ShareOneAnchor(held, c)}
           fuller == (top \ twins) \cup {c}
           last == CHOOSE s \in fuller : \A t \in fuller \ {s} : Precedes(t, s)
           new == RetainTopThree(top, c)
<1>0. /\ top \in SUBSET P /\ IsFiniteSet(top) /\ Cardinality(top) \in Nat /\ Cardinality(top) <= TopPlaces
      /\ TopPlaces \in Nat /\ TopPlaces > 1
  BY FS_CardinalityType, RoutingAssumption DEF HoldsBest
<1>a. \A s, t, u : ShareOneAnchor(s, t) => ShareOneAnchor(t, s)
                   /\ (ShareOneAnchor(t, u) => ShareOneAnchor(s, u))
  BY DEF ShareOneAnchor
<1>b. ShareOneAnchor(c, c)
  BY DEF ShareOneAnchor
<1>n. \A s \in P : s.overlap \in Nat
  BY DEF IsField
<1>1. CASE \E held \in twins : ~Displaces(c, held)
  <2>1. new = top
    BY <1>1 DEF RetainTopThree
  <2>2. PICK held \in top : ShareOneAnchor(held, c) /\ ~Displaces(c, held)
    BY <1>1
  <2>3. c.overlap \in Nat /\ held.overlap \in Nat
    BY <1>0, <1>n
  <2>4. held.overlap >= c.overlap
    BY <2>2, <2>3 DEF Displaces
  <2>5. Covers(top, c)
    BY <2>2, <2>4 DEF Covers
  <2> QED
    BY <2>1, <2>5 DEF HoldsBest
<1>2. CASE \A held \in twins : Displaces(c, held)
  <2>1. new = IF Cardinality(fuller) > TopPlaces THEN fuller \ {last} ELSE fuller
    BY <1>2 DEF RetainTopThree
  <2>2. fuller \in SUBSET P /\ IsFiniteSet(top \ twins) /\ IsFiniteSet(fuller) /\ fuller # {} /\ c \in fuller
    BY <1>0, FS_Subset, FS_AddElement
  <2>3. last \in fuller /\ \A t \in fuller \ {last} : Precedes(t, last)
    <3> HIDE DEF fuller
    <3> QED
      BY <2>2, SomeLast
  <2>4. \A t \in fuller \ {last} : t.overlap >= last.overlap
    BY <2>2, <2>3, PrecedesOrders
  <2>5. c \notin top \ twins
    BY <1>b
  <2>6. /\ Cardinality(top \ twins) \in Nat /\ Cardinality(top \ twins) <= Cardinality(top)
        /\ Cardinality(fuller) = Cardinality(top \ twins) + 1
    BY <1>0, <2>2, <2>5, FS_Subset, FS_CardinalityType, FS_AddElement
  <2>7. \A h \in twins : c.overlap >= h.overlap
    BY <1>0, <1>2, <1>n DEF Displaces
  <2>8. twins # {} => Cardinality(fuller) = Cardinality(top)
    <3> SUFFICES ASSUME NEW h \in twins PROVE Cardinality(fuller) = Cardinality(top)
      OBVIOUS
    <3>1. \A g \in twins : g = h
      BY <1>a DEF HoldsBest
    <3>2. top \ twins = top \ {h} /\ h \in top
      BY <3>1
    <3>3. Cardinality(top \ {h}) = Cardinality(top) - 1
      BY <1>0, <3>2, FS_RemoveElement
    <3> QED
      BY <1>0, <2>6, <3>2, <3>3
  <2>9. \A s, t \in fuller : s # t => ~ShareOneAnchor(s, t)
    BY <1>a DEF HoldsBest
  <2>10. fuller \subseteq seen \cup {c}
    BY DEF HoldsBest
  <2>11. CASE Cardinality(fuller) > TopPlaces
    <3>1. new = fuller \ {last} /\ twins = {} /\ Cardinality(top) = TopPlaces
      BY <1>0, <2>1, <2>6, <2>8, <2>11
    <3>2. IsFiniteSet(new) /\ Cardinality(new) = TopPlaces
      <4> HIDE DEF last, new, fuller, twins
      <4>1. IsFiniteSet(fuller \ {last}) /\ Cardinality(fuller \ {last}) = Cardinality(fuller) - 1
        BY <2>2, <2>3, FS_RemoveElement
      <4>2. Cardinality(fuller) = TopPlaces + 1
        BY <1>0, <2>6, <2>11
      <4> QED
        BY <1>0, <3>1, <4>1, <4>2
    <3>3. ASSUME NEW d \in seen \cup {c} PROVE Covers(new, d)
      <4>0. d.overlap \in Nat /\ last.overlap \in Nat /\ d \in P /\ \A t \in fuller : t.overlap \in Nat
        BY <1>n, <2>2, <2>3
      <4>1. ASSUME NEW t \in fuller, ShareOneAnchor(t, d), t.overlap >= d.overlap PROVE Covers(new, d)
        <5>1. CASE t # last
          BY <3>1, <4>1, <5>1 DEF Covers
        <5>2. CASE t = last
          <6>1. \A u \in new : u.overlap >= d.overlap
            BY <2>4, <3>1, <4>0, <4>1, <5>2
          <6> QED
            BY <3>2, <6>1 DEF Covers
        <5> QED
          BY <5>1, <5>2
      <4>2. CASE d = c
        <5>1. c.overlap >= c.overlap
          BY <4>0, <4>2
        <5> QED
          BY <1>b, <2>2, <4>1, <4>2, <5>1
      <4>3. CASE d \in seen /\ \A t \in top : t.overlap >= d.overlap
        <5>1. \A u \in new : u.overlap >= d.overlap
          <6>1. CASE last = c
            BY <3>1, <4>3, <6>1
          <6>2. CASE last # c
            <7>1. last \in top
              BY <2>3, <6>2
            <7> QED
              BY <2>4, <3>1, <4>0, <4>3, <7>1
          <6> QED
            BY <6>1, <6>2
        <5> QED
          BY <3>2, <5>1 DEF Covers
      <4>4. CASE \E t \in top : ShareOneAnchor(t, d) /\ t.overlap >= d.overlap
        BY <3>1, <4>1, <4>4
      <4> QED
        BY <4>2, <4>3, <4>4 DEF HoldsBest, Covers
    <3> SUFFICES HoldsBest(new, seen \cup {c})
      OBVIOUS
    <3> HIDE DEF new, fuller
    <3> QED
      BY <1>0, <2>9, <2>10, <3>1, <3>2, <3>3 DEF HoldsBest
  <2>12. CASE ~(Cardinality(fuller) > TopPlaces)
    <3>1. new = fuller /\ Cardinality(fuller) <= TopPlaces
      BY <1>0, <2>1, <2>6, <2>12
    <3>3. ASSUME NEW d \in seen \cup {c} PROVE Covers(new, d)
      <4>0. d.overlap \in Nat /\ c.overlap \in Nat /\ \A t \in top : t.overlap \in Nat
        BY <1>0, <1>n
      <4>1. CASE d = c
        BY <1>b, <3>1, <4>0, <4>1 DEF Covers
      <4>2. CASE \E t \in top : ShareOneAnchor(t, d) /\ t.overlap >= d.overlap
        <5>1. PICK t \in top : ShareOneAnchor(t, d) /\ t.overlap >= d.overlap
          BY <4>2
        <5>2. CASE t \in twins
          <6>1. c.overlap >= d.overlap
            BY <2>7, <4>0, <5>1, <5>2
          <6>2. ShareOneAnchor(c, d)
            BY <1>a, <5>1, <5>2
          <6> QED
            BY <3>1, <6>1, <6>2 DEF Covers
        <5>3. CASE t \notin twins
          BY <3>1, <5>1, <5>3 DEF Covers
        <5> QED
          BY <5>2, <5>3
      <4>3. CASE Cardinality(top) = TopPlaces /\ \A t \in top : t.overlap >= d.overlap
        <5>1. twins # {}
          <6> SUFFICES ASSUME twins = {} PROVE FALSE
            OBVIOUS
          <6>1. top \ twins = top
            OBVIOUS
          <6> HIDE DEF twins, fuller
          <6> QED
            BY <1>0, <2>6, <2>12, <4>3, <6>1
        <5>2. PICK h \in twins : TRUE
          BY <5>1
        <5>3. c.overlap >= d.overlap
          BY <2>7, <4>0, <4>3, <5>2
        <5>4. Cardinality(new) = TopPlaces
          BY <2>8, <3>1, <4>3, <5>1
        <5>5. \A t \in new : t.overlap >= d.overlap
          BY <3>1, <4>3, <5>3
        <5> QED
          BY <5>4, <5>5 DEF Covers
      <4> QED
        BY <4>1, <4>2, <4>3 DEF HoldsBest, Covers
    <3> SUFFICES HoldsBest(new, seen \cup {c})
      OBVIOUS
    <3> HIDE DEF new, fuller
    <3> QED
      BY <2>2, <2>9, <2>10, <3>1, <3>3 DEF HoldsBest
  <2> QED
    BY <2>11, <2>12
<1> QED
  BY <1>1, <1>2
\* The symbols of a library are comparable candidates, whatever is asked of them.
LEMMA ScoredField ==
  ASSUME NEW snapshot, IsLibrary(snapshot), NEW rest, IsFiniteSet(rest)
  PROVE  /\ DOMAIN snapshot.symbols = 1..Cardinality(DOMAIN snapshot.symbols)
         /\ Cardinality(DOMAIN snapshot.symbols) \in Nat
         /\ IsField({Scored(snapshot, i, rest) : i \in DOMAIN snapshot.symbols})
<1> DEFINE symbols == snapshot.symbols
           P == {Scored(snapshot, i, rest) : i \in DOMAIN symbols}
<1>1. symbols \in Seq(Range(symbols))
  BY DEF IsLibrary
<1>2. DOMAIN symbols = 1..Len(symbols) /\ Len(symbols) \in Nat
  BY <1>1
<1>3. Cardinality(DOMAIN symbols) = Len(symbols)
  BY <1>2, FS_Interval
<1>4. ASSUME NEW i \in DOMAIN symbols
      PROVE  LET s == Scored(snapshot, i, rest) IN
             /\ s.overlap \in Nat /\ s.qual \in Nat /\ s.file \in Nat /\ s.line \in Nat
             /\ s.id = i /\ i \in Nat
  <2> DEFINE symbol == symbols[i]
             file == snapshot.files[symbol.file]
             named == rest \cap (symbol.words \cup file.words)
  <2>1. symbol \in Range(symbols)
    BY DEF Range
  <2>2. symbol.qual \in Nat /\ symbol.file \in Nat /\ symbol.line \in Nat
    BY <2>1 DEF IsLibrary
  <2>3. IsFiniteSet(named) /\ IsFiniteSet((rest \ named) \cap file.content)
    <3>1. named \subseteq rest /\ (rest \ named) \cap file.content \subseteq rest
      OBVIOUS
    <3> HIDE DEF named
    <3> QED
      BY <3>1, FS_Subset
  <2>4. Cardinality(named) \in Nat /\ Cardinality((rest \ named) \cap file.content) \in Nat
    BY <2>3, FS_CardinalityType
  <2>5. Overlap(snapshot, symbol, rest)
          = Cardinality(named) * FieldWeight + Cardinality((rest \ named) \cap file.content)
    BY DEF Overlap
  <2> HIDE DEF named
  <2>6. Overlap(snapshot, symbol, rest) \in Nat
    BY <2>4, <2>5, RoutingAssumption
  <2> HIDE DEF symbol
  <2>7. Scored(snapshot, i, rest).overlap = Overlap(snapshot, symbol, rest)
        /\ Scored(snapshot, i, rest).qual = symbol.qual /\ Scored(snapshot, i, rest).file = symbol.file
        /\ Scored(snapshot, i, rest).line = symbol.line /\ Scored(snapshot, i, rest).id = i
    BY DEF Scored, symbol
  <2> QED
    BY <1>2, <2>2, <2>6, <2>7
<1>5. IsField(P)
  <2>1. ASSUME NEW s \in P
        PROVE  /\ s.overlap \in Nat /\ s.qual \in Nat /\ s.file \in Nat /\ s.line \in Nat /\ s.id \in Nat
               /\ s = Scored(snapshot, s.id, rest)
    BY <1>4
  <2> HIDE DEF P
  <2> QED
    BY <2>1 DEF IsField
<1> QED
  BY <1>2, <1>3, <1>5

\* The fold over the symbols of ids holds the best of them (disambiguate_candidates).
LEMMA TopThreeHolds ==
  ASSUME NEW snapshot, IsLibrary(snapshot), NEW rest, IsFiniteSet(rest),
         NEW ids \in SUBSET DOMAIN snapshot.symbols
  PROVE  HoldsBest(TopThree(snapshot, rest, ids), {Scored(snapshot, i, rest) : i \in ids})
<1> DEFINE n == Cardinality(DOMAIN snapshot.symbols)
           Of(S) == {Scored(snapshot, i, rest) : i \in S}
           P == Of(DOMAIN snapshot.symbols)
           V == SUBSET P
           step == [p \in (1..n) \X V |->
                      IF p[1] \in ids THEN RetainTopThree(p[2], Scored(snapshot, p[1], rest)) ELSE p[2]]
           Folds(f) == f = [k \in 0..n |-> IF k = 0 THEN {}
                              ELSE IF k \in ids THEN RetainTopThree(f[k - 1], Scored(snapshot, k, rest))
                              ELSE f[k - 1]]
           top == CHOOSE f : Folds(f)
<1>0. n \in Nat /\ DOMAIN snapshot.symbols = 1..n /\ IsField(P)
  BY ScoredField
<1>c. \A i \in 1..n : Scored(snapshot, i, rest) \in P
  BY <1>0
<1>1. step \in [(1..n) \X V -> V]
  <2> SUFFICES ASSUME NEW t \in V, NEW c \in P PROVE RetainTopThree(t, c) \in V
    BY <1>c
  <2> HIDE DEF P
  <2> QED
    BY DEF RetainTopThree
<1>2. PICK d \in [0..n -> V] : Unrolls(d, n, {}, step)
  <2>1. {} \in V
    OBVIOUS
  <2> HIDE DEF step, V
  <2> QED
    BY <1>0, <1>1, <2>1, UnrollsExist
<1>3. d[0] = {} /\ \A k \in 1..n : d[k] = IF k \in ids THEN RetainTopThree(d[k - 1], Scored(snapshot, k, rest))
                                          ELSE d[k - 1]
  <2>1. ASSUME NEW k \in 1..n
        PROVE  d[k] = IF k \in ids THEN RetainTopThree(d[k - 1], Scored(snapshot, k, rest)) ELSE d[k - 1]
    <3>1. k - 1 \in 0..n /\ k \in 0..n
      BY <1>0
    <3> HIDE DEF V
    <3> QED
      BY <1>2, <3>1 DEF Unrolls
  <2> QED
    BY <1>2, <2>1 DEF Unrolls
<1>4. Folds(d)
  <2> HIDE DEF V
  <2> QED
    BY <1>3
<1>5. Folds(top)
  <2> HIDE DEF Folds
  <2> QED
    BY <1>4
<1>6. TopThree(snapshot, rest, ids) = top[n]
  BY DEF TopThree
<1> HIDE DEF top
<1>7. top[0] = {} /\ \A k \in 1..n : top[k] = IF k \in ids THEN RetainTopThree(top[k - 1], Scored(snapshot, k, rest))
                                              ELSE top[k - 1]
  <2>1. top = [k \in 0..n |-> IF k = 0 THEN {}
                              ELSE IF k \in ids THEN RetainTopThree(top[k - 1], Scored(snapshot, k, rest))
                              ELSE top[k - 1]]
    BY <1>5
  <2> HIDE DEF n, Folds
  <2>2. \A k \in 1..n : k \in 0..n /\ k # 0
    BY <1>0
  <2>3. 0 \in 0..n
    BY <1>0
  <2>4. top[0] = {}
    BY <2>1, <2>3
  <2>5. ASSUME NEW k \in 1..n
        PROVE  top[k] = IF k \in ids THEN RetainTopThree(top[k - 1], Scored(snapshot, k, rest)) ELSE top[k - 1]
    BY <2>1, <2>2
  <2> QED
    BY <2>4, <2>5
<1> HIDE DEF Folds
<1> DEFINE Good == {k \in 0..n : HoldsBest(top[k], Of(ids \cap (1..k)))}
<1>8. 0 \in Good
  <2>1. ids \cap (1..0) = {} /\ 0 \in 0..n
    BY <1>0
  <2>2. HoldsBest({}, {})
    BY FS_EmptySet, RoutingAssumption DEF HoldsBest
  <2>3. Of(ids \cap (1..0)) = {}
    BY <2>1
  <2> HIDE DEF Of
  <2> QED
    BY <1>7, <2>1, <2>2, <2>3
<1>9. ASSUME NEW k \in 0..(n - 1), k \in Good PROVE k + 1 \in Good
  <2>1. k + 1 \in 1..n /\ (k + 1) - 1 = k /\ k + 1 \in 0..n
    BY <1>0
  <2>2. CASE k + 1 \in ids
    <3>1. ids \cap (1..(k + 1)) = (ids \cap (1..k)) \cup {k + 1}
      BY <2>1, <2>2
    <3>2. Of(ids \cap (1..(k + 1))) = Of(ids \cap (1..k)) \cup {Scored(snapshot, k + 1, rest)}
      BY <3>1
    <3>3. top[k + 1] = RetainTopThree(top[k], Scored(snapshot, k + 1, rest))
      BY <1>7, <2>1, <2>2
    <3>4. Of(ids \cap (1..k)) \in SUBSET P /\ Scored(snapshot, k + 1, rest) \in P
      BY <1>c, <2>1
    <3>5. HoldsBest(top[k], Of(ids \cap (1..k)))
      BY <1>9
    <3> HIDE DEF Of, P
    <3>6. HoldsBest(RetainTopThree(top[k], Scored(snapshot, k + 1, rest)),
                    Of(ids \cap (1..k)) \cup {Scored(snapshot, k + 1, rest)})
      BY ONLY <1>0, <3>4, <3>5, RetainHolds
    <3>7. HoldsBest(top[k + 1], Of(ids \cap (1..(k + 1))))
      BY ONLY <3>2, <3>3, <3>6
    <3> QED
      BY <2>1, <3>7
  <2>3. CASE k + 1 \notin ids
    <3>1. ids \cap (1..(k + 1)) = ids \cap (1..k)
      BY <2>1, <2>3
    <3>2. top[k + 1] = top[k]
      BY <1>7, <2>1, <2>3
    <3> HIDE DEF Of
    <3> QED
      BY <1>9, <2>1, <3>1, <3>2
  <2> QED
    BY <2>2, <2>3
<1>10. n \in Good
  <2> HIDE DEF Good
  <2>1. \A k \in 0..n : k \in Good
    BY <1>0, <1>8, <1>9, InductionUpTo
  <2> QED
    BY <1>0, <2>1
<1>11. ids \cap (1..n) = ids
  BY <1>0
<1> HIDE DEF Of
<1> QED
  BY <1>6, <1>10, <1>11 DEF Of
IsSymbolic(said) ==
  said.outcome = "candidates" \/ (said.outcome = "direct" /\ said.target[1] = "symbol")

\* A choice among several symbols is fair (disambiguate_candidates).
LEMMA DisambiguationIsFair ==
  ASSUME NEW snapshot, IsLibrary(snapshot), NEW question, IsQuestion(question),
         NEW atom, NEW kind,
         NEW ids \in SUBSET DOMAIN snapshot.symbols, ids # {},
         ids = Meant(snapshot, question, question.tokens[atom], kind)
  PROVE  LET said == Disambiguate(snapshot, question.words \ question.tokens[atom].words, ids) IN
         said # Miss /\ IsSymbolic(said) /\ ChosenFairly(snapshot, question, atom, kind, said)
<1> DEFINE rest == question.words \ question.tokens[atom].words
           symbols == snapshot.symbols
           At(i) == Scored(snapshot, i, rest)
           Score(i) == Overlap(snapshot, symbols[i], rest)
           Twins(i, j) == ShareOneAnchor(symbols[i], symbols[j])
           top == TopThree(snapshot, rest, ids)
           leads == {s \in top : s.overlap > 0 /\ \A t \in top \ {s} : s.overlap > t.overlap}
           said == Disambiguate(snapshot, rest, ids)
<1>1. IsFiniteSet(rest)
  BY FS_Subset DEF IsQuestion
<1>2. HoldsBest(top, {At(i) : i \in ids}) /\ IsField({At(i) : i \in DOMAIN symbols})
  <2> HIDE DEF rest
  <2> QED
    BY <1>1, TopThreeHolds, ScoredField
<1>3. \A i : At(i).id = i /\ At(i).overlap = Score(i)
  BY DEF Scored
<1>4. \A i, j : ShareOneAnchor(At(i), At(j)) <=> Twins(i, j)
  BY DEF Scored, ShareOneAnchor
<1>5. \A i \in ids : Score(i) \in Nat
  <2> HIDE DEF At, Score
  <2> QED
    BY <1>2, <1>3 DEF IsField
<1>6. \A s \in top : s.id \in ids /\ s = At(s.id)
  <2> HIDE DEF top, At
  <2> QED
    BY <1>2, <1>3 DEF HoldsBest
<1>7. said = IF leads # {} THEN Direct(<<"symbol", (CHOOSE s \in leads : TRUE).id>>)
               ELSE [outcome |-> "candidates", targets |-> {s.id : s \in top}]
  BY DEF Disambiguate
<1>8. \A i \in ids : Covers(top, At(i))
  BY <1>2 DEF HoldsBest
<1>9. IsFiniteSet(top) /\ Cardinality(top) <= TopPlaces /\ \A s, t \in top : s # t => ~ShareOneAnchor(s, t)
  BY <1>2 DEF HoldsBest
<1> HIDE DEF top, rest, At, Score, Twins
<1>10. CASE leads # {}
  <2> DEFINE s == CHOOSE x \in leads : TRUE
  <2>1. s \in top /\ s.overlap > 0 /\ \A t \in top \ {s} : s.overlap > t.overlap
    BY <1>10
  <2>2. said = Direct(<<"symbol", s.id>>)
    BY <1>7, <1>10
  <2> HIDE DEF s, said, leads
  <2>3. /\ said.outcome = "direct" /\ said.target[1] = "symbol" /\ said.target[2] = s.id
        /\ said # Miss
    BY <2>2 DEF Direct, Miss
  <2>4. s.id \in ids /\ s = At(s.id) /\ s.overlap = Score(s.id)
    BY <1>3, <1>6, <2>1
  <2>5. ASSUME NEW i \in ids, ~Twins(i, s.id) PROVE Score(i) < Score(s.id)
    <3>0. Score(i) \in Nat /\ Score(s.id) \in Nat
      BY <1>5, <2>4
    <3>1. ASSUME NEW t \in top \ {s}, t.overlap >= Score(i) PROVE Score(i) < Score(s.id)
      <4>1. t.overlap \in Nat /\ s.overlap > t.overlap
        BY <1>3, <1>5, <1>6, <2>1
      <4> QED
        BY <2>4, <3>0, <3>1, <4>1
    <3>2. CASE \E t \in top : ShareOneAnchor(t, At(i)) /\ t.overlap >= At(i).overlap
      <4>1. PICK t \in top : ShareOneAnchor(t, At(i)) /\ t.overlap >= At(i).overlap
        BY <3>2
      <4>2. t # s
        <5> SUFFICES ASSUME t = s PROVE FALSE
          OBVIOUS
        <5>1. ShareOneAnchor(At(s.id), At(i))
          BY <2>4, <4>1
        <5>2. ShareOneAnchor(At(i), At(s.id))
          BY <5>1 DEF ShareOneAnchor
        <5> QED
          BY <1>4, <2>5, <5>2
      <4> QED
        BY <1>3, <3>1, <4>1, <4>2
    <3>3. CASE Cardinality(top) = TopPlaces /\ \A t \in top : t.overlap >= At(i).overlap
      <4>1. PICK t \in top : t # s
        <5> SUFFICES ASSUME top \subseteq {s} PROVE FALSE
          OBVIOUS
        <5>1. top = {s}
          BY <2>1
        <5>2. Cardinality(top) = 1
          BY <5>1, FS_Singleton
        <5> QED
          BY <3>3, <5>2, RoutingAssumption
      <4> QED
        BY <1>3, <3>1, <3>3, <4>1
    <3> QED
      BY <1>8, <3>2, <3>3 DEF Covers
  <2>6. ChosenFairly(snapshot, question, atom, kind, said)
    BY <2>3, <2>4, <2>5 DEF ChosenFairly, Score, Twins, rest
  <2> QED
    BY <2>3, <2>6 DEF IsSymbolic, said, rest
<1>11. CASE leads = {}
  <2> DEFINE targets == {s.id : s \in top}
  <2>1. said = [outcome |-> "candidates", targets |-> targets]
    BY <1>7, <1>11
  <2>2. targets # {}
    <3>1. PICK i \in ids : TRUE
      OBVIOUS
    <3>2. CASE top = {}
      <4>1. Cardinality(top) = 0
        BY <3>2, FS_EmptySet
      <4> QED
        BY <1>8, <3>1, <3>2, <4>1, RoutingAssumption DEF Covers
    <3> QED
      BY <3>2
  <2>3. Cardinality(targets) <= TopPlaces
    <3> DEFINE id == [s \in top |-> s.id]
    <3>1. id \in Surjection(top, targets)
      BY DEF Surjection
    <3> HIDE DEF targets, id
    <3>2. IsFiniteSet(targets) /\ Cardinality(targets) <= Cardinality(top)
      BY <1>9, <3>1, FS_Surjection
    <3> QED
      BY <1>9, <3>2, FS_CardinalityType, RoutingAssumption
  <2>4. targets \subseteq ids
    BY <1>6
  <2>5. \A i, j \in targets : i # j => ~Twins(i, j)
    <3> SUFFICES ASSUME NEW s \in top, NEW t \in top, s.id # t.id PROVE ~Twins(s.id, t.id)
      OBVIOUS
    <3>1. ~ShareOneAnchor(s, t)
      BY <1>9
    <3> QED
      BY <1>4, <1>6, <3>1
  <2> HIDE DEF targets, said, leads
  <2>6. said.outcome = "candidates" /\ said.targets = targets /\ said # Miss /\ said.outcome # "direct"
    BY <2>1 DEF Miss
  <2>7. ChosenFairly(snapshot, question, atom, kind, said)
    BY <2>2, <2>3, <2>4, <2>5, <2>6 DEF ChosenFairly, Twins
  <2> QED
    BY <2>6, <2>7 DEF IsSymbolic, said, rest
<1> QED
  BY <1>10, <1>11

\* What is evaluated is fair, and no miss if anything is meant (evaluate_symbol_candidates).
LEMMA EvaluationIsFair ==
  ASSUME NEW snapshot, IsLibrary(snapshot), NEW question, IsQuestion(question), NEW atom, NEW kind
  PROVE  LET token == question.tokens[atom]
             said == Evaluate(snapshot, question, token, kind)
         IN  IF Meant(snapshot, question, token, kind) = {} THEN said = Miss
             ELSE said # Miss /\ IsSymbolic(said) /\ ChosenFairly(snapshot, question, atom, kind, said)
<1> DEFINE token == question.tokens[atom]
           ids == Meant(snapshot, question, token, kind)
           said == Evaluate(snapshot, question, token, kind)
<1>1. ids \in SUBSET DOMAIN snapshot.symbols
  BY DEF Meant, InFile, Named
<1>2. CASE ids = {}
  BY <1>2 DEF Evaluate
<1>3. CASE \E i \in ids : ids = {i}
  <2>1. PICK i \in ids : ids = {i}
    BY <1>3
  <2>2. said = Direct(<<"symbol", CHOOSE j \in ids : TRUE>>) /\ (CHOOSE j \in ids : TRUE) = i
    BY <1>3, <2>1 DEF Evaluate
  <2>3. /\ said.outcome = "direct" /\ said.target[1] = "symbol" /\ said.target[2] = i
        /\ said # Miss
    BY <2>2 DEF Direct, Miss
  <2>4. ChosenFairly(snapshot, question, atom, kind, said)
    <3> HIDE DEF said
    <3> QED
      BY <2>1, <2>3 DEF ChosenFairly, ShareOneAnchor
  <2> QED
    BY <2>1, <2>3, <2>4 DEF IsSymbolic
<1>4. CASE ids # {} /\ ~\E i \in ids : ids = {i}
  <2>1. said = Disambiguate(snapshot, question.words \ token.words, ids)
    BY <1>4 DEF Evaluate
  <2> HIDE DEF said
  <2> QED
    BY <1>1, <1>4, <2>1, DisambiguationIsFair DEF said
<1> QED
  BY <1>2, <1>3, <1>4
\* The first that is no miss, if one is none.
LEMMA FirstHitIsAHit ==
  ASSUME NEW outcomes, DOMAIN outcomes \in SUBSET Nat
  PROVE  IF \A i \in DOMAIN outcomes : outcomes[i] = Miss THEN FirstHit(outcomes) = Miss
         ELSE /\ FirstHit(outcomes) # Miss
              /\ \E i \in DOMAIN outcomes : FirstHit(outcomes) = outcomes[i]
<1> DEFINE hits == {i \in DOMAIN outcomes : outcomes[i] # Miss}
<1>1. FirstHit(outcomes) = IF hits = {} THEN Miss ELSE outcomes[Min(hits)]
  BY DEF FirstHit
<1>2. hits # {} => Min(hits) \in hits
  <2>1. hits \in SUBSET Nat
    OBVIOUS
  <2> HIDE DEF hits
  <2> QED
    BY <2>1, MinIsLeast
<1> QED
  BY <1>1, <1>2

\* Of three, the first that is no miss.
LEMMA FirstOfThree ==
  ASSUME NEW x, NEW y, NEW z
  PROVE  FirstHit(<<x, y, z>>) = IF x # Miss THEN x ELSE IF y # Miss THEN y ELSE z
<1> DEFINE outcomes == <<x, y, z>>
           hits == {i \in DOMAIN outcomes : outcomes[i] # Miss}
<1>1. DOMAIN outcomes = 1..3 /\ outcomes[1] = x /\ outcomes[2] = y /\ outcomes[3] = z
  OBVIOUS
<1>2. FirstHit(outcomes) = IF hits = {} THEN Miss ELSE outcomes[Min(hits)]
  BY DEF FirstHit
<1> HIDE DEF outcomes
<1>3. hits # {} => Min(hits) \in hits /\ \A i \in hits : Min(hits) <= i
  <2>1. hits \in SUBSET Nat
    BY <1>1
  <2> HIDE DEF hits
  <2> QED
    BY <2>1, MinIsLeast
<1>4. CASE x # Miss
  <2>1. 1 \in hits
    BY <1>1, <1>4
  <2>2. Min(hits) = 1
    BY <1>1, <1>3, <2>1
  <2> QED
    BY <1>1, <1>2, <1>4, <2>1, <2>2 DEF outcomes
<1>5. CASE x = Miss /\ y # Miss
  <2>1. 2 \in hits /\ 1 \notin hits
    BY <1>1, <1>5
  <2>2. Min(hits) = 2
    BY <1>1, <1>3, <2>1
  <2> QED
    BY <1>1, <1>2, <1>5, <2>1, <2>2 DEF outcomes
<1>6. CASE x = Miss /\ y = Miss /\ z # Miss
  <2>1. 3 \in hits /\ 1 \notin hits /\ 2 \notin hits
    BY <1>1, <1>6
  <2>2. Min(hits) = 3
    BY <1>1, <1>3, <2>1
  <2> QED
    BY <1>1, <1>2, <1>6, <2>1, <2>2 DEF outcomes
<1>7. CASE x = Miss /\ y = Miss /\ z = Miss
  <2>1. hits = {}
    BY <1>1, <1>7
  <2> QED
    BY <1>2, <1>7, <2>1 DEF outcomes
<1> QED
  BY <1>4, <1>5, <1>6, <1>7

\* Whatever a repository holds and is asked, a name that exists where the question
\* looks decides, an ambiguous one is not chosen unfairly, and --path is never
\* contradicted (route_exact).
THEOREM RoutesAreHonest ==
  ASSUME NEW snapshot, NEW question, IsLibrary(snapshot), IsQuestion(question)
  PROVE  RouteIsHonest(snapshot, question, RouteExact(snapshot, question))
<1> DEFINE Outcomes(kind) == [i \in Atoms(question, kind) |->
                                Evaluate(snapshot, question, question.tokens[i], kind)]
           Try(kind) == FirstHit(Outcomes(kind))
           Found(kind) == {a \in Atoms(question, kind) :
                             Meant(snapshot, question, question.tokens[a], kind) # {}}
           allowed == {i \in PathAtoms(question) : question.path \in {Nowhere, question.tokens[i].file}}
           place == IF allowed = {} THEN Miss ELSE Direct(<<"file", question.tokens[Min(allowed)].file>>)
           said == RouteExact(snapshot, question)
<1>1. \A kind : Atoms(question, kind) \in SUBSET Nat
  BY DEF Atoms, IsQuestion
<1>2. ASSUME NEW kind
      PROVE  IF Found(kind) = {} THEN Try(kind) = Miss
             ELSE /\ Try(kind) # Miss /\ IsSymbolic(Try(kind))
                  /\ \E a \in Found(kind) : ChosenFairly(snapshot, question, a, kind, Try(kind))
  <2> DEFINE outcomes == Outcomes(kind)
  <2>1. DOMAIN outcomes = Atoms(question, kind) /\ DOMAIN outcomes \in SUBSET Nat
    BY <1>1
  <2>2. \A a \in Atoms(question, kind) :
          IF a \notin Found(kind) THEN outcomes[a] = Miss
          ELSE /\ outcomes[a] # Miss /\ IsSymbolic(outcomes[a])
               /\ ChosenFairly(snapshot, question, a, kind, outcomes[a])
    BY EvaluationIsFair
  <2>3. Found(kind) \subseteq Atoms(question, kind)
    OBVIOUS
  <2> HIDE DEF outcomes, Found
  <2>4. IF \A i \in DOMAIN outcomes : outcomes[i] = Miss THEN FirstHit(outcomes) = Miss
        ELSE /\ FirstHit(outcomes) # Miss
             /\ \E i \in DOMAIN outcomes : FirstHit(outcomes) = outcomes[i]
    BY <2>1, FirstHitIsAHit
  <2>5. CASE Found(kind) = {}
    BY <2>1, <2>2, <2>4, <2>5 DEF outcomes
  <2>6. CASE Found(kind) # {}
    <3>1. PICK i \in DOMAIN outcomes : FirstHit(outcomes) = outcomes[i] /\ outcomes[i] # Miss
      BY <2>1, <2>2, <2>3, <2>4, <2>6
    <3>2. i \in Found(kind) /\ IsSymbolic(outcomes[i]) /\ ChosenFairly(snapshot, question, i, kind, outcomes[i])
      BY <2>1, <2>2, <3>1
    <3> QED
      BY <2>6, <3>1, <3>2 DEF outcomes
  <2> QED
    BY <2>5, <2>6
<1>3. said = IF question.given /\ question.path = Nowhere THEN Miss
               ELSE FirstHit(<<Try("qualified"), Try("symbol"), place>>)
  BY DEF RouteExact
<1>4. place = Miss \/ (/\ place.outcome = "direct" /\ place.target[1] = "file"
                       /\ question.path \in {Nowhere, place.target[2]})
  <2>1. allowed # {} => Min(allowed) \in allowed
    <3>1. allowed \in SUBSET Nat
      BY <1>1 DEF PathAtoms
    <3> HIDE DEF allowed
    <3> QED
      BY <3>1, MinIsLeast
  <2> QED
    BY <2>1 DEF Direct
<1> HIDE DEF Try, place, said, Found, Outcomes
<1>5. FirstHit(<<Try("qualified"), Try("symbol"), place>>)
        = IF Try("qualified") # Miss THEN Try("qualified")
          ELSE IF Try("symbol") # Miss THEN Try("symbol") ELSE place
  BY FirstOfThree
<1>6. CASE question.given /\ question.path = Nowhere
  BY <1>3, <1>6 DEF RouteIsHonest, said
<1>7. CASE ~(question.given /\ question.path = Nowhere) /\ Found("qualified") # {}
  <2>1. said = Try("qualified")
    BY <1>2, <1>3, <1>5, <1>7
  <2>2. IsSymbolic(said) /\ \E a \in Found("qualified") : ChosenFairly(snapshot, question, a, "qualified", said)
    BY <1>2, <1>7, <2>1
  <2> QED
    BY <1>7, <2>2 DEF RouteIsHonest, IsSymbolic, Found, said
<1>8. CASE ~(question.given /\ question.path = Nowhere) /\ Found("qualified") = {} /\ Found("symbol") # {}
  <2>1. said = Try("symbol")
    BY <1>2, <1>3, <1>5, <1>8
  <2>2. IsSymbolic(said) /\ \E a \in Found("symbol") : ChosenFairly(snapshot, question, a, "symbol", said)
    BY <1>2, <1>8, <2>1
  <2> QED
    BY <1>8, <2>2 DEF RouteIsHonest, IsSymbolic, Found, said
<1>9. CASE ~(question.given /\ question.path = Nowhere) /\ Found("qualified") = {} /\ Found("symbol") = {}
  <2>1. said = place
    BY <1>2, <1>3, <1>5, <1>9
  <2> QED
    BY <1>4, <1>9, <2>1 DEF RouteIsHonest, Found, said
<1> QED
  BY <1>6, <1>7, <1>8, <1>9

\* Whatever is asked of whatever repository, the exact route is honest.
THEOREM RoutesAreServed == RequestSpec => []RouteServed
<1>1. RequestInvariant => RouteServed
  BY RoutesAreHonest DEF RequestInvariant, Requested, RouteServed, Answered
<1> QED
  BY <1>1, RequestsAreAnswered, PTL

\* Whatever rr init finds, it keeps what is not rr's, tells what it did and is done when it
\* is (run).
THEOREM InitsAreServed == RequestSpec => []InitServed
<1>1. RequestInvariant => InitServed
  BY InitsAreCareful DEF RequestInvariant, Requested, InitServed, Answered
<1> QED
  BY <1>1, RequestsAreAnswered, PTL

----------------------------------------------------------------------------
(* Declared access: what a declaration opens with.                         *)

\* The text holds the part behind its first o places.
Holds(text, o, part) ==
  o + Len(part) <= Len(text) /\ \A i \in 1..Len(part) : text[o + i] = part[i]
\* The places of the text a set of places of that part is at.
Displaced(places, o) == {o + i : i \in places}

\* As many places as were moved.
LEMMA DisplacedCounts ==
  ASSUME NEW places, IsFiniteSet(places), places \in SUBSET Int, NEW o \in Int
  PROVE  IsFiniteSet(Displaced(places, o)) /\ Cardinality(Displaced(places, o)) = Cardinality(places)
<1> DEFINE f == [i \in places |-> o + i]
           M == Displaced(places, o)
<1>1. /\ f \in [places -> M]
      /\ \A i, j \in places : f[i] = f[j] => i = j
      /\ \A m \in M : \E i \in places : f[i] = m
  BY DEF Displaced
<1> HIDE DEF f, M
<1>2. f \in Bijection(places, M)
  BY <1>1 DEF Bijection, Injection, Surjection, IsInjective
<1>3. ExistsBijection(places, M)
  BY <1>2 DEF ExistsBijection
<1>4. IsFiniteSet(M) /\ Cardinality(M) = Cardinality(places)
  BY <1>3, FS_Bijection
<1> QED
  BY <1>4 DEF M

\* The places that hold a token of a kind.
Holding(text, places, kind) == {i \in places : text[i] \in kind}

\* As many of the moved places hold a token of a kind.
LEMMA KindsMove ==
  ASSUME NEW text, NEW part, NEW o \in Nat, Holds(text, o, part), Len(part) \in Nat,
         NEW places \in SUBSET (1..Len(part)), NEW kind
  PROVE  Cardinality(Holding(text, Displaced(places, o), kind)) = Cardinality(Holding(part, places, kind))
<1> DEFINE A == Holding(part, places, kind)
           B == Holding(text, Displaced(places, o), kind)
           n == Len(part)
<1>1. B = Displaced(A, o)
  <2>1. \A i \in places : text[o + i] = part[i]
    BY DEF Holds
  <2> QED
    BY <2>1 DEF Displaced, Holding
<1>2. A \in SUBSET (1..n)
  BY DEF Holding
<1>6. 1..n \in SUBSET Int /\ o \in Int
  OBVIOUS
<1>3. IsFiniteSet(1..n)
  <2>1. n \in Nat
    OBVIOUS
  <2> HIDE DEF n
  <2> QED
    BY <2>1, FS_Interval
<1> HIDE DEF A, B, n
<1>4. IsFiniteSet(A) /\ A \in SUBSET Int
  BY <1>2, <1>3, <1>6, FS_Subset
<1>5. Cardinality(B) = Cardinality(A)
  BY <1>1, <1>4, <1>6, DisplacedCounts
<1> QED
  BY <1>5 DEF A, B

\* Brackets are as open behind the moved places.
LEMMA DepthMoves ==
  ASSUME NEW text, NEW part, NEW o \in Nat, Holds(text, o, part), Len(part) \in Nat,
         NEW places \in SUBSET (1..Len(part))
  PROVE  Depth(text, Displaced(places, o)) = Depth(part, places)
<1>1. /\ Cardinality(Holding(text, Displaced(places, o), Opening)) = Cardinality(Holding(part, places, Opening))
      /\ Cardinality(Holding(text, Displaced(places, o), Closing)) = Cardinality(Holding(part, places, Closing))
  BY KindsMove
<1> QED
  BY <1>1 DEF Depth, Holding

\* The places from one to another, moved.
LEMMA IntervalMoves ==
  ASSUME NEW o \in Nat, NEW a \in Int, NEW b \in Int
  PROVE  Displaced(a..b, o) = (o + a)..(o + b)
<1>1. ASSUME NEW i \in (o + a)..(o + b) PROVE i \in Displaced(a..b, o)
  <2>1. i - o \in a..b /\ o + (i - o) = i
    BY <1>1
  <2> QED
    BY <2>1 DEF Displaced
<1> QED
  BY <1>1 DEF Displaced

\* A decoration that closes where it ends, also if the brackets in its strings are counted.
ReadsWhole(d) ==
  /\ Len(d) > 1 /\ d[1] \in {"@", "#["} /\ d[Len(d)] = Blank /\ Depth(d, 1..(Len(d) - 1)) = 0
  /\ \A i \in 2..(Len(d) - 1) :
       d[i] \in Closing \cup {Blank} \/ d[i - 1] \in Closing => Depth(d, 1..(i - 1)) # 0

\* Where no string holds a bracket, to count them all is to count the bare ones.
LEMMA NoneIsQuoted ==
  ASSUME NEW d, Len(d) \in Nat, DOMAIN d = 1..Len(d), ~QuotesBracket(d), NEW k \in 0..Len(d)
  PROVE  /\ Depth(d, Bare(d, 1, k)) = Depth(d, 1..k)
         /\ \A i \in 1..k : d[i] \in Opening \cup Closing => i \in Bare(d, 1, i)
<1> DEFINE even(i) == Cardinality({j \in 1..(i - 1) : d[j] = "\""}) % 2 = 0
<1>1. \A i \in 1..k : d[i] \in Opening \cup Closing => i \in Bare(d, 1, i)
  BY DEF QuotesBracket
<1>2. \A i \in 1..k : i \in Bare(d, 1, i) => even(i)
  BY DEF Bare
<1>3. Bare(d, 1, k) = {i \in 1..k : even(i)}
  BY DEF Bare
<1> HIDE DEF even
<1>4. {i \in Bare(d, 1, k) : d[i] \in Opening} = {i \in 1..k : d[i] \in Opening}
  BY <1>1, <1>2, <1>3
<1>5. {i \in Bare(d, 1, k) : d[i] \in Closing} = {i \in 1..k : d[i] \in Closing}
  BY <1>1, <1>2, <1>3
<1>6. Depth(d, Bare(d, 1, k)) = Depth(d, 1..k)
  BY <1>4, <1>5 DEF Depth
<1> QED
  BY <1>1, <1>6

\* So such a decoration reads whole.
LEMMA PlainReadsWhole ==
  ASSUME NEW d, Len(d) \in Nat, DOMAIN d = 1..Len(d), IsDecoration(d), ~QuotesBracket(d)
  PROVE  ReadsWhole(d)
<1> DEFINE last == Len(d) - 1
<1>1. last \in Nat /\ last > 0 /\ d[1] \in {"@", "#["} /\ d[Len(d)] = Blank
  BY DEF IsDecoration
<1>2. Depth(d, 1..last) = 0
  <2>1. last \in 0..Len(d)
    BY <1>1
  <2>2. Depth(d, Bare(d, 1, last)) = Depth(d, 1..last)
    BY <2>1, NoneIsQuoted
  <2> QED
    BY <2>2 DEF IsDecoration
<1>3. ASSUME NEW i \in 2..last, d[i] \in Closing \cup {Blank} \/ d[i - 1] \in Closing
      PROVE  Depth(d, 1..(i - 1)) # 0
  <2>1. i \in 0..Len(d) /\ i \in 1..i /\ i - 1 \in 0..Len(d) /\ i - 1 \in 1..(i - 1)
    BY <1>1
  <2>2. d[i] \in Closing => i \in Bare(d, 1, i)
    BY <2>1, NoneIsQuoted
  <2>3. d[i - 1] \in Closing => i - 1 \in Bare(d, 1, i - 1)
    BY <2>1, NoneIsQuoted
  <2>4. Depth(d, Bare(d, 1, i - 1)) # 0
    BY <1>3, <2>2, <2>3 DEF IsDecoration
  <2>5. Depth(d, Bare(d, 1, i - 1)) = Depth(d, 1..(i - 1))
    BY <2>1, NoneIsQuoted
  <2> QED
    BY <2>4, <2>5
<1> QED
  BY <1>1, <1>2, <1>3 DEF ReadsWhole

\* A decoration that reads whole ends at the blank that follows it, wherever it is in the text.
LEMMA DecorationEnds ==
  ASSUME NEW T, NEW text \in Seq(T), NEW part, Len(part) \in Nat, ReadsWhole(part),
         NEW o \in Nat, Holds(text, o, part)
  PROVE  DecorationEnd(text, o + 1) = o + Len(part)
<1> DEFINE from == o + 1
           n == Len(part)
           ends == {i \in (from + 1)..Len(text) :
                      text[i] \in Closing \cup {Blank} /\ Depth(text, from..(i - 1)) = 0}
           closes == {i \in (from + 1)..(Len(text) + 1) :
                        text[i - 1] \in Closing /\ Depth(text, from..(i - 1)) = 0}
           E == ends \cup closes \cup {Len(text) + 1}
<1>1. n > 1 /\ o + n <= Len(text) /\ Len(text) \in Nat
  BY DEF ReadsWhole, Holds
<1>2. ASSUME NEW j \in 2..n
      PROVE  /\ Depth(text, from..(o + j - 1)) = Depth(part, 1..(j - 1))
             /\ text[o + j] = part[j] /\ text[o + j - 1] = part[j - 1]
  <2>1. Displaced(1..(j - 1), o) = from..(o + j - 1)
    <3>1. o + (j - 1) = o + j - 1
      BY <1>2
    <3> QED
      BY <1>2, <3>1, IntervalMoves
  <2>2. 1..(j - 1) \in SUBSET (1..Len(part))
    BY <1>1
  <2>3. j \in 1..Len(part) /\ j - 1 \in 1..Len(part) /\ o + (j - 1) = o + j - 1
    BY <1>1
  <2>4. Depth(text, Displaced(1..(j - 1), o)) = Depth(part, 1..(j - 1))
    <3> DEFINE places == 1..(j - 1)
    <3>1. places \in SUBSET (1..Len(part))
      BY <2>2
    <3> HIDE DEF places
    <3>2. Depth(text, Displaced(places, o)) = Depth(part, places)
      BY <3>1, DepthMoves
    <3> QED
      BY <3>2 DEF places
  <2> QED
    BY <2>1, <2>3, <2>4 DEF Holds
<1>3. o + n \in ends
  <2>1. o + n \in (from + 1)..Len(text) /\ n \in 2..n
    BY <1>1
  <2>2. text[o + n] = Blank /\ Depth(text, from..(o + n - 1)) = 0
    BY <1>2, <2>1 DEF ReadsWhole
  <2> QED
    BY <2>1, <2>2
<1>4. ASSUME NEW i \in E, i < o + n PROVE FALSE
  <2>1. i - o \in 2..(n - 1) /\ o + (i - o) = i /\ o + (i - o) - 1 = i - 1 /\ i - o \in 2..n
    BY <1>1, <1>4
  <2>2. Depth(part, 1..(i - o - 1)) = 0 /\ (part[i - o] \in Closing \cup {Blank} \/ part[i - o - 1] \in Closing)
    <3>1. /\ Depth(text, from..(i - 1)) = Depth(part, 1..(i - o - 1))
          /\ text[i] = part[i - o] /\ text[i - 1] = part[i - o - 1]
      BY <1>2, <2>1
    <3>2. i \in ends \/ i \in closes
      BY <1>1, <1>4
    <3> QED
      BY <3>1, <3>2
  <2> QED
    BY <2>1, <2>2 DEF ReadsWhole
<1>5. E \in SUBSET Nat /\ o + n \in E
  BY <1>1, <1>3
<1>6. DecorationEnd(text, from) = Min(E)
  BY DEF DecorationEnd
<1> HIDE DEF E
<1>7. Min(E) \in E /\ Min(E) <= o + n
  BY <1>5, MinIsLeast
<1>8. Min(E) \in Nat /\ o + n \in Nat /\ ~(Min(E) < o + n)
  BY <1>1, <1>4, <1>5, <1>7
<1> QED
  BY <1>6, <1>7, <1>8

\* A decoration ends behind where it opens, at the latest behind the text.
LEMMA EndsAreInside ==
  ASSUME NEW T, NEW text \in Seq(T), NEW from \in 1..Len(text)
  PROVE  /\ DecorationEnd(text, from) \in 1..(Len(text) + 1)
         /\ AttributeEnd(text, from) \in 1..(Len(text) + 1)
<1>1. Len(text) \in Nat
  OBVIOUS
<1>2. DecorationEnd(text, from) \in 1..(Len(text) + 1)
  <2> DEFINE ends == {i \in (from + 1)..Len(text) :
                        text[i] \in Closing \cup {Blank} /\ Depth(text, from..(i - 1)) = 0}
             closes == {i \in (from + 1)..(Len(text) + 1) :
                          text[i - 1] \in Closing /\ Depth(text, from..(i - 1)) = 0}
             E == ends \cup closes \cup {Len(text) + 1}
  <2>1. E \in SUBSET (1..(Len(text) + 1)) /\ E # {}
    BY <1>1
  <2>2. DecorationEnd(text, from) = Min(E)
    BY DEF DecorationEnd
  <2> HIDE DEF E
  <2>3. E \in SUBSET Nat
    BY <1>1, <2>1
  <2>4. Min(E) \in E
    BY <2>1, <2>3, MinIsLeast
  <2> QED
    BY <2>1, <2>2, <2>4
<1>3. AttributeEnd(text, from) \in 1..(Len(text) + 1)
  <2> DEFINE closes == {i \in (from + 1)..(Len(text) + 1) :
                          /\ text[i - 1] \in Closing /\ i - 1 \in Bare(text, from, i - 1)
                          /\ Depth(text, Bare(text, from, i - 1)) = 0}
             E == closes \cup {Len(text) + 1}
  <2>1. E \in SUBSET (1..(Len(text) + 1)) /\ E # {}
    BY <1>1
  <2>2. AttributeEnd(text, from) = Min(E)
    BY DEF AttributeEnd
  <2> HIDE DEF E
  <2>3. E \in SUBSET Nat
    BY <1>1, <2>1
  <2>4. Min(E) \in E
    BY <2>1, <2>3, MinIsLeast
  <2> QED
    BY <2>1, <2>2, <2>4
<1> QED
  BY <1>2, <1>3

\* The quotes behind a place.
QuotesBehind(text, from, i) == Holding(text, from..(i - 1), {"\""})

\* What is in no string of a part is in none where the text holds it.
LEMMA BareMoves ==
  ASSUME NEW text, NEW part, NEW o \in Nat, Holds(text, o, part), Len(part) \in Nat,
         NEW j \in 1..Len(part)
  PROVE  Bare(text, o + 1, o + j) = Displaced(Bare(part, 1, j), o)
<1>1. ASSUME NEW i \in 1..j
      PROVE  Cardinality(QuotesBehind(text, o + 1, o + i)) = Cardinality(QuotesBehind(part, 1, i))
  <2> DEFINE places == 1..(i - 1)
             quote == {"\""}
  <2>1. Displaced(1..(i - 1), o) = (o + 1)..(o + i - 1)
    <3>1. o + (i - 1) = o + i - 1
      BY <1>1
    <3> QED
      BY <1>1, <3>1, IntervalMoves
  <2>2. places \in SUBSET (1..Len(part))
    BY <1>1
  <2> HIDE DEF places, quote
  <2>3. Cardinality(Holding(text, Displaced(places, o), quote)) = Cardinality(Holding(part, places, quote))
    BY <2>2, KindsMove
  <2>4. QuotesBehind(part, 1, i) = Holding(part, places, quote)
    BY DEF places, quote, QuotesBehind
  <2>5. QuotesBehind(text, o + 1, o + i) = Holding(text, Displaced(places, o), quote)
    <3>1. QuotesBehind(text, o + 1, o + i) = Holding(text, (o + 1)..(o + i - 1), quote)
      BY DEF quote, QuotesBehind
    <3> QED
      BY <2>1, <3>1 DEF places
  <2> QED
    BY <2>3, <2>4, <2>5
<1> DEFINE Even(i) == Cardinality(QuotesBehind(part, 1, i)) % 2 = 0
           There(i) == Cardinality(QuotesBehind(text, o + 1, i)) % 2 = 0
<1>2. ASSUME NEW i \in 1..j PROVE There(o + i) <=> Even(i)
  BY <1>1
<1>3. Bare(part, 1, j) = {i \in 1..j : Even(i)}
  <2>1. \A i \in 1..j : QuotesBehind(part, 1, i) = {k \in 1..(i - 1) : part[k] = "\""}
    BY DEF QuotesBehind, Holding
  <2> QED
    BY <2>1 DEF Bare
<1>4. Bare(text, o + 1, o + j) = {i \in (o + 1)..(o + j) : There(i)}
  <2>1. \A i \in (o + 1)..(o + j) : QuotesBehind(text, o + 1, i) = {k \in (o + 1)..(i - 1) : text[k] = "\""}
    BY DEF QuotesBehind, Holding
  <2> QED
    BY <2>1 DEF Bare
<1> HIDE DEF Even, There
<1>5. ASSUME NEW i \in (o + 1)..(o + j) PROVE i - o \in 1..j /\ o + (i - o) = i
  BY <1>5
<1>6. \A i \in 1..j : o + i \in (o + 1)..(o + j)
  OBVIOUS
<1>7. \A i \in Bare(text, o + 1, o + j) : i - o \in Bare(part, 1, j) /\ o + (i - o) = i
  BY <1>2, <1>3, <1>4, <1>5
<1>8. \A i \in Bare(part, 1, j) : o + i \in Bare(text, o + 1, o + j)
  BY <1>2, <1>3, <1>4, <1>6
<1> QED
  BY <1>7, <1>8 DEF Displaced

\* An attribute ends at the blank that follows it, wherever it is in the text.
LEMMA AttributeEnds ==
  ASSUME NEW T, NEW text \in Seq(T), NEW part, Len(part) \in Nat, IsAttribute(part),
         NEW o \in Nat, Holds(text, o, part)
  PROVE  AttributeEnd(text, o + 1) = o + Len(part)
<1> DEFINE from == o + 1
           n == Len(part)
           closes == {i \in (from + 1)..(Len(text) + 1) :
                        /\ text[i - 1] \in Closing /\ i - 1 \in Bare(text, from, i - 1)
                        /\ Depth(text, Bare(text, from, i - 1)) = 0}
           E == closes \cup {Len(text) + 1}
<1>1. n > 1 /\ o + n <= Len(text) /\ Len(text) \in Nat
  BY DEF IsAttribute, Holds
<1>2. ASSUME NEW j \in 1..n
      PROVE  /\ Depth(text, Bare(text, from, o + j)) = Depth(part, Bare(part, 1, j))
             /\ o + j \in Bare(text, from, o + j) <=> j \in Bare(part, 1, j)
             /\ text[o + j] = part[j]
  <2>1. Bare(text, from, o + j) = Displaced(Bare(part, 1, j), o)
    BY BareMoves
  <2>2. Bare(part, 1, j) \in SUBSET (1..Len(part))
    <3>1. 1..j \in SUBSET (1..Len(part))
      BY <1>1
    <3>2. Bare(part, 1, j) \in SUBSET (1..j)
      BY DEF Bare
    <3> QED
      BY <3>1, <3>2
  <2>3. o + j \in Displaced(Bare(part, 1, j), o) <=> j \in Bare(part, 1, j)
    <3>1. \A i \in Bare(part, 1, j) : o + i = o + j => i = j
      BY <2>2
    <3> QED
      BY <3>1 DEF Displaced
  <2>4. Depth(text, Displaced(Bare(part, 1, j), o)) = Depth(part, Bare(part, 1, j))
    BY <2>2, DepthMoves
  <2>5. text[o + j] = part[j]
    BY DEF Holds
  <2> QED
    BY <2>1, <2>3, <2>4, <2>5
<1>3. o + n \in closes
  <2>1. o + n \in (from + 1)..(Len(text) + 1) /\ n - 1 \in 1..n /\ o + (n - 1) = (o + n) - 1
    BY <1>1
  <2>2. part[n - 1] \in Closing /\ n - 1 \in Bare(part, 1, n - 1) /\ Depth(part, Bare(part, 1, n - 1)) = 0
    BY DEF IsAttribute, Closing
  <2> QED
    BY <1>2, <2>1, <2>2
<1>4. ASSUME NEW i \in E, i < o + n PROVE FALSE
  <2>1. i - 1 - o \in 1..(n - 2) /\ o + (i - 1 - o) = i - 1 /\ i - 1 - o \in 1..n
    BY <1>1, <1>4
  <2>2. i \in closes
    BY <1>1, <1>4
  <2>3. LET k == i - 1 - o
        IN  part[k] \in Closing /\ k \in Bare(part, 1, k) /\ Depth(part, Bare(part, 1, k)) = 0
    BY <1>2, <2>1, <2>2
  <2>4. i - 1 - o \in 1..((Len(part) - 1) - 1)
    BY <1>1, <2>1
  <2> QED
    BY <2>3, <2>4 DEF IsAttribute
<1>5. E \in SUBSET Nat /\ o + n \in E
  BY <1>1, <1>3
<1>6. AttributeEnd(text, from) = Min(E)
  BY DEF AttributeEnd
<1> HIDE DEF E
<1>7. Min(E) \in E /\ Min(E) <= o + n
  BY <1>5, MinIsLeast
<1>8. Min(E) \in Nat /\ o + n \in Nat /\ ~(Min(E) < o + n)
  BY <1>1, <1>4, <1>5, <1>7
<1> QED
  BY <1>6, <1>7, <1>8

\* The turns past what a text opens with.
LEMMA TurnsAre ==
  ASSUME NEW L \in Nat, NEW past \in [1..(L + 1) -> 1..(L + 1)], NEW turns \in Nat
  PROVE  \E at \in [0..turns -> 1..(L + 1)] :
            at[0] = 1 /\ (\A n \in 1..turns : at[n] = past[at[n - 1]]) /\ PastAll(past, turns) = at[turns]
<1> DEFINE V == 1..(L + 1)
           Turns(f) == f = [n \in 0..turns |-> IF n = 0 THEN 1 ELSE past[f[n - 1]]]
           at == CHOOSE f : Turns(f)
           step == [p \in (1..turns) \X V |-> past[p[2]]]
<1>1. PICK d \in [0..turns -> V] : Unrolls(d, turns, 1, step)
  <2>1. 1 \in V /\ step \in [(1..turns) \X V -> V]
    OBVIOUS
  <2> HIDE DEF V, step
  <2> QED
    BY <2>1, UnrollsExist
<1>2. Turns(d)
  <2>1. ASSUME NEW n \in 0..turns PROVE d[n] = IF n = 0 THEN 1 ELSE past[d[n - 1]]
    <3>1. CASE n = 0
      BY <1>1, <3>1 DEF Unrolls
    <3>2. CASE n # 0
      <4>1. n \in 1..turns /\ n - 1 \in 0..turns
        BY <3>2
      <4>2. d[n] = step[<<n, d[n - 1]>>] /\ d[n - 1] \in V
        BY <1>1, <4>1 DEF Unrolls
      <4> QED
        BY <3>2, <4>1, <4>2
    <3> QED
      BY <3>1, <3>2
  <2> HIDE DEF step, V
  <2> QED
    BY <1>1, <2>1
<1>3. Turns(at)
  <2> HIDE DEF Turns
  <2> QED
    BY <1>2
<1>4. PastAll(past, turns) = at[turns]
  BY DEF PastAll
<1> HIDE DEF at
<1>5. at[0] = 1 /\ \A n \in 1..turns : at[n] = past[at[n - 1]]
  <2>1. at = [n \in 0..turns |-> IF n = 0 THEN 1 ELSE past[at[n - 1]]]
    BY <1>3
  <2> HIDE DEF Turns, V, step
  <2>2. at[0] = 1
    <3>1. 0 \in 0..turns
      OBVIOUS
    <3> QED
      BY <2>1, <3>1
  <2>3. ASSUME NEW n \in 1..turns PROVE at[n] = past[at[n - 1]]
    <3>1. n \in 0..turns /\ n # 0
      OBVIOUS
    <3> QED
      BY <2>1, <3>1
  <2> QED
    BY <2>2, <2>3
<1> DEFINE Good == {n \in 0..turns : at[n] \in V}
<1>6. \A n \in 0..turns : n \in Good
  <2>1. 0 \in Good
    BY <1>5
  <2>2. ASSUME NEW n \in 0..(turns - 1), n \in Good PROVE n + 1 \in Good
    <3>1. n + 1 \in 1..turns /\ (n + 1) - 1 = n
      OBVIOUS
    <3>2. at[n + 1] = past[at[n]]
      BY <1>5, <3>1
    <3>3. past[at[n]] \in V /\ n + 1 \in 0..turns
      BY <2>2, <3>1
    <3> QED
      BY <3>2, <3>3
  <2> HIDE DEF Good
  <2> QED
    BY <2>1, <2>2, InductionUpTo
<1>7. at = [n \in 0..turns |-> at[n]]
  BY <1>3
<1>8. at \in [0..turns -> V]
  BY <1>6, <1>7
<1> QED
  BY <1>4, <1>5, <1>8

\* cut[k] is where the first k parts of a text end, two places each or more.
Cuts(cut, n) == cut \in [0..n -> Nat] /\ cut[0] = 0 /\ \A k \in 1..n : cut[k] >= cut[k - 1] + 2

\* So many parts are twice as long.
LEMMA CutsGrow ==
  ASSUME NEW n \in Nat, NEW cut, Cuts(cut, n)
  PROVE  \A k \in 0..n : cut[k] >= 2 * k
<1> DEFINE Good == {k \in 0..n : cut[k] >= 2 * k}
<1>1. 0 \in Good
  BY DEF Cuts
<1>2. ASSUME NEW k \in 0..(n - 1), k \in Good PROVE k + 1 \in Good
  <2>1. k + 1 \in 1..n /\ (k + 1) - 1 = k /\ cut[k] \in Nat /\ cut[k + 1] \in Nat /\ cut[k] >= 2 * k
    BY <1>2 DEF Cuts
  <2>2. cut[k + 1] >= cut[k] + 2
    BY <2>1 DEF Cuts
  <2> QED
    BY <2>1, <2>2
<1> HIDE DEF Good
<1>3. \A k \in 0..n : k \in Good
  BY <1>1, <1>2, InductionUpTo
<1> QED
  BY <1>3 DEF Good

Goes(past, cut, n) == \A k \in 1..n : past[cut[k - 1] + 1] = cut[k] /\ past[cut[k]] = cut[k] + 1

\* Two turns go past each part, and no turn goes past what does not open one.
LEMMA PastAllStops ==
  ASSUME NEW L \in Nat, NEW past \in [1..(L + 1) -> 1..(L + 1)], NEW n \in Nat, NEW cut, Cuts(cut, n),
         cut[n] <= L,
         Goes(past, cut, n),
         past[cut[n] + 1] = cut[n] + 1
  PROVE  PastAll(past, L) = cut[n] + 1
<1>1. PICK at \in [0..L -> 1..(L + 1)] :
        at[0] = 1 /\ (\A m \in 1..L : at[m] = past[at[m - 1]]) /\ PastAll(past, L) = at[L]
  BY TurnsAre
<1>2. cut[n] \in Nat /\ cut[n] >= 2 * n /\ 2 * n <= L
  <2>1. cut[n] \in Nat /\ n \in 0..n
    BY DEF Cuts
  <2>2. cut[n] >= 2 * n
    BY <2>1, CutsGrow
  <2> QED
    BY <2>1, <2>2
<1>3. \A k \in 0..n : at[2 * k] = cut[k] + 1
  <2> DEFINE Good == {k \in 0..n : at[2 * k] = cut[k] + 1}
  <2>1. 0 \in Good
    BY <1>1 DEF Cuts
  <2>2. ASSUME NEW k \in 0..(n - 1), k \in Good PROVE k + 1 \in Good
    <3>1. k + 1 \in 1..n /\ (k + 1) - 1 = k /\ at[2 * k] = cut[k] + 1
      BY <2>2
    <3>2. /\ 2 * k + 1 \in 1..L /\ (2 * k + 1) - 1 = 2 * k
          /\ 2 * k + 2 \in 1..L /\ (2 * k + 2) - 1 = 2 * k + 1 /\ 2 * (k + 1) = 2 * k + 2
      BY <1>2
    <3>5. past[cut[k] + 1] = cut[k + 1] /\ past[cut[k + 1]] = cut[k + 1] + 1
      <4>1. past[cut[(k + 1) - 1] + 1] = cut[k + 1] /\ past[cut[k + 1]] = cut[k + 1] + 1
        BY <3>1 DEF Goes
      <4> QED
        BY <3>1, <4>1
    <3>6. \A m \in 1..L : at[m] = past[at[m - 1]]
      BY <1>1
    <3>3. at[2 * k + 1] = cut[k + 1]
      <4>1. at[2 * k + 1] = past[at[(2 * k + 1) - 1]]
        BY <3>2, <3>6
      <4> QED
        BY <3>1, <3>2, <3>5, <4>1
    <3>4. at[2 * k + 2] = cut[k + 1] + 1
      <4>1. at[2 * k + 2] = past[at[(2 * k + 2) - 1]]
        BY <3>2, <3>6
      <4> QED
        BY <3>2, <3>3, <3>5, <4>1
    <3> QED
      BY <3>1, <3>2, <3>4
  <2> HIDE DEF Good
  <2>3. \A k \in 0..n : k \in Good
    BY <2>1, <2>2, InductionUpTo
  <2> QED
    BY <2>3 DEF Good
<1> DEFINE rest == L - 2 * n
           Good == {i \in 0..rest : at[2 * n + i] = cut[n] + 1}
<1>4. rest \in Nat
  BY <1>2
<1>5. 0 \in Good
  BY <1>3, <1>4
<1>6. ASSUME NEW i \in 0..(rest - 1), i \in Good PROVE i + 1 \in Good
  <2>1. 2 * n + i + 1 \in 1..L /\ (2 * n + i + 1) - 1 = 2 * n + i /\ 2 * n + (i + 1) = 2 * n + i + 1
    BY <1>2
  <2>2. at[2 * n + i + 1] = past[at[2 * n + i]] /\ at[2 * n + i] = cut[n] + 1
    BY <1>1, <1>6, <2>1
  <2> QED
    BY <1>4, <1>6, <2>1, <2>2
<1> HIDE DEF Good, rest
<1>7. rest \in Good
  <2>1. \A i \in 0..rest : i \in Good
    BY <1>4, <1>5, <1>6, InductionUpTo
  <2> QED
    BY <1>4, <2>1
<1>8. 2 * n + rest = L
  BY <1>2 DEF rest
<1> QED
  BY <1>1, <1>7, <1>8 DEF Good

\* The first k decorations joined, for each k.
Joins(f, ds, n) == f = [i \in 1..n |-> IF i = 1 THEN ds[i] ELSE f[i - 1] \o ds[i]]
LEMMA JoinsExist ==
  ASSUME NEW T, NEW ds \in Seq(Seq(T))
  PROVE  \E f : Joins(f, ds, Len(ds))
<1> DEFINE n == Len(ds)
           V == Seq(T)
           step == [p \in (1..n) \X V |-> p[2] \o ds[p[1]]]
<1>0. n \in Nat /\ \A k \in 1..n : ds[k] \in V
  OBVIOUS
<1>1. step \in [(1..n) \X V -> V] /\ <<>> \in V
  <2>1. ASSUME NEW k \in 1..n, NEW s \in V PROVE s \o ds[k] \in V
    BY <1>0
  <2> HIDE DEF V, n
  <2> QED
    BY <2>1 DEF V
<1>2. PICK d \in [0..n -> V] : Unrolls(d, n, <<>>, step)
  <2> HIDE DEF V, step, n
  <2> QED
    BY <1>0, <1>1, UnrollsExist
<1>3. d[0] = <<>> /\ \A k \in 1..n : d[k] = d[k - 1] \o ds[k] /\ d[k - 1] \in V
  <2>1. ASSUME NEW k \in 1..n PROVE d[k] = d[k - 1] \o ds[k] /\ d[k - 1] \in V
    <3>1. k - 1 \in 0..n /\ d[k] = step[<<k, d[k - 1]>>]
      <4>1. \A i \in 1..n : d[i] = step[<<i, d[i - 1]>>]
        BY <1>2 DEF Unrolls
      <4> HIDE DEF step, V
      <4>2. d[k] = step[<<k, d[k - 1]>>]
        BY <2>1, <4>1
      <4>3. k - 1 \in 0..n
        <5> HIDE DEF n
        <5> QED
          BY <1>0, <2>1
      <4> QED
        BY <4>2, <4>3
    <3>2. d[k - 1] \in V
      BY <3>1
    <3> HIDE DEF V, n
    <3> QED
      BY <3>1, <3>2
  <2> QED
    BY <1>2, <2>1 DEF Unrolls
<1> DEFINE f == [i \in 1..n |-> d[i]]
<1>4. ASSUME NEW i \in 1..n PROVE f[i] = IF i = 1 THEN ds[i] ELSE f[i - 1] \o ds[i]
  <2>1. d[i] = d[i - 1] \o ds[i]
    BY <1>3
  <2>2. CASE i = 1
    <3>1. d[i - 1] = <<>> /\ ds[i] \in Seq(T)
      BY <1>0, <1>3, <2>2
    <3>2. <<>> \o ds[i] = ds[i]
      BY <3>1
    <3> QED
      BY <2>1, <2>2, <3>1, <3>2
  <2>3. CASE i # 1
    <3>1. i - 1 \in 1..n
      BY <2>3
    <3> QED
      BY <2>1, <2>3, <3>1
  <2> QED
    BY <2>2, <2>3
<1>5. Joins(f, ds, n)
  <2>1. f = [i \in 1..n |-> f[i]]
    OBVIOUS
  <2> HIDE DEF f
  <2> QED
    BY <1>4, <2>1 DEF Joins
<1> HIDE DEF f
<1> QED
  BY <1>5

\* Decorations joined hold each of them, where those before it end.
Lengths(ds, cut) == \A k \in 1..Len(ds) : cut[k] = cut[k - 1] + Len(ds[k])
LEMMA FlattenHolds ==
  ASSUME NEW T, NEW ds \in Seq(Seq(T)), \A k \in 1..Len(ds) : Len(ds[k]) > 1
  PROVE  /\ FlattenSeq(ds) \in Seq(T)
         /\ \E cut : /\ Cuts(cut, Len(ds)) /\ Lengths(ds, cut) /\ cut[Len(ds)] = Len(FlattenSeq(ds))
                     /\ \A k \in 1..Len(ds) : Holds(FlattenSeq(ds), cut[k - 1], ds[k])
<1> DEFINE n == Len(ds)
<1>0. n \in Nat /\ \A k \in 1..n : ds[k] \in Seq(T) /\ Len(ds[k]) \in Nat
  OBVIOUS
<1>1. CASE n = 0
  <2>1. FlattenSeq(ds) = <<>> /\ ds = <<>>
    BY <1>1 DEF FlattenSeq
  <2> DEFINE cut == [k \in 0..0 |-> 0]
  <2>2. Cuts(cut, 0) /\ cut[0] = 0
    BY DEF Cuts
  <2> HIDE DEF cut
  <2> QED
    BY <1>1, <2>1, <2>2 DEF Lengths
<1>2. CASE n # 0
  <2> DEFINE flat == CHOOSE f : Joins(f, ds, n)
  <2>1. FlattenSeq(ds) = flat[n]
    BY <1>2 DEF FlattenSeq, Joins
  <2>2. Joins(flat, ds, n)
    <3>1. \E f : Joins(f, ds, n)
      BY JoinsExist
    <3> QED
      BY <3>1
  <2> HIDE DEF flat
  <2>3. \A i \in 1..n : flat[i] = IF i = 1 THEN ds[i] ELSE flat[i - 1] \o ds[i]
    BY <2>2 DEF Joins
  <2> DEFINE cut == [k \in 0..n |-> IF k = 0 THEN 0 ELSE Len(flat[k])]
             Good == {m \in 0..n : m > 0 => /\ flat[m] \in Seq(T) /\ cut[m] = Len(flat[m])
                                            /\ cut[m] = cut[m - 1] + Len(ds[m])
                                            /\ \A k \in 1..m : cut[k - 1] \in Nat /\ Holds(flat[m], cut[k - 1], ds[k])}
  <2>c. cut[0] = 0 /\ \A k \in 1..n : cut[k] = Len(flat[k])
    OBVIOUS
  <2>d. cut = [k \in 0..n |-> cut[k]]
    OBVIOUS
  <2> HIDE DEF cut
  <2>4. 0 \in Good
    BY <1>0
  <2>5. ASSUME NEW m \in 0..(n - 1), m \in Good PROVE m + 1 \in Good
    <3>1. m + 1 \in 1..n /\ (m + 1) - 1 = m /\ ds[m + 1] \in Seq(T) /\ Len(ds[m + 1]) \in Nat /\ m \in Nat
      BY <1>0
    <3>2. CASE m = 0
      <4>1. flat[1] = ds[1] /\ cut[1] = Len(ds[1]) /\ cut[0] = 0
        BY <2>3, <2>c, <3>1, <3>2
      <4>2. Holds(flat[1], 0, ds[1])
        BY <3>1, <3>2, <4>1 DEF Holds
      <4>3. cut[1] = cut[1 - 1] + Len(ds[1]) /\ \A k \in 1..1 : cut[k - 1] \in Nat /\ Holds(flat[1], cut[k - 1], ds[k])
        BY <3>1, <3>2, <4>1, <4>2
      <4> QED
        BY <3>1, <3>2, <4>1, <4>3
    <3>3. CASE m # 0
      <4>1. /\ m \in 1..n /\ flat[m] \in Seq(T) /\ cut[m] = Len(flat[m])
            /\ \A k \in 1..m : cut[k - 1] \in Nat /\ Holds(flat[m], cut[k - 1], ds[k])
        BY <2>5, <3>1, <3>3
      <4>2. flat[m + 1] = flat[m] \o ds[m + 1] /\ cut[m + 1] = Len(flat[m + 1])
        <5>1. m + 1 # 1 /\ m + 1 \in 1..n
          BY <3>1, <3>3
        <5>2. flat[m + 1] = flat[(m + 1) - 1] \o ds[m + 1]
          BY <2>3, <5>1
        <5> QED
          BY <2>c, <3>1, <5>1, <5>2
      <4>c. \A s, r \in Seq(T) : /\ s \o r \in Seq(T) /\ Len(s \o r) = Len(s) + Len(r)
                                 /\ \A i \in 1..Len(s) : (s \o r)[i] = s[i]
                                 /\ \A i \in 1..Len(r) : (s \o r)[Len(s) + i] = r[i]
        OBVIOUS
      <4>3. /\ flat[m + 1] \in Seq(T) /\ Len(flat[m + 1]) = Len(flat[m]) + Len(ds[m + 1])
            /\ \A i \in 1..Len(flat[m]) : flat[m + 1][i] = flat[m][i]
            /\ \A i \in 1..Len(ds[m + 1]) : flat[m + 1][Len(flat[m]) + i] = ds[m + 1][i]
        <5> DEFINE s == flat[m]
                   r == ds[m + 1]
        <5>1. s \in Seq(T) /\ r \in Seq(T) /\ flat[m + 1] = s \o r
          BY <3>1, <4>1, <4>2
        <5> HIDE DEF s, r
        <5>2. /\ s \o r \in Seq(T) /\ Len(s \o r) = Len(s) + Len(r)
              /\ \A i \in 1..Len(s) : (s \o r)[i] = s[i]
              /\ \A i \in 1..Len(r) : (s \o r)[Len(s) + i] = r[i]
          BY <4>c, <5>1
        <5>3. /\ flat[m + 1] \in Seq(T) /\ Len(flat[m + 1]) = Len(s) + Len(r)
              /\ \A i \in 1..Len(s) : flat[m + 1][i] = s[i]
              /\ \A i \in 1..Len(r) : flat[m + 1][Len(s) + i] = r[i]
          BY <5>1, <5>2
        <5> QED
          BY <5>3 DEF s, r
      <4>4. ASSUME NEW k \in 1..m PROVE Holds(flat[m + 1], cut[k - 1], ds[k])
        <5>1. Holds(flat[m], cut[k - 1], ds[k]) /\ k \in 1..n /\ Len(ds[k]) \in Nat /\ cut[k - 1] \in Nat
          <6>1. k \in 1..n
            BY <1>0, <3>1
          <6>2. Len(ds[k]) \in Nat
            BY <1>0, <6>1
          <6> QED
            BY <4>1, <6>1, <6>2
        <5>2. cut[k - 1] + Len(ds[k]) <= Len(flat[m]) /\ Len(flat[m]) \in Nat
          BY <4>1, <5>1 DEF Holds
        <5>3. ASSUME NEW i \in 1..Len(ds[k]) PROVE flat[m + 1][cut[k - 1] + i] = ds[k][i]
          <6>1. cut[k - 1] + i \in 1..Len(flat[m])
            <7>1. \A p, q, c \in Nat : \A e \in 1..q : p + q <= c => p + e \in 1..c
              OBVIOUS
            <7> QED
              BY <5>1, <5>2, <7>1
          <6> QED
            BY <4>3, <5>1, <6>1 DEF Holds
        <5>4. cut[k - 1] + Len(ds[k]) <= Len(flat[m + 1])
          <6>1. Len(flat[m + 1]) = Len(flat[m]) + Len(ds[m + 1])
            BY <4>3
          <6>2. Len(ds[m + 1]) \in Nat /\ cut[k - 1] \in Nat /\ Len(ds[k]) \in Nat
            BY <3>1, <5>1
          <6>3. \A a, b, c, e \in Nat : a + b <= c => a + b <= c + e
            OBVIOUS
          <6> QED
            BY <5>2, <6>1, <6>2, <6>3
        <5> QED
          BY <5>3, <5>4 DEF Holds
      <4>5. Holds(flat[m + 1], cut[m], ds[m + 1])
        BY <4>1, <4>3 DEF Holds
      <4>6. ASSUME NEW k \in 1..(m + 1) PROVE cut[k - 1] \in Nat /\ Holds(flat[m + 1], cut[k - 1], ds[k])
        <5>1. CASE k = m + 1
          BY <3>1, <4>1, <4>5, <5>1
        <5>2. CASE k # m + 1
          <6>1. k \in 1..m
            BY <3>1, <5>2
          <6> QED
            BY <4>1, <4>4, <6>1
        <5> QED
          BY <5>1, <5>2
      <4>7. cut[m + 1] = cut[(m + 1) - 1] + Len(ds[m + 1])
        BY <3>1, <4>1, <4>2, <4>3
      <4>8. \A k \in 1..(m + 1) : cut[k - 1] \in Nat /\ Holds(flat[m + 1], cut[k - 1], ds[k])
        BY <4>6
      <4>9. m + 1 \in 0..n
        BY <3>1
      <4>10. flat[m + 1] \in Seq(T)
        BY <4>3
      <4> QED
        BY <4>2, <4>7, <4>8, <4>9, <4>10
    <3> QED
      BY <3>2, <3>3
  <2> HIDE DEF Good
  <2>6. \A m \in 0..n : m \in Good
    BY <1>0, <2>4, <2>5, InductionUpTo
  <2>7. ASSUME NEW m \in 1..n
        PROVE  /\ flat[m] \in Seq(T) /\ cut[m] = Len(flat[m]) /\ cut[m] = cut[m - 1] + Len(ds[m])
               /\ \A k \in 1..m : Holds(flat[m], cut[k - 1], ds[k])
    <3>1. m \in 0..n /\ m > 0
      OBVIOUS
    <3> QED
      BY <2>6, <3>1 DEF Good
  <2>8. Cuts(cut, n)
    <3>1. ASSUME NEW k \in 0..n PROVE cut[k] \in Nat
      <4>1. CASE k = 0
        BY <2>c, <4>1
      <4>2. CASE k # 0
        <5>1. k \in 1..n
          BY <4>2
        <5>2. flat[k] \in Seq(T) /\ cut[k] = Len(flat[k])
          BY <2>7, <5>1
        <5> QED
          BY <5>2
      <4> QED
        BY <4>1, <4>2
    <3>2. ASSUME NEW k \in 1..n PROVE cut[k] >= cut[k - 1] + 2
      <4>1. cut[k] = cut[k - 1] + Len(ds[k]) /\ Len(ds[k]) > 1 /\ Len(ds[k]) \in Nat
        BY <1>0, <2>7
      <4>2. k - 1 \in 0..n
        OBVIOUS
      <4>3. cut[k - 1] \in Nat
        BY <3>1, <4>2
      <4> QED
        BY <4>1, <4>3
    <3> QED
      BY <2>c, <2>d, <3>1, <3>2 DEF Cuts
  <2>9. n \in 1..n
    BY <1>0, <1>2
  <2> QED
    BY <2>1, <2>7, <2>8, <2>9 DEF Lengths
<1> QED
  BY <1>1, <1>2

\* The modifiers of a declaration, a blank behind each.
Spaced(mods) == [i \in 1..(2 * Len(mods)) |-> IF i % 2 = 1 THEN mods[(i + 1) \div 2] ELSE Blank]
LEMMA SpacedIs ==
  ASSUME NEW M, NEW mods \in Seq(M)
  PROVE  /\ Spaced(mods) \in Seq(M \cup {Blank}) /\ Len(Spaced(mods)) = 2 * Len(mods)
         /\ \A j \in 1..Len(mods) : Spaced(mods)[2 * j - 1] = mods[j] /\ Spaced(mods)[2 * j] = Blank
<1> DEFINE m == Len(mods)
<1>1. m \in Nat /\ 2 * m \in Nat
  OBVIOUS
<1>2. ASSUME NEW i \in 1..(2 * m)
      PROVE  (IF i % 2 = 1 THEN mods[(i + 1) \div 2] ELSE Blank) \in M \cup {Blank}
  <2>1. i % 2 = 1 => (i + 1) \div 2 \in 1..m
    <3> HIDE DEF m
    <3> QED
      BY <1>1
  <2> QED
    BY <2>1
<1>3. Spaced(mods) \in [1..(2 * m) -> M \cup {Blank}]
  <2> HIDE DEF m
  <2>1. Spaced(mods) = [i \in 1..(2 * m) |-> IF i % 2 = 1 THEN mods[(i + 1) \div 2] ELSE Blank]
    BY DEF Spaced, m
  <2> QED
    BY <1>2, <2>1
<1>4. ASSUME NEW j \in 1..m
      PROVE  Spaced(mods)[2 * j - 1] = mods[j] /\ Spaced(mods)[2 * j] = Blank
  <2>1. /\ 2 * j - 1 \in 1..(2 * m) /\ (2 * j - 1) % 2 = 1 /\ ((2 * j - 1) + 1) \div 2 = j
        /\ 2 * j \in 1..(2 * m) /\ (2 * j) % 2 # 1
    <3> HIDE DEF m
    <3> QED
      BY <1>1
  <2> QED
    BY <2>1 DEF Spaced
<1>5. Spaced(mods) \in Seq(M \cup {Blank}) /\ Len(Spaced(mods)) = 2 * m
  <2> DEFINE s == Spaced(mods)
             W == M \cup {Blank}
  <2>1. s \in [1..(2 * m) -> W]
    BY <1>3
  <2> HIDE DEF s, W, m
  <2>2. s \in Seq(W) /\ Len(s) = 2 * m
    BY <1>1, <2>1
  <2> QED
    BY <2>2 DEF s, W
<1> QED
  BY <1>4, <1>5

\* A declaration is what is stripped of it, and then its modifiers.
LEMMA SpelledIs ==
  ASSUME NEW T, NEW M, NEW R, NEW parts, parts.decorations \in Seq(Seq(T)), parts.modifiers \in Seq(M),
         parts.rest \in Seq(R), \A k \in 1..Len(parts.decorations) : Len(parts.decorations[k]) > 1,
         NEW text, text = Spelled(parts)
  PROVE  /\ text \in Seq(T \cup M \cup {Blank} \cup R)
         /\ \E cut :
              /\ Cuts(cut, Len(parts.decorations)) /\ Lengths(parts.decorations, cut)
              /\ \A k \in 1..Len(parts.decorations) : Holds(text, cut[k - 1], parts.decorations[k])
              /\ Holds(text, cut[Len(parts.decorations)], Spaced(parts.modifiers))
<1> DEFINE ds == parts.decorations
           n == Len(ds)
           flat == FlattenSeq(ds)
           mods == Spaced(parts.modifiers)
           U == T \cup M \cup {Blank} \cup R
<1>1. PICK cut : /\ Cuts(cut, n) /\ Lengths(ds, cut) /\ cut[n] = Len(flat)
                 /\ \A k \in 1..n : Holds(flat, cut[k - 1], ds[k])
  BY FlattenHolds
<1>2. flat \in Seq(T)
  BY FlattenHolds
<1>3. mods \in Seq(M \cup {Blank})
  BY SpacedIs
<1>4. text = (flat \o mods) \o parts.rest
  BY DEF Spelled, Spaced
<1>5. flat \in Seq(U) /\ mods \in Seq(U) /\ parts.rest \in Seq(U)
  <2> HIDE DEF flat, mods
  <2> QED
    BY <1>2, <1>3
<1>6. n \in Nat /\ \A k \in 1..n : Len(ds[k]) \in Nat
  OBVIOUS
<1> HIDE DEF U, flat, mods, n
<1>7. /\ text \in Seq(U) /\ Len(flat) \in Nat /\ Len(mods) \in Nat /\ Len(flat) + Len(mods) <= Len(text)
      /\ \A i \in 1..Len(flat) : text[i] = flat[i]
      /\ \A i \in 1..Len(mods) : text[Len(flat) + i] = mods[i]
  <2>1. \A s, r, q \in Seq(U) : /\ (s \o r) \o q \in Seq(U) /\ Len(s) \in Nat /\ Len(r) \in Nat
                                /\ Len(s) + Len(r) <= Len((s \o r) \o q)
                                /\ \A i \in 1..Len(s) : ((s \o r) \o q)[i] = s[i]
                                /\ \A i \in 1..Len(r) : ((s \o r) \o q)[Len(s) + i] = r[i]
    OBVIOUS
  <2> DEFINE rest == parts.rest
  <2>2. text = (flat \o mods) \o rest /\ rest \in Seq(U)
    BY <1>4, <1>5
  <2> HIDE DEF rest
  <2>3. /\ (flat \o mods) \o rest \in Seq(U) /\ Len(flat) \in Nat /\ Len(mods) \in Nat
        /\ Len(flat) + Len(mods) <= Len((flat \o mods) \o rest)
        /\ \A i \in 1..Len(flat) : ((flat \o mods) \o rest)[i] = flat[i]
        /\ \A i \in 1..Len(mods) : ((flat \o mods) \o rest)[Len(flat) + i] = mods[i]
    BY <1>5, <2>1, <2>2
  <2> QED
    BY <2>2, <2>3
<1>8. Holds(text, cut[n], mods)
  BY <1>1, <1>7 DEF Holds
<1>9. ASSUME NEW k \in 1..n PROVE Holds(text, cut[k - 1], ds[k])
  <2>1. cut[k - 1] \in Nat /\ Len(ds[k]) \in Nat /\ Holds(flat, cut[k - 1], ds[k])
    <3>1. k - 1 \in 0..n /\ cut \in [0..n -> Nat]
      BY <1>1, <1>6 DEF Cuts
    <3> HIDE DEF ds
    <3> QED
      BY <1>1, <1>6, <3>1
  <2>2. cut[k - 1] + Len(ds[k]) <= Len(flat) /\ cut[k - 1] + Len(ds[k]) <= Len(text)
    <3>1. cut[k - 1] + Len(ds[k]) <= Len(flat)
      BY <2>1 DEF Holds
    <3> HIDE DEF ds
    <3> QED
      BY <1>7, <2>1, <3>1
  <2>3. ASSUME NEW i \in 1..Len(ds[k]) PROVE text[cut[k - 1] + i] = ds[k][i]
    <3>1. cut[k - 1] + i \in 1..Len(flat)
      <4>1. \A a, b, c \in Nat : \A e \in 1..b : a + b <= c => a + e \in 1..c
        OBVIOUS
      <4> HIDE DEF ds
      <4> QED
        BY <1>7, <2>1, <2>2, <4>1
    <3> QED
      BY <1>7, <2>1, <3>1 DEF Holds
  <2> QED
    BY <2>2, <2>3 DEF Holds
<1> QED
  BY <1>1, <1>7, <1>8, <1>9 DEF U, n, mods

\* The decorations end where the cuts are, and what follows is none.
Cutting(text, opens, end, cut, n) ==
  /\ \A k \in 1..n : /\ text[cut[k - 1] + 1] \in opens /\ end[cut[k - 1] + 1] = cut[k]
                     /\ text[cut[k]] = Blank /\ cut[k] <= Len(text)
  /\ text[cut[n] + 1] \notin opens \cup {Blank}

\* What is stripped is what the turns go past.
LEMMA StrippedIs ==
  ASSUME NEW U, NEW text \in Seq(U), NEW opens, Blank \notin opens, NEW end \in [1..Len(text) -> 1..(Len(text) + 1)],
         NEW n \in Nat, NEW cut, Cuts(cut, n), cut[n] < Len(text),
         Cutting(text, opens, end, cut, n)
  PROVE  Stripped(text, opens, end) = SubSeq(text, cut[n] + 1, Len(text))
<1> DEFINE L == Len(text)
           past == PastOne(text, opens, end)
<1>1. L \in Nat
  OBVIOUS
<1>2. past \in [1..(L + 1) -> 1..(L + 1)]
  <2>1. ASSUME NEW from \in 1..(L + 1)
        PROVE  (IF from > L THEN from ELSE IF text[from] = Blank THEN from + 1
                ELSE IF text[from] \in opens THEN end[from] ELSE from) \in 1..(L + 1)
    <3>1. from <= L => end[from] \in 1..(L + 1) /\ from + 1 \in 1..(L + 1)
      BY <1>1
    <3> QED
      BY <3>1
  <2> QED
    BY <2>1 DEF PastOne
<1>3. ASSUME NEW k \in 1..n PROVE past[cut[k - 1] + 1] = cut[k] /\ past[cut[k]] = cut[k] + 1
  <2>1. cut[k - 1] \in Nat /\ cut[k] \in Nat /\ cut[k] >= cut[k - 1] + 2 /\ cut[k] <= L
    BY DEF Cuts, Cutting
  <2>2. /\ cut[k - 1] + 1 \in 1..(L + 1) /\ ~(cut[k - 1] + 1 > L)
        /\ cut[k] \in 1..(L + 1) /\ ~(cut[k] > L)
    BY <1>1, <2>1
  <2>3. text[cut[k - 1] + 1] \in opens /\ end[cut[k - 1] + 1] = cut[k] /\ text[cut[k]] = Blank
    BY DEF Cutting
  <2> QED
    BY <2>2, <2>3 DEF PastOne
<1>4. past[cut[n] + 1] = cut[n] + 1
  <2>1. cut[n] + 1 \in 1..(L + 1) /\ ~(cut[n] + 1 > L)
    BY <1>1 DEF Cuts
  <2> QED
    BY <2>1 DEF PastOne, Cutting
<1> HIDE DEF past
<1>5. PastAll(past, L) = cut[n] + 1
  <2>1. cut[n] <= L
    BY <1>1 DEF Cuts
  <2>2. Goes(past, cut, n)
    BY <1>3 DEF Goes
  <2> HIDE DEF L
  <2> QED
    BY <1>1, <1>2, <1>4, <2>1, <2>2, PastAllStops
<1> QED
  BY <1>5 DEF Stripped, past

\* The words a text opens with are all among its leading modifiers.
LEMMA ModifiersLead ==
  ASSUME NEW U, NEW text \in Seq(U), NEW allowed, NEW mods \in Seq(allowed), Holds(text, 0, Spaced(mods)),
         NEW words, words = LeadingModifiers(text, allowed)
  PROVE  words \in Seq(U) /\ Len(mods) <= Len(words) /\ \A j \in 1..Len(mods) : words[j] = mods[j]
<1> DEFINE m == Len(mods)
           opens(k) == \A j \in 0..(k - 1) : /\ 2 * j + 1 <= Len(text) /\ text[2 * j + 1] \in allowed
                                             /\ 2 * j + 2 <= Len(text) => text[2 * j + 2] = Blank
           K == {k \in 0..Len(text) : opens(k)}
           count == Max(K)
<1>0. Len(text) \in Nat /\ m \in Nat
  OBVIOUS
<1>1. words = [k \in 1..count |-> text[2 * k - 1]]
  BY DEF LeadingModifiers
<1>2. /\ 2 * m <= Len(text)
      /\ \A j \in 1..m : text[2 * j - 1] = mods[j] /\ text[2 * j] = Blank
  <2>1. Len(Spaced(mods)) = 2 * m /\ \A j \in 1..m : Spaced(mods)[2 * j - 1] = mods[j] /\ Spaced(mods)[2 * j] = Blank
    BY SpacedIs
  <2>2. ASSUME NEW j \in 1..m PROVE text[2 * j - 1] = mods[j] /\ text[2 * j] = Blank
    <3>1. 2 * j - 1 \in 1..(2 * m) /\ 2 * j \in 1..(2 * m) /\ 0 + (2 * j - 1) = 2 * j - 1 /\ 0 + 2 * j = 2 * j
      BY <1>0
    <3>2. text[0 + (2 * j - 1)] = Spaced(mods)[2 * j - 1] /\ text[0 + 2 * j] = Spaced(mods)[2 * j]
      BY <2>1, <3>1 DEF Holds
    <3> QED
      BY <2>1, <3>1, <3>2
  <2>3. 2 * m <= Len(text)
    BY <1>0, <2>1 DEF Holds
  <2> QED
    BY <2>2, <2>3
<1>3. opens(m)
  <2>1. ASSUME NEW j \in 0..(m - 1)
        PROVE  /\ 2 * j + 1 <= Len(text) /\ text[2 * j + 1] \in allowed
               /\ 2 * j + 2 <= Len(text) => text[2 * j + 2] = Blank
    <3>1. j + 1 \in 1..m /\ 2 * (j + 1) - 1 = 2 * j + 1 /\ 2 * (j + 1) = 2 * j + 2 /\ mods[j + 1] \in allowed
      BY <1>0
    <3>2. text[2 * j + 1] = mods[j + 1] /\ text[2 * j + 2] = Blank
      BY <1>2, <3>1
    <3>3. 2 * j + 1 <= Len(text)
      BY <1>0, <1>2
    <3> QED
      BY <3>1, <3>2, <3>3
  <2> QED
    BY <2>1
<1>4. m \in K /\ K \in SUBSET (0..Len(text)) /\ K \in SUBSET Nat
  <2>1. m \in 0..Len(text)
    BY <1>0, <1>2
  <2> QED
    BY <1>0, <1>3, <2>1
<1>5. IsFiniteSet(K)
  <2>1. IsFiniteSet(0..Len(text))
    BY <1>0, FS_Interval
  <2> HIDE DEF K
  <2> QED
    BY <1>4, <2>1, FS_Subset
<1>6. count \in K /\ m <= count
  <2> HIDE DEF K
  <2> QED
    BY <1>4, <1>5, MaxIsGreatest
<1>7. count \in Nat /\ opens(count)
  <2> HIDE DEF count, opens
  <2> QED
    BY <1>0, <1>6
<1> HIDE DEF K, count
<1>8. ASSUME NEW k \in 1..count PROVE text[2 * k - 1] \in U
  <2>1. k - 1 \in 0..(count - 1) /\ 2 * (k - 1) + 1 = 2 * k - 1
    BY <1>7
  <2>2. 2 * k - 1 <= Len(text)
    BY <1>7, <2>1
  <2>3. 2 * k - 1 \in 1..Len(text)
    BY <1>0, <1>7, <2>2
  <2> QED
    BY <2>3
<1>9. words \in [1..count -> U] /\ \A j \in 1..m : words[j] = mods[j]
  <2>1. \A j \in 1..m : j \in 1..count
    BY <1>0, <1>6, <1>7
  <2> QED
    BY <1>1, <1>2, <1>8, <2>1
<1>10. words \in Seq(U) /\ Len(words) = count
  BY <1>7, <1>9
<1> QED
  BY <1>6, <1>9, <1>10

\* What the first words state, the longer list states.
LEMMA FirstOfLonger ==
  ASSUME NEW U, NEW M, NEW mods \in Seq(M), NEW words \in Seq(U), Len(mods) <= Len(words),
         \A j \in 1..Len(mods) : words[j] = mods[j], NEW means, FirstAccess(mods, means) # NotStated
  PROVE  FirstAccess(words, means) = FirstAccess(mods, means)
<1> DEFINE A == {i \in DOMAIN mods : mods[i] \in DOMAIN means}
           B == {i \in DOMAIN words : words[i] \in DOMAIN means}
<1>0. /\ Len(mods) \in Nat /\ Len(words) \in Nat
      /\ DOMAIN mods = 1..Len(mods) /\ DOMAIN words = 1..Len(words)
  OBVIOUS
<1>1. A # {} /\ FirstAccess(mods, means) = means[mods[Min(A)]]
  BY DEF FirstAccess
<1>2. A \in SUBSET Nat /\ B \in SUBSET Nat /\ A \subseteq B
  BY <1>0
<1>3. \A i \in B : i <= Len(mods) => i \in A
  BY <1>0
<1>4. A \in SUBSET (1..Len(mods))
  BY <1>0
<1>5. FirstAccess(words, means) = IF B = {} THEN NotStated ELSE means[words[Min(B)]]
  BY DEF FirstAccess
<1> HIDE DEF A, B
<1>6. Min(A) \in A /\ (\A i \in A : Min(A) <= i) /\ Min(B) \in B /\ \A i \in B : Min(B) <= i
  BY <1>1, <1>2, MinIsLeast
<1>7. Min(B) = Min(A)
  <2>1. Min(A) \in 1..Len(mods) /\ Min(B) \in Nat /\ Min(B) <= Min(A)
    BY <1>2, <1>4, <1>6
  <2>2. Min(B) \in A
    BY <1>0, <1>3, <1>6, <2>1
  <2>3. Min(A) <= Min(B)
    BY <1>6, <2>2
  <2> QED
    BY <1>0, <2>1, <2>3
<1> QED
  BY <1>1, <1>2, <1>4, <1>5, <1>6, <1>7

\* The languages that state access in words, and what each strips off a declaration.
Stating == {"typescript", "java", "csharp", "php", "swift"}
StrippedIn(lang, text) == IF lang = "csharp" THEN CsharpStripAttributes(text) ELSE StripLeadingDecorations(text)
OpensIn(lang) == IF lang = "csharp" THEN {"["} ELSE {"@", "#["}
EndsIn(lang, text) ==
  [from \in 1..Len(text) |-> IF lang = "csharp" THEN AttributeEnd(text, from) ELSE DecorationEnd(text, from)]

\* No modifier is a blank or opens a decoration.
LEMMA ModifiersAreWords ==
  ASSUME NEW lang \in Stating
  PROVE  AllowedModifiers(lang) \cap (OpensIn(lang) \cup {Blank}) = {}
<1>1. OpensIn(lang) \cup {Blank} \subseteq {"[", "@", "#[", " "}
  BY DEF OpensIn, Blank
<1>2. /\ TypescriptModifiers \cap {"[", "@", "#[", " "} = {}
      /\ JavaModifiers \cap {"[", "@", "#[", " "} = {}
      /\ CsharpModifiers \cap {"[", "@", "#[", " "} = {}
      /\ PhpModifiers \cap {"[", "@", "#[", " "} = {}
      /\ SwiftModifiers \cap {"[", "@", "#[", " "} = {}
  BY DEF TypescriptModifiers, JavaModifiers, CsharpModifiers, PhpModifiers, SwiftModifiers
<1>3. AllowedModifiers(lang) \in {TypescriptModifiers, JavaModifiers, CsharpModifiers, PhpModifiers, SwiftModifiers}
  BY DEF AllowedModifiers
<1> QED
  BY <1>1, <1>2, <1>3

\* What leads a declaration, in its language.
Decorates(lang, part) == IF lang = "csharp" THEN IsAttribute(part) ELSE ReadsWhole(part)

\* It opens as its language says, and ends at a blank.
LEMMA DecorationsAre ==
  ASSUME NEW lang \in Stating, NEW part, Len(part) \in Nat, Decorates(lang, part)
  PROVE  Len(part) > 1 /\ part[1] \in OpensIn(lang) /\ part[Len(part)] = Blank
<1>1. CASE lang = "csharp"
  <2>1. Len(part) - 1 > 0
    BY <1>1 DEF IsAttribute, Decorates
  <2> QED
    BY <1>1, <2>1 DEF IsAttribute, OpensIn, Decorates
<1>2. CASE lang # "csharp"
  BY <1>2 DEF ReadsWhole, OpensIn, Decorates
<1> QED
  BY <1>1, <1>2

\* It ends there wherever the text holds it.
LEMMA DecorationsEnd ==
  ASSUME NEW lang \in Stating, NEW part, Len(part) \in Nat, Decorates(lang, part),
         NEW T, NEW text \in Seq(T), NEW o \in Nat, Holds(text, o, part)
  PROVE  EndsIn(lang, text)[o + 1] = o + Len(part)
<1>1. o + 1 \in 1..Len(text)
  <2>1. Len(text) \in Nat /\ o + Len(part) <= Len(text) /\ Len(part) > 1
    BY DecorationsAre DEF Holds
  <2> QED
    BY <2>1
<1>2. CASE lang = "csharp"
  <2>1. AttributeEnd(text, o + 1) = o + Len(part)
    BY <1>2, AttributeEnds DEF Decorates
  <2> QED
    BY <1>1, <1>2, <2>1 DEF EndsIn
<1>3. CASE lang # "csharp"
  <2>1. DecorationEnd(text, o + 1) = o + Len(part)
    BY <1>3, DecorationEnds DEF Decorates
  <2> QED
    BY <1>1, <1>3, <2>1 DEF EndsIn
<1> QED
  BY <1>2, <1>3

\* The access the words of a stripped declaration mean is what its modifiers state.
LEMMA ModifiersState ==
  ASSUME NEW lang, NEW parts, NEW def, IsDeclaration(lang, parts, def),
         lang # "csharp" => \A d \in Range(parts.decorations) : ~QuotesBracket(d),
         FirstAccess(parts.modifiers, MeansOf(lang)) # NotStated
  PROVE  FirstAccess(LeadingModifiers(StrippedIn(lang, def.signature), AllowedModifiers(lang)), MeansOf(lang))
           = FirstAccess(parts.modifiers, MeansOf(lang))
<1> DEFINE ds == parts.decorations
           mods == parts.modifiers
           rest == parts.rest
           n == Len(ds)
           T == UNION {Range(d) : d \in Range(ds)}
           M == AllowedModifiers(lang)
           R == Range(rest)
           text == def.signature
           spaced == Spaced(mods)
           U == T \cup M \cup {Blank} \cup R
           opens == OpensIn(lang)
           end == EndsIn(lang, text)
<1>1. /\ lang \in Stating /\ ds \in Seq(Seq(T)) /\ mods \in Seq(M) /\ rest \in Seq(R)
      /\ text = Spelled(parts)
      /\ \A d \in Range(ds) : Decorates(lang, d)
  <2>1. /\ lang \in Stating /\ ds \in Seq(Seq(T)) /\ mods \in Seq(M) /\ rest \in Seq(R)
        /\ text = Spelled(parts)
        /\ \A d \in Range(ds) : IF lang = "csharp" THEN IsAttribute(d) ELSE IsDecoration(d)
    BY DEF IsDeclaration, Stating
  <2> HIDE DEF T
  <2>2. ASSUME NEW d \in Range(ds) PROVE Decorates(lang, d)
    <3>1. d \in Seq(T)
      BY <2>1 DEF Range
    <3>2. Len(d) \in Nat /\ DOMAIN d = 1..Len(d)
      BY <3>1
    <3> QED
      BY <2>1, <3>2, PlainReadsWhole DEF Decorates
  <2> QED
    BY <2>1, <2>2
<1>2. n \in Nat /\ \A k \in 1..n : ds[k] \in Range(ds) /\ ds[k] \in Seq(T) /\ Len(ds[k]) \in Nat
  <2> HIDE DEF ds, T
  <2>1. DOMAIN ds = 1..n /\ n \in Nat /\ \A k \in 1..n : ds[k] \in Seq(T)
    BY <1>1
  <2> QED
    BY <2>1 DEF Range
<1> HIDE DEF ds, mods, rest, T, M, R, text, opens, end, spaced
<1>3. \A k \in 1..n : Len(ds[k]) > 1 /\ ds[k][1] \in opens /\ ds[k][Len(ds[k])] = Blank
  BY <1>1, <1>2, DecorationsAre DEF opens
<1>4. PICK cut : /\ Cuts(cut, n) /\ Lengths(ds, cut)
                 /\ \A k \in 1..n : Holds(text, cut[k - 1], ds[k])
                 /\ Holds(text, cut[n], spaced)
  <2>1. \A k \in 1..Len(ds) : Len(ds[k]) > 1
    BY <1>3
  <2> QED
    BY <1>1, <2>1, SpelledIs DEF ds, mods, rest, spaced
<1>5. text \in Seq(U)
  <2>1. \A k \in 1..Len(ds) : Len(ds[k]) > 1
    BY <1>3
  <2> QED
    BY <1>1, <2>1, SpelledIs DEF ds, mods, rest
<1> HIDE DEF U
<1>6. Len(mods) \in Nat /\ Len(mods) > 0 /\ Len(spaced) = 2 * Len(mods)
      /\ spaced[1] = mods[1] /\ mods[1] \in M
  <2>1. Len(mods) \in Nat /\ DOMAIN mods = 1..Len(mods)
    BY <1>1
  <2>2. Len(mods) # 0
    <3>1. {i \in DOMAIN mods : mods[i] \in DOMAIN MeansOf(lang)} # {}
      BY DEF FirstAccess, mods
    <3> QED
      BY <2>1, <3>1
  <2>3. 1 \in 1..Len(mods) /\ 2 * 1 - 1 = 1
    BY <2>1, <2>2
  <2>4. Len(spaced) = 2 * Len(mods) /\ \A j \in 1..Len(mods) : spaced[2 * j - 1] = mods[j]
    BY <1>1, SpacedIs DEF spaced
  <2>5. spaced[2 * 1 - 1] = mods[1]
    BY <2>3, <2>4
  <2>6. mods[1] \in M
    BY <1>1, <2>3
  <2> QED
    BY <2>1, <2>2, <2>3, <2>4, <2>5, <2>6
<1>7. /\ Len(text) \in Nat /\ cut[n] \in Nat /\ cut[n] + Len(spaced) <= Len(text) /\ cut[n] < Len(text)
      /\ text[cut[n] + 1] = mods[1]
  <2>1. Len(text) \in Nat /\ cut[n] \in Nat
    BY <1>2, <1>4, <1>5 DEF Cuts
  <2>2. cut[n] + Len(spaced) <= Len(text) /\ 1 \in 1..Len(spaced)
    BY <1>4, <1>6 DEF Holds
  <2>3. text[cut[n] + 1] = spaced[1]
    BY <1>4, <2>2 DEF Holds
  <2> QED
    BY <1>6, <2>1, <2>2, <2>3
<1>8. text[cut[n] + 1] \notin opens \cup {Blank} /\ Blank \notin opens
  <2>1. M \cap (opens \cup {Blank}) = {}
    BY <1>1, ModifiersAreWords DEF M, opens
  <2>2. Blank \notin opens
    BY DEF opens, OpensIn, Blank
  <2> QED
    BY <1>6, <1>7, <2>1, <2>2
<1>9. ASSUME NEW k \in 1..n
      PROVE  /\ text[cut[k - 1] + 1] \in opens /\ end[cut[k - 1] + 1] = cut[k]
             /\ text[cut[k]] = Blank /\ cut[k] <= Len(text)
  <2> DEFINE o == cut[k - 1]
             len == Len(ds[k])
  <2>1. o \in Nat /\ len \in Nat /\ len > 1 /\ cut[k] = o + len /\ Holds(text, o, ds[k])
    <3>1. k - 1 \in 0..n
      BY <1>2
    <3>2. cut[k - 1] \in Nat
      BY <1>4, <3>1 DEF Cuts
    <3> QED
      BY <1>2, <1>3, <1>4, <3>2 DEF Lengths
  <2>2. end[o + 1] = o + len
    <3>1. Decorates(lang, ds[k]) /\ Len(ds[k]) \in Nat /\ Holds(text, o, ds[k]) /\ o \in Nat
      BY <1>1, <1>2, <2>1
    <3> HIDE DEF o
    <3>2. EndsIn(lang, text)[o + 1] = o + Len(ds[k])
      BY <1>1, <1>5, <3>1, DecorationsEnd
    <3> QED
      BY <3>2 DEF end
  <2>3. /\ o + len <= Len(text) /\ 1 \in 1..len /\ len \in 1..len
        /\ text[o + 1] = ds[k][1] /\ text[o + len] = ds[k][len]
    <3>1. 1 \in 1..len /\ len \in 1..len
      BY <2>1
    <3> QED
      BY <2>1, <3>1 DEF Holds
  <2> QED
    BY <1>3, <2>1, <2>2, <2>3
<1>10. end \in [1..Len(text) -> 1..(Len(text) + 1)]
  <2>1. \A from \in 1..Len(text) : /\ DecorationEnd(text, from) \in 1..(Len(text) + 1)
                                   /\ AttributeEnd(text, from) \in 1..(Len(text) + 1)
    BY <1>5, EndsAreInside
  <2> QED
    BY <2>1 DEF end, EndsIn
<1> DEFINE strip == StrippedIn(lang, text)
<1>11. strip = Stripped(text, opens, end)
  <2>1. DOMAIN text = 1..Len(text)
    BY <1>5
  <2>2. CASE lang = "csharp"
    <3>1. end = [from \in DOMAIN text |-> AttributeEnd(text, from)]
      BY <2>1, <2>2 DEF end, EndsIn
    <3> QED
      BY <2>2, <3>1 DEF StrippedIn, CsharpStripAttributes, opens, OpensIn
  <2>3. CASE lang # "csharp"
    <3>1. end = [from \in DOMAIN text |-> DecorationEnd(text, from)]
      BY <2>1, <2>3 DEF end, EndsIn
    <3> QED
      BY <2>3, <3>1 DEF StrippedIn, StripLeadingDecorations, opens, OpensIn
  <2> QED
    BY <2>2, <2>3
<1>12. Stripped(text, opens, end) = SubSeq(text, cut[n] + 1, Len(text))
  <2>1. Cutting(text, opens, end, cut, n)
    BY <1>8, <1>9 DEF Cutting
  <2> QED
    BY <1>2, <1>4, <1>5, <1>7, <1>8, <1>10, <2>1, StrippedIs
<1> HIDE DEF strip
<1>13. strip \in Seq(U) /\ Holds(strip, 0, spaced)
  <2> DEFINE S == cut[n]
  <2>1. S \in Nat /\ S <= Len(text) /\ Len(text) \in Nat
    BY <1>7
  <2>2. /\ strip \in Seq(U) /\ Len(strip) = Len(text) - S
        /\ \A i \in 1..(Len(text) - S) : strip[i] = text[S + i]
    <3> HIDE DEF S
    <3>1. strip = SubSeq(text, S + 1, Len(text))
      BY <1>11, <1>12 DEF S
    <3> QED
      BY <1>5, <2>1, <3>1
  <2>3. Len(spaced) \in Nat /\ Len(spaced) <= Len(text) - S
    BY <1>6, <1>7
  <2>4. ASSUME NEW i \in 1..Len(spaced) PROVE strip[0 + i] = spaced[i]
    <3>1. i \in 1..(Len(text) - S) /\ 0 + i = i
      BY <2>1, <2>3
    <3> QED
      BY <1>4, <2>2, <3>1 DEF Holds
  <2> QED
    BY <2>2, <2>3, <2>4 DEF Holds
<1> DEFINE words == LeadingModifiers(strip, M)
<1>14. words \in Seq(U) /\ Len(mods) <= Len(words) /\ \A j \in 1..Len(mods) : words[j] = mods[j]
  BY <1>1, <1>13, ModifiersLead DEF spaced
<1> HIDE DEF words
<1>15. FirstAccess(words, MeansOf(lang)) = FirstAccess(mods, MeansOf(lang))
  <2> DEFINE means == MeansOf(lang)
  <2>1. FirstAccess(mods, means) # NotStated
    BY DEF mods
  <2> HIDE DEF means
  <2>2. FirstAccess(words, means) = FirstAccess(mods, means)
    BY <1>1, <1>14, <2>1, FirstOfLonger
  <2> QED
    BY <2>2 DEF means
<1> QED
  BY <1>15 DEF words, strip, mods, M, text

\* However many decorations lead it, whatever follows its modifiers, whatever it is promoted
\* to and whatever encloses it, a declaration has the access its words state (refine,
\* enclose), unless it is a C# namespace, or a decoration of another language quotes a
\* bracket, which strip_leading_decorations counts.
THEOREM DeclaredAccessWins ==
  ASSUME NEW lang, NEW parts, NEW def, NEW enclosing, IsDeclaration(lang, parts, def)
  PROVE  StatedAccessWins(lang, parts, def, Settled(lang, def, enclosing))
<1> DEFINE stated == FirstAccess(parts.modifiers, MeansOf(lang))
           words == LeadingModifiers(StrippedIn(lang, def.signature), AllowedModifiers(lang))
<1> SUFFICES ASSUME stated # NotStated, lang = "csharp" => def.kind # "module",
                    lang # "csharp" => \A d \in Range(parts.decorations) : ~QuotesBracket(d)
             PROVE  Settled(lang, def, enclosing).visibility = stated
  BY DEF StatedAccessWins
<1>1. FirstAccess(words, MeansOf(lang)) = stated
  BY ModifiersState
<1> HIDE DEF stated, words
<1> DEFINE named == [def EXCEPT !.kind = KindOf(lang, @), !.visibility =
                       IF def.isLocal THEN "private" ELSE NameVisibility(lang, def.name)]
           said == State(named, stated)
<1>2. /\ named.signature = def.signature /\ named.kind = KindOf(lang, def.kind)
      /\ said.visibility = stated /\ said.signature = def.signature /\ said.kind = KindOf(lang, def.kind)
      /\ \A kind : [said EXCEPT !.kind = kind].visibility = stated
      /\ \A from, to, cond : Promote(said, from, to, cond).visibility = stated
  <2>1. def = [name |-> def.name, kind |-> def.kind, isLocal |-> def.isLocal, attributes |-> def.attributes,
               signature |-> def.signature, visibility |-> def.visibility]
    BY DEF IsDeclaration
  <2>2. /\ said = [named EXCEPT !.visibility = stated]
        /\ {"kind", "signature", "visibility"} \subseteq DOMAIN def
    BY <2>1 DEF State
  <2>3. /\ DOMAIN named = DOMAIN def /\ named.signature = def.signature /\ named.kind = KindOf(lang, def.kind)
        /\ DOMAIN said = DOMAIN def
    BY <2>2
  <2>4. said.visibility = stated /\ said.signature = def.signature /\ said.kind = KindOf(lang, def.kind)
    BY <2>2, <2>3
  <2>5. \A kind : [said EXCEPT !.kind = kind].visibility = stated
    BY <2>2, <2>3, <2>4
  <2> HIDE DEF said, named
  <2> QED
    BY <2>3, <2>4, <2>5 DEF Promote
<1>3. lang \in Stating
  BY DEF IsDeclaration, Stating
<1>4. CASE lang = "typescript"
  <2>1. TypescriptDeclaredVisibility(def.signature) = stated
    BY <1>1, <1>4 DEF words, TypescriptDeclaredVisibility, TypescriptModifierRun, StrippedIn, AllowedModifiers, MeansOf
  <2>2. Settled(lang, def, enclosing) = TypescriptRefine(named)
    BY <1>4 DEF Settled, Enclose, Refine
  <2> HIDE DEF named
  <2>3. State(named, TypescriptDeclaredVisibility(named.signature)) = said
    BY <1>2, <2>1
  <2> HIDE DEF said
  <2> QED
    BY <1>2, <2>2, <2>3 DEF TypescriptRefine
<1>5. CASE lang = "java"
  <2>1. JavaDeclaredVisibility(def.signature) = stated
    BY <1>1, <1>5 DEF words, JavaDeclaredVisibility, StrippedIn, AllowedModifiers, MeansOf
  <2>2. Settled(lang, def, enclosing) = JavaRefine(named)
    BY <1>5 DEF Settled, Enclose, Refine
  <2> HIDE DEF named
  <2>3. JavaDeclaredVisibility(named.signature) = stated
    BY <1>2, <2>1
  <2>4. JavaRefine(named) = said
    BY <2>3 DEF JavaRefine
  <2> HIDE DEF said
  <2> QED
    BY <1>2, <2>2, <2>4
<1>6. CASE lang = "php"
  <2>1. PhpDeclaredVisibility(def.signature) = stated
    BY <1>1, <1>6 DEF words, PhpDeclaredVisibility, StrippedIn, AllowedModifiers, MeansOf
  <2>2. Settled(lang, def, enclosing) = PhpRefine(named)
    BY <1>6 DEF Settled, Enclose, Refine
  <2> HIDE DEF named
  <2>3. State(named, PhpDeclaredVisibility(named.signature)) = said
    BY <1>2, <2>1
  <2>4. DOMAIN said = DOMAIN def
    BY DEF said, State, named
  <2> HIDE DEF said
  <2>5. \A from, to, cond : LET p == Promote(said, from, to, cond)
                            IN  p = said \/ p = [said EXCEPT !.kind = to]
    BY DEF Promote
  <2> QED
    <3> DEFINE declaration == StripLeadingDecorations(named.signature)
               member == \/ LeadingModifiers(declaration, PhpModifiers) # <<>>
                         \/ declaration # <<>> /\ Last(declaration) = ";"
               p == Promote(said, "function", "method", member)
    <3>1. p = said \/ p = [said EXCEPT !.kind = "method"]
      BY DEF Promote
    <3>2. PhpRefine(named) = Promote(p, "method", "constructor", named.name.word = "__construct")
      BY <2>3 DEF PhpRefine
    <3> HIDE DEF p
    <3>4. p.visibility = stated /\ [p EXCEPT !.kind = "constructor"].visibility = stated
      <4>1. CASE p = said
        BY <1>2, <4>1
      <4>2. CASE p = [said EXCEPT !.kind = "method"]
        <5>1. DOMAIN p = DOMAIN said /\ p.visibility = stated
          BY <1>2, <4>2
        <5> QED
          BY <5>1
      <4> QED
        BY <3>1, <4>1, <4>2
    <3>3. Promote(p, "method", "constructor", named.name.word = "__construct").visibility = stated
      BY <3>4 DEF Promote
    <3> QED
      BY <2>2, <3>2, <3>3
<1>7. CASE lang = "swift"
  <2>1. SwiftDeclaredVisibility(def.signature) = stated
    BY <1>1, <1>7 DEF words, SwiftDeclaredVisibility, StrippedIn, AllowedModifiers, MeansOf
  <2>2. Settled(lang, def, enclosing) = SwiftRefine(named)
    BY <1>7 DEF Settled, Enclose, Refine
  <2> HIDE DEF named
  <2>3. State(named, SwiftDeclaredVisibility(named.signature)) = said
    BY <1>2, <2>1
  <2> HIDE DEF said
  <2> QED
    BY <1>2, <2>2, <2>3 DEF SwiftRefine
<1>8. CASE lang = "csharp"
  <2>1. CsharpDeclaredVisibility(def.signature) = stated
    BY <1>1, <1>8 DEF words, CsharpDeclaredVisibility, StrippedIn, AllowedModifiers, MeansOf
  <2>2. Settled(lang, def, enclosing) = CsharpEnclose(CsharpRefine(named), enclosing)
    BY <1>8 DEF Settled, Enclose, Refine
  <2>3. named.kind # "module"
    BY <1>2, <1>8 DEF KindOf
  <2> HIDE DEF named
  <2>4. CsharpRefine(named) = said
    BY <1>2, <2>1, <2>3 DEF CsharpRefine
  <2> HIDE DEF said
  <2>5. CsharpEnclose(said, enclosing) = said
    <3>1. CsharpDeclaredVisibility(said.signature) # NotStated
      BY <1>2, <2>1
    <3> QED
      BY <3>1 DEF CsharpEnclose
  <2> QED
    BY <1>2, <2>2, <2>4, <2>5
<1> QED
  BY <1>3, <1>4, <1>5, <1>6, <1>7, <1>8 DEF Stating

\* Whatever declaration is read, the access it states is the access it has, with the
\* exceptions StatedAccessWins names.
THEOREM AccessesAreServed == RequestSpec => []AccessServed
<1>1. RequestInvariant => AccessServed
  BY DeclaredAccessWins DEF RequestInvariant, Requested, AccessServed, Answered
<1> QED
  BY <1>1, RequestsAreAnswered, PTL
=============================================================================
