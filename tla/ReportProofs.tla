---------------------------- MODULE ReportProofs ----------------------------
(***************************************************************************)
(* Proofs about three reports rr makes, for inputs of any size: the        *)
(* release gate's verdict on the shards of a run (Quality), what a frozen  *)
(* corpus's lock says of a disk (Corpus), and what changed together in the *)
(* last commits (CoChange).                                                *)
(***************************************************************************)
EXTENDS AlgorithmProofs

----------------------------------------------------------------------------
(* The release gate.                                                       *)

Kinds == {"routing", "safety"}
IsFiled(expected, shards) ==
  /\ expected \in Seq(Range(expected)) /\ shards \in Seq(Range(shards))
  /\ \A c \in Range(expected) : c.kind \in Kinds
  /\ \A i \in DOMAIN shards : \A kind \in Kinds : shards[i][kind] \in Seq(Range(shards[i][kind]))

\* What aggregate asks of the shards and of the corpus, in no order.
ShardsAgree(shards) ==
  /\ \A i \in DOMAIN shards :
       /\ shards[i].version = SchemaVersion /\ shards[i].shards = CorpusShards
       /\ ~(shards[i].shard >= CorpusShards) /\ shards[i].digest # BadDigest
  /\ \A i, j \in DOMAIN shards :
       i # j => shards[i].shard # shards[j].shard /\ shards[i].digest = shards[j].digest
ShardsThere(shards) == 0..(CorpusShards - 1) \subseteq {s.shard : s \in Range(shards)}
CasesDiffer(expected) == \A i, j \in DOMAIN expected : i # j => expected[i].id # expected[j].id
FiledRight(expected, shards, kind) ==
  \A f \in Filings(shards, kind) :
    /\ Place(expected, Filed(shards, kind, f).id, kind, shards[f[1]].shard) = "none"
    /\ \A g \in Filings(shards, kind) : g # f => Filed(shards, kind, g).id # Filed(shards, kind, f).id
FiledAll(expected, shards) ==
  \A c \in Range(expected) : \E f \in Filings(shards, c.kind) : Filed(shards, c.kind, f).id = c.id
IsClean(expected, shards) ==
  /\ ShardsAgree(shards) /\ ShardsThere(shards) /\ CasesDiffer(expected)
  /\ FiledRight(expected, shards, "routing") /\ FiledRight(expected, shards, "safety")
  /\ FiledAll(expected, shards)

\* No shard is refused exactly when they agree.
LEMMA NoShardFault ==
  ASSUME NEW shards, shards \in Seq(Range(shards))
  PROVE  (\A i \in DOMAIN shards : ShardFault(shards, i) = "none") <=> ShardsAgree(shards)
<1> DEFINE SoundShard(s) == /\ s.version = SchemaVersion /\ s.shards = CorpusShards
                            /\ ~(s.shard >= CorpusShards) /\ s.digest # BadDigest
           New(i) == \A j \in 1..(i - 1) : shards[j].shard # shards[i].shard /\ shards[j].digest = shards[i].digest
<1>1. DOMAIN shards = 1..Len(shards) /\ Len(shards) \in Nat
  OBVIOUS
<1>2. ASSUME NEW i \in DOMAIN shards PROVE ShardFault(shards, i) = "none" <=> SoundShard(shards[i]) /\ New(i)
  <2> DEFINE before == {shards[j] : j \in 1..(i - 1)}
  <2>1. shards[i].shard \in {b.shard : b \in before} <=> \E j \in 1..(i - 1) : shards[j].shard = shards[i].shard
    OBVIOUS
  <2>2. (\E b \in before : b.digest # shards[i].digest)
          <=> \E j \in 1..(i - 1) : shards[j].digest # shards[i].digest
    OBVIOUS
  <2> QED
    BY <2>1, <2>2 DEF ShardFault
<1>3. (\A i \in DOMAIN shards : New(i)) <=>
        \A i, j \in DOMAIN shards : i # j => shards[i].shard # shards[j].shard /\ shards[i].digest = shards[j].digest
  <2>1. ASSUME \A i \in DOMAIN shards : New(i), NEW i \in DOMAIN shards, NEW j \in DOMAIN shards, i # j
        PROVE  shards[i].shard # shards[j].shard /\ shards[i].digest = shards[j].digest
    <3>1. j \in 1..(i - 1) \/ i \in 1..(j - 1)
      BY <1>1, <2>1
    <3> QED
      BY <2>1, <3>1
  <2>2. \A i \in DOMAIN shards : \A j \in 1..(i - 1) : j \in DOMAIN shards /\ i # j
    BY <1>1
  <2> QED
    BY <2>1, <2>2
<1> HIDE DEF SoundShard, New
<1>4. (\A i \in DOMAIN shards : ShardFault(shards, i) = "none") <=>
        (\A i \in DOMAIN shards : SoundShard(shards[i])) /\ (\A i \in DOMAIN shards : New(i))
  BY <1>2
<1> QED
  BY <1>3, <1>4 DEF ShardsAgree, SoundShard

\* No case is refused exactly when each is filed once, where it belongs.
LEMMA NoCaseFault ==
  ASSUME NEW expected, NEW shards, IsFiled(expected, shards), NEW kind \in Kinds
  PROVE  (\A f \in Filings(shards, kind) : CaseFault(expected, shards, kind, f) = "none")
           <=> FiledRight(expected, shards, kind)
<1> DEFINE F == Filings(shards, kind)
           id(f) == Filed(shards, kind, f).id
           Placed(f) == Place(expected, id(f), kind, shards[f[1]].shard)
<1>1. \A f \in F : f[1] \in Nat /\ f[2] \in Nat /\ f = <<f[1], f[2]>>
  <2>1. \A i \in DOMAIN shards : i \in Nat /\ DOMAIN shards[i][kind] \subseteq Nat
    BY DEF IsFiled
  <2> QED
    BY <2>1 DEF Filings
<1>2. \A f, g \in F : f # g => Earlier(f, g) \/ Earlier(g, f)
  <2> TAKE f, g \in F
  <2>1. f[1] \in Nat /\ f[2] \in Nat /\ g[1] \in Nat /\ g[2] \in Nat /\ f = <<f[1], f[2]>> /\ g = <<g[1], g[2]>>
    BY <1>1
  <2> HIDE DEF F
  <2> QED
    BY <2>1 DEF Earlier
<1>3. \A f \in F : ~Earlier(f, f)
  <2> TAKE f \in F
  <2>1. f[1] \in Nat /\ f[2] \in Nat
    BY <1>1
  <2> QED
    BY <2>1 DEF Earlier
<1>4. \A f \in F : CaseFault(expected, shards, kind, f) = "none" <=>
                     Placed(f) = "none" /\ \A g \in F : Earlier(g, f) => id(g) # id(f)
  BY DEF CaseFault
<1> HIDE DEF F, id, Placed
<1>5. FiledRight(expected, shards, kind) <=>
        \A f \in F : Placed(f) = "none" /\ \A g \in F : g # f => id(g) # id(f)
  BY DEF FiledRight, F, id, Placed
<1> QED
  BY <1>2, <1>3, <1>4, <1>5 DEF F

\* aggregate refuses nothing exactly when the shards and the corpus are as asked.
LEMMA NoFaultsMeansClean ==
  ASSUME NEW expected, NEW shards, IsFiled(expected, shards)
  PROVE  AggregationFaults(expected, shards) = {} <=> IsClean(expected, shards)
<1> DEFINE refused == {ShardFault(shards, i) : i \in DOMAIN shards}
           missing == (0..(CorpusShards - 1)) \ {s.shard : s \in Range(shards)}
           twice == {q \in (DOMAIN expected) \X (DOMAIN expected) :
                       q[1] < q[2] /\ expected[q[1]].id = expected[q[2]].id}
           faults(kind) == {CaseFault(expected, shards, kind, p) : p \in Filings(shards, kind)}
           unfiled == {x \in Range(expected) :
                         x.id \notin {Filed(shards, x.kind, p).id : p \in Filings(shards, x.kind)}}
<1>1. AggregationFaults(expected, shards) =
        (refused \cup {"missing-shard" : n \in missing} \cup {"duplicate-case" : p \in twice}
         \cup faults("routing") \cup faults("safety") \cup {"missing-case" : c \in unfiled}) \ {"none"}
  BY DEF AggregationFaults
<1>2. refused \subseteq {"none"} <=> ShardsAgree(shards)
  <2>1. refused \subseteq {"none"} <=> \A i \in DOMAIN shards : ShardFault(shards, i) = "none"
    OBVIOUS
  <2> QED
    BY <2>1, NoShardFault DEF IsFiled
<1>3. missing = {} <=> ShardsThere(shards)
  BY DEF ShardsThere
<1>4. twice = {} <=> CasesDiffer(expected)
  <2>1. DOMAIN expected \subseteq Nat
    BY DEF IsFiled
  <2>2. ASSUME twice = {}, NEW i \in DOMAIN expected, NEW j \in DOMAIN expected, i # j
        PROVE  expected[i].id # expected[j].id
    <3>1. <<i, j>> \notin twice /\ <<j, i>> \notin twice
      BY <2>2
    <3>2. i < j \/ j < i
      BY <2>1, <2>2
    <3> QED
      BY <3>1, <3>2
  <2>3. ASSUME CasesDiffer(expected), NEW q \in twice PROVE FALSE
    <3>1. q[1] \in DOMAIN expected /\ q[2] \in DOMAIN expected /\ q[1] < q[2]
          /\ expected[q[1]].id = expected[q[2]].id
      OBVIOUS
    <3>2. q[1] # q[2]
      BY <2>1, <3>1
    <3> QED
      BY <2>3, <3>1, <3>2 DEF CasesDiffer
  <2> HIDE DEF twice
  <2> QED
    BY <2>2, <2>3 DEF CasesDiffer
<1>5. \A kind \in Kinds : faults(kind) \subseteq {"none"} <=> FiledRight(expected, shards, kind)
  <2> TAKE kind \in Kinds
  <2>1. faults(kind) \subseteq {"none"} <=>
          \A f \in Filings(shards, kind) : CaseFault(expected, shards, kind, f) = "none"
    OBVIOUS
  <2> QED
    BY <2>1, NoCaseFault
<1>6. unfiled = {} <=> FiledAll(expected, shards)
  BY DEF FiledAll
<1> HIDE DEF refused, missing, twice, faults, unfiled
<1>7. AggregationFaults(expected, shards) = {} <=>
        /\ refused \subseteq {"none"} /\ missing = {} /\ twice = {}
        /\ faults("routing") \subseteq {"none"} /\ faults("safety") \subseteq {"none"} /\ unfiled = {}
  BY <1>1
<1> QED
  BY <1>2, <1>3, <1>4, <1>5, <1>6, <1>7 DEF IsClean, Kinds

\* Read backwards, the shards say the same of the same cases.
Flip(shards, f) == <<(Len(shards) - f[1]) + 1, f[2]>>
LEMMA Backwards ==
  ASSUME NEW shards, shards \in Seq(Range(shards))
  PROVE  /\ Reverse(shards) \in Seq(Range(Reverse(shards))) /\ Range(Reverse(shards)) = Range(shards)
         /\ Len(Reverse(shards)) = Len(shards) /\ DOMAIN Reverse(shards) = DOMAIN shards
         /\ Len(shards) \in Nat /\ DOMAIN shards = 1..Len(shards)
         /\ \A i \in DOMAIN shards : /\ (Len(shards) - i) + 1 \in DOMAIN shards
                                      /\ Reverse(shards)[i] = shards[(Len(shards) - i) + 1]
<1> DEFINE n == Len(shards)
           R == Range(shards)
           back == [i \in 1..n |-> shards[(n - i) + 1]]
<1>1. n \in Nat /\ DOMAIN shards = 1..n /\ \A i \in 1..n : shards[i] \in R /\ (n - i) + 1 \in 1..n
  BY DEF Range
<1>2. Reverse(shards) = back
  BY DEF Reverse
<1> HIDE DEF n, R
<1>3. back \in Seq(R) /\ Len(back) = n /\ DOMAIN back = 1..n /\ \A i \in 1..n : back[i] = shards[(n - i) + 1]
  BY <1>1
<1>4. Range(back) = R
  <2>1. \A x \in R : \E i \in 1..n : back[i] = x
    <3> TAKE x \in R
    <3>1. PICK i \in 1..n : shards[i] = x
      BY <1>1 DEF R, Range
    <3>2. (n - i) + 1 \in 1..n /\ (n - ((n - i) + 1)) + 1 = i
      BY <1>1
    <3>3. back[(n - i) + 1] = shards[(n - ((n - i) + 1)) + 1]
      BY <1>3, <3>2
    <3> QED
      BY <3>1, <3>2, <3>3
  <2>2. \A i \in 1..n : back[i] \in R
    BY <1>1, <1>3
  <2> HIDE DEF back
  <2> QED
    BY <1>3, <2>1, <2>2 DEF Range
<1> HIDE DEF back
<1>5. back \in Seq(Range(back))
  BY <1>3, <1>4
<1> QED
  BY <1>1, <1>2, <1>3, <1>4, <1>5 DEF n, R

\* A report of one is a report of the other, at the shard as far from the other end.
LEMMA FilingsBackwards ==
  ASSUME NEW expected, NEW shards, IsFiled(expected, shards), NEW kind \in Kinds
  PROVE  /\ \A f \in Filings(Reverse(shards), kind) :
              /\ Flip(shards, f) \in Filings(shards, kind) /\ Flip(shards, Flip(shards, f)) = f
              /\ Filed(Reverse(shards), kind, f) = Filed(shards, kind, Flip(shards, f))
              /\ Reverse(shards)[f[1]].shard = shards[Flip(shards, f)[1]].shard
         /\ \A f \in Filings(shards, kind) :
              /\ Flip(shards, f) \in Filings(Reverse(shards), kind) /\ Flip(shards, Flip(shards, f)) = f
<1> DEFINE n == Len(shards)
           back == Reverse(shards)
           opposite(i) == (n - i) + 1
<1>1. /\ n \in Nat /\ DOMAIN shards = 1..n /\ DOMAIN back = 1..n
      /\ \A i \in 1..n : opposite(i) \in 1..n /\ back[i] = shards[opposite(i)]
  BY Backwards DEF IsFiled
<1>2. \A i \in 1..n : opposite(opposite(i)) = i
  BY <1>1
<1>3. \A f : Flip(shards, f) = <<opposite(f[1]), f[2]>>
  BY DEF Flip
<1> HIDE DEF opposite, back, n
<1>4. \A f : f \in Filings(shards, kind) <=>
               f[1] \in 1..n /\ f[2] \in DOMAIN shards[f[1]][kind] /\ f = <<f[1], f[2]>>
  BY <1>1 DEF Filings
<1>5. \A f : f \in Filings(back, kind) <=>
               f[1] \in 1..n /\ f[2] \in DOMAIN back[f[1]][kind] /\ f = <<f[1], f[2]>>
  BY <1>1 DEF Filings
<1>6. ASSUME NEW f \in Filings(back, kind)
      PROVE  /\ Flip(shards, f) \in Filings(shards, kind) /\ Flip(shards, Flip(shards, f)) = f
             /\ Filed(back, kind, f) = Filed(shards, kind, Flip(shards, f))
             /\ back[f[1]].shard = shards[Flip(shards, f)[1]].shard
  <2> DEFINE g == <<opposite(f[1]), f[2]>>
  <2>1. f[1] \in 1..n /\ f[2] \in DOMAIN back[f[1]][kind] /\ f = <<f[1], f[2]>>
    BY <1>5
  <2>2. g[1] = opposite(f[1]) /\ g[2] = f[2] /\ g = <<g[1], g[2]>> /\ back[f[1]] = shards[g[1]] /\ g[1] \in 1..n
    BY <1>1, <2>1
  <2>3. Flip(shards, f) = g
    BY <1>3
  <2>4. Flip(shards, g) = <<opposite(g[1]), g[2]>>
    BY <1>3
  <2> HIDE DEF g
  <2>5. g \in Filings(shards, kind)
    BY <1>4, <2>1, <2>2
  <2>6. Flip(shards, g) = f
    BY <1>2, <2>1, <2>2, <2>4
  <2>7. Filed(back, kind, f) = Filed(shards, kind, g)
    BY <2>2 DEF Filed
  <2> QED
    BY <2>2, <2>3, <2>5, <2>6, <2>7
<1>7. ASSUME NEW f \in Filings(shards, kind)
      PROVE  Flip(shards, f) \in Filings(back, kind) /\ Flip(shards, Flip(shards, f)) = f
  <2> DEFINE g == <<opposite(f[1]), f[2]>>
  <2>1. f[1] \in 1..n /\ f[2] \in DOMAIN shards[f[1]][kind] /\ f = <<f[1], f[2]>>
    BY <1>4
  <2>2. g[1] = opposite(f[1]) /\ g[2] = f[2] /\ g = <<g[1], g[2]>> /\ g[1] \in 1..n
    BY <1>1, <2>1
  <2>3. back[g[1]] = shards[opposite(g[1])] /\ opposite(g[1]) = f[1]
    BY <1>1, <1>2, <2>1, <2>2
  <2>4. Flip(shards, f) = g /\ Flip(shards, g) = <<opposite(g[1]), g[2]>>
    BY <1>3
  <2> HIDE DEF g
  <2>5. g \in Filings(back, kind)
    BY <1>5, <2>1, <2>2, <2>3
  <2> QED
    BY <2>1, <2>2, <2>3, <2>4, <2>5
<1> QED
  BY <1>6, <1>7 DEF back

\* Shards that are as asked are so in the opposite order.
LEMMA BackwardsIsClean ==
  ASSUME NEW expected, NEW shards, IsFiled(expected, shards), IsClean(expected, shards)
  PROVE  IsFiled(expected, Reverse(shards)) /\ IsClean(expected, Reverse(shards))
<1> DEFINE back == Reverse(shards)
           n == Len(shards)
<1>1. /\ back \in Seq(Range(back)) /\ Range(back) = Range(shards) /\ DOMAIN back = DOMAIN shards
      /\ n \in Nat /\ DOMAIN shards = 1..n
      /\ \A i \in DOMAIN shards : (n - i) + 1 \in DOMAIN shards /\ back[i] = shards[(n - i) + 1]
  BY Backwards DEF IsFiled
<1> HIDE DEF back, n
<1>2. IsFiled(expected, back)
  BY <1>1 DEF IsFiled
<1>3. ShardsAgree(back)
  <2>1. ASSUME NEW i \in DOMAIN back
        PROVE  /\ back[i].version = SchemaVersion /\ back[i].shards = CorpusShards
               /\ ~(back[i].shard >= CorpusShards) /\ back[i].digest # BadDigest
    BY <1>1 DEF IsClean, ShardsAgree
  <2>2. ASSUME NEW i \in DOMAIN back, NEW j \in DOMAIN back, i # j
        PROVE  back[i].shard # back[j].shard /\ back[i].digest = back[j].digest
    <3> DEFINE k == (n - i) + 1
               l == (n - j) + 1
    <3>1. k # l /\ k \in DOMAIN shards /\ l \in DOMAIN shards /\ back[i] = shards[k] /\ back[j] = shards[l]
      BY <1>1, <2>2
    <3> HIDE DEF k, l
    <3> QED
      BY <3>1 DEF IsClean, ShardsAgree
  <2> QED
    BY <2>1, <2>2 DEF ShardsAgree
<1>4. ShardsThere(back) /\ CasesDiffer(expected)
  BY <1>1 DEF IsClean, ShardsThere
<1>5. ASSUME NEW kind \in Kinds, FiledRight(expected, shards, kind) PROVE FiledRight(expected, back, kind)
  <2>1. \A f \in Filings(back, kind) :
              /\ Flip(shards, f) \in Filings(shards, kind) /\ Flip(shards, Flip(shards, f)) = f
              /\ Filed(back, kind, f) = Filed(shards, kind, Flip(shards, f))
              /\ back[f[1]].shard = shards[Flip(shards, f)[1]].shard
    BY FilingsBackwards DEF back
  <2> QED
    BY <1>5, <2>1 DEF FiledRight
<1>6. FiledAll(expected, back)
  <2> SUFFICES ASSUME NEW c \in Range(expected)
               PROVE  \E f \in Filings(back, c.kind) : Filed(back, c.kind, f).id = c.id
    BY DEF FiledAll
  <2>1. c.kind \in Kinds
    BY DEF IsFiled
  <2>2. PICK f \in Filings(shards, c.kind) : Filed(shards, c.kind, f).id = c.id
    BY DEF IsClean, FiledAll
  <2>3. Flip(shards, f) \in Filings(back, c.kind) /\ Flip(shards, Flip(shards, f)) = f
    BY <2>1, FilingsBackwards DEF back
  <2>4. Filed(back, c.kind, Flip(shards, f)) = Filed(shards, c.kind, f)
    BY <2>1, <2>3, FilingsBackwards DEF back
  <2> QED
    BY <2>2, <2>3, <2>4
<1> QED
  BY <1>2, <1>3, <1>4, <1>5, <1>6 DEF IsClean, Kinds, back

\* What is said of a case is what the one filing of it says.
SaidOf(shards, c) ==
  Filed(shards, c.kind, CHOOSE p \in Filings(shards, c.kind) : Filed(shards, c.kind, p).id = c.id)
LEMMA SaidOnce ==
  ASSUME NEW expected, NEW shards, IsFiled(expected, shards), IsClean(expected, shards),
         NEW c \in Range(expected)
  PROVE  \E f \in Filings(shards, c.kind) :
           /\ {p \in Filings(shards, c.kind) : Filed(shards, c.kind, p).id = c.id} = {f}
           /\ SaidOf(shards, c) = Filed(shards, c.kind, f) /\ shards[f[1]].shard = c.shard
<1>1. c.kind \in Kinds
  BY DEF IsFiled
<1>2. PICK f \in Filings(shards, c.kind) : Filed(shards, c.kind, f).id = c.id
  BY DEF IsClean, FiledAll
<1>3. FiledRight(expected, shards, c.kind)
  BY <1>1 DEF IsClean, Kinds
<1>4. {p \in Filings(shards, c.kind) : Filed(shards, c.kind, p).id = c.id} = {f}
  BY <1>2, <1>3 DEF FiledRight
<1>5. SaidOf(shards, c) = Filed(shards, c.kind, f)
  BY <1>2, <1>4 DEF SaidOf
<1>6. shards[f[1]].shard = c.shard
  <2>1. Place(expected, c.id, c.kind, shards[f[1]].shard) = "none"
    BY <1>2, <1>3 DEF FiledRight
  <2>2. PICK d \in Range(expected) : d.id = c.id /\ d.shard = shards[f[1]].shard
    BY <2>1 DEF Place
  <2>3. d = c
    BY <2>2 DEF IsClean, CasesDiffer, Range
  <2> QED
    BY <2>2, <2>3
<1> QED
  BY <1>4, <1>5, <1>6

\* What is said of a case does not depend on the order of the shards.
LEMMA SaidBackwards ==
  ASSUME NEW expected, NEW shards, IsFiled(expected, shards), IsClean(expected, shards),
         NEW c \in Range(expected)
  PROVE  SaidOf(Reverse(shards), c) = SaidOf(shards, c)
<1> DEFINE back == Reverse(shards)
<1>1. c.kind \in Kinds
  BY DEF IsFiled
<1>2. PICK f \in Filings(shards, c.kind) :
        /\ {p \in Filings(shards, c.kind) : Filed(shards, c.kind, p).id = c.id} = {f}
        /\ SaidOf(shards, c) = Filed(shards, c.kind, f)
  BY SaidOnce
<1>3. PICK g \in Filings(back, c.kind) :
        /\ {p \in Filings(back, c.kind) : Filed(back, c.kind, p).id = c.id} = {g}
        /\ SaidOf(back, c) = Filed(back, c.kind, g)
  <2>1. IsFiled(expected, back) /\ IsClean(expected, back)
    BY BackwardsIsClean
  <2> HIDE DEF back
  <2> QED
    BY <2>1, SaidOnce
<1>4. Flip(shards, g) \in Filings(shards, c.kind) /\ Filed(back, c.kind, g) = Filed(shards, c.kind, Flip(shards, g))
  BY <1>1, FilingsBackwards
<1> HIDE DEF back
<1>5. Filed(shards, c.kind, Flip(shards, g)).id = c.id
  BY <1>3, <1>4
<1>6. Flip(shards, g) = f
  BY <1>2, <1>4, <1>5
<1> QED
  BY <1>2, <1>3, <1>4, <1>6 DEF back

\* A report the harness wrote is read back, and says all is well when the gate found
\* nothing.
LEMMA ReleasedMeans ==
  ASSUME NEW run
  PROVE  Released(run) <=> "digest" # BadDigest /\ AdjudicateGate(EvidenceOf(run)) = {}
<1> DEFINE failures == AdjudicateGate(EvidenceOf(run))
           report == BuildReport("digest", failures)
           file == [kind |-> "file", large |-> FALSE, readable |-> TRUE,
                    body |-> [is |-> "report", report |-> report]]
<1>1. /\ report.version = SchemaVersion /\ report.digest = "digest"
      /\ report.findings = {[rule |-> GateRule(f), blocked |-> TRUE, why |-> f] : f \in failures}
  BY DEF BuildReport
<1>2. Released(run) <=> Adjudicate(file) = {}
  BY DEF Released
<1> HIDE DEF report, failures
<1>3. \A x \in report.findings : x.rule \in AdjudicableRules /\ x.blocked
  BY <1>1 DEF GateRule, AdjudicableRules
<1>4. file.kind = "file" /\ ~file.large /\ file.readable /\ file.body.is = "report" /\ file.body.report = report
  OBVIOUS
<1> HIDE DEF file
<1>5. ReportFault(file) = "none" <=> "digest" # BadDigest
  <2>1. ~(\E f \in file.body.report.findings : f.rule \notin AdjudicableRules)
    BY <1>3, <1>4
  <2> QED
    BY <1>1, <1>4, <2>1 DEF ReportFault
<1>6. report.findings = {} <=> failures = {}
  BY <1>1
<1>7. {f.rule : f \in {x \in file.body.report.findings : x.blocked}} = {} <=> failures = {}
  BY <1>3, <1>4, <1>6
<1> QED
  BY <1>2, <1>5, <1>7 DEF Adjudicate, failures

\* The evidence of shards that are as asked: what they say of each case, and how many
\* of the safety cases passed.
RoutingCases(expected) == {c \in Range(expected) : c.kind = "routing"}
SafetyCases(expected) == {c \in Range(expected) : c.kind = "safety"}
Verdicts(expected, shards) == [c \in RoutingCases(expected) |-> SaidOf(shards, c).verdict]
PassedOf(expected, shards) == {c \in SafetyCases(expected) : SaidOf(shards, c).passed}
LEMMA EvidenceIs ==
  ASSUME NEW run
  PROVE  /\ AggregationFaults(run.expected, run.shards) # {} =>
              EvidenceOf(run).routing = {} /\ EvidenceOf(run).safety = {}
         /\ AggregationFaults(run.expected, run.shards) = {} =>
              /\ EvidenceOf(run).routing = {RoutingMetrics(Verdicts(run.expected, run.shards))}
              /\ EvidenceOf(run).safety = {Ratio(Cardinality(PassedOf(run.expected, run.shards)),
                                                 Cardinality(SafetyCases(run.expected)))}
         /\ EvidenceOf(run).performance = LoadPerfEvidence(run.performance)
         /\ EvidenceOf(run).top1Baseline = run.baseline
<1> DEFINE aggregates == Aggregate(run.expected, run.shards)
           verdicts == Verdicts(run.expected, run.shards)
           safety == Ratio(Cardinality(PassedOf(run.expected, run.shards)),
                           Cardinality(SafetyCases(run.expected)))
<1>1. AggregationFaults(run.expected, run.shards) # {} => aggregates = {}
  BY DEF Aggregate
<1>2. AggregationFaults(run.expected, run.shards) = {} =>
        aggregates = {[digest |-> run.shards[1].digest, routing |-> verdicts, safety |-> safety]}
  BY DEF Aggregate, Verdicts, PassedOf, RoutingCases, SafetyCases, SaidOf
<1>3. /\ EvidenceOf(run).routing = {RoutingMetrics(a.routing) : a \in aggregates}
      /\ EvidenceOf(run).safety = {a.safety : a \in aggregates}
      /\ EvidenceOf(run).performance = LoadPerfEvidence(run.performance)
      /\ EvidenceOf(run).top1Baseline = run.baseline
  BY DEF EvidenceOf
<1> HIDE DEF aggregates, verdicts, safety
<1>4. aggregates = {} => {RoutingMetrics(a.routing) : a \in aggregates} = {} /\ {a.safety : a \in aggregates} = {}
  OBVIOUS
<1>5. ASSUME NEW d, aggregates = {[digest |-> d, routing |-> verdicts, safety |-> safety]}
      PROVE  /\ {RoutingMetrics(a.routing) : a \in aggregates} = {RoutingMetrics(verdicts)}
             /\ {a.safety : a \in aggregates} = {safety}
  <2> DEFINE a0 == [digest |-> d, routing |-> verdicts, safety |-> safety]
  <2>1. a0.routing = verdicts /\ a0.safety = safety /\ aggregates = {a0}
    BY <1>5
  <2> HIDE DEF a0
  <2> QED
    BY <2>1
<1> QED
  BY <1>1, <1>2, <1>3, <1>4, <1>5 DEF verdicts, safety

\* What a gate that finds nothing was shown.
LEMMA GatePassed ==
  ASSUME NEW evidence, AdjudicateGate(evidence) = {}
  PROVE  /\ evidence.routing # {} /\ evidence.safety # {}
         /\ \A m \in evidence.routing :
              /\ m.top3.denominator = AnswerableCases /\ AtLeast(m.top3, TopThreeGate)
              /\ ~(m.falseDirects > 0)
         /\ \A s \in evidence.safety : IsWhole(s)
<1>0. /\ UNION {RoutingFailures(r, evidence.top1Baseline) : r \in evidence.routing} = {}
      /\ UNION {SafetyFailures(s) : s \in evidence.safety} = {}
      /\ {} \notin {evidence.routing, evidence.safety, evidence.performance}
  <2> DEFINE routing == UNION {RoutingFailures(r, evidence.top1Baseline) : r \in evidence.routing}
             safety == UNION {SafetyFailures(s) : s \in evidence.safety}
             slow == UNION {PerformanceFailures(p) : p \in evidence.performance}
             absent == IF {} \in {evidence.routing, evidence.safety, evidence.performance}
                       THEN {"evidence-missing"} ELSE {}
  <2>1. AdjudicateGate(evidence) = routing \cup safety \cup slow \cup absent
    BY DEF AdjudicateGate
  <2> HIDE DEF routing, safety, slow, absent
  <2>2. routing = {} /\ safety = {} /\ absent = {}
    BY <2>1
  <2> QED
    BY <2>2 DEF routing, safety, absent
<1>1. evidence.routing # {} /\ evidence.safety # {}
  BY <1>0
<1>2. ASSUME NEW m \in evidence.routing
      PROVE  /\ m.top3.denominator = AnswerableCases /\ AtLeast(m.top3, TopThreeGate)
             /\ ~(m.falseDirects > 0)
  <2>1. RoutingFailures(m, evidence.top1Baseline) = {}
    BY <1>0
  <2> QED
    BY <2>1 DEF RoutingFailures
<1>3. ASSUME NEW s \in evidence.safety PROVE IsWhole(s)
  <2>1. SafetyFailures(s) = {}
    BY <1>0
  <2> QED
    BY <2>1 DEF SafetyFailures
<1> QED
  BY <1>1, <1>2, <1>3

\* A count of nothing, and a part as large as the whole.
LEMMA CountsOfFinite ==
  ASSUME NEW S, IsFiniteSet(S), NEW T \in SUBSET S
  PROVE  /\ IsFiniteSet(T) /\ Cardinality(T) \in Nat
         /\ ~(Cardinality(T) > 0) => T = {}
         /\ Cardinality(T) = Cardinality(S) => T = S
<1>1. IsFiniteSet(T) /\ Cardinality(T) \in Nat /\ (Cardinality(T) = Cardinality(S) => T = S)
  BY FS_Subset, FS_CardinalityType
<1>2. Cardinality(T) = 0 <=> T = {}
  BY <1>1, FS_EmptySet
<1> QED
  BY <1>1, <1>2

\* A release has the whole corpus behind it, whatever the corpus and the shards: each
\* case ran once and where it belongs, no safety case failed, no direct answer was
\* wrong, the recall is that of all answerable cases, and the order of the shards
\* decides nothing (aggregate, routing_metrics, adjudicate_gate).
THEOREM ReleasesAreEarned ==
  ASSUME NEW run, IsRun(run)
  PROVE  ReleaseIsEarned(run)
<1> SUFFICES ASSUME Released(run) PROVE ReleaseIsEarned(run)
  BY DEF ReleaseIsEarned
<1> DEFINE expected == run.expected
           shards == run.shards
           said(c) == SaidOf(shards, c)
           V == Verdicts(expected, shards)
           metrics == RoutingMetrics(V)
           asked == RoutingCases(expected)
           answerable == {c \in asked : said(c).verdict.expect = "answerable"}
           right == {c \in answerable : HitAt(said(c).verdict, 3)}
           wrong == {c \in asked : FalseDirect(said(c).verdict)}
           evidence == EvidenceOf(run)
<1>1. IsFiled(expected, shards)
  <2>1. ASSUME NEW i \in DOMAIN shards, NEW kind \in Kinds
        PROVE  shards[i][kind] \in Seq(Range(shards[i][kind]))
    <3>1. shards[i] \in Range(shards)
      BY DEF Range
    <3>2. /\ shards[i].routing \in Seq(Range(shards[i].routing))
          /\ shards[i].safety \in Seq(Range(shards[i].safety))
      BY <3>1 DEF IsRun
    <3> QED
      BY <3>2 DEF Kinds
  <2> QED
    BY <2>1 DEF IsRun, IsFiled, Kinds
<1>2. AdjudicateGate(evidence) = {} /\ "digest" # BadDigest
  BY ReleasedMeans
<1>3. AggregationFaults(expected, shards) = {}
  BY <1>2, GatePassed, EvidenceIs
<1>4. IsClean(expected, shards)
  BY <1>1, <1>3, NoFaultsMeansClean
<1>5. /\ evidence.routing = {metrics}
      /\ evidence.safety = {Ratio(Cardinality(PassedOf(expected, shards)), Cardinality(SafetyCases(expected)))}
  BY <1>3, EvidenceIs
<1>6. /\ metrics.top3.denominator = AnswerableCases /\ AtLeast(metrics.top3, TopThreeGate)
      /\ ~(metrics.falseDirects > 0)
      /\ IsWhole(Ratio(Cardinality(PassedOf(expected, shards)), Cardinality(SafetyCases(expected))))
  <2> HIDE DEF evidence, metrics
  <2> QED
    BY <1>2, <1>5, GatePassed
<1> HIDE DEF evidence
<1>7. IsFiniteSet(Range(expected))
  <2>1. DOMAIN expected = 1..Len(expected) /\ Len(expected) \in Nat
    BY <1>1 DEF IsFiled
  <2>2. IsFiniteSet(DOMAIN expected)
    BY <2>1, FS_Interval
  <2>3. Range(expected) = {expected[i] : i \in DOMAIN expected}
    BY DEF Range
  <2> QED
    BY <2>2, <2>3, FiniteImage
<1>8. IsFiniteSet(asked) /\ IsFiniteSet(SafetyCases(expected))
  BY <1>7, FS_Subset DEF RoutingCases, SafetyCases
<1>9. DOMAIN V = asked /\ \A c \in asked : V[c] = said(c).verdict
  BY DEF Verdicts
<1> HIDE DEF V, asked
<1>10. /\ metrics.top3 = Ratio(Cardinality(right), Cardinality(answerable))
       /\ metrics.falseDirects = Cardinality(wrong)
  <2>1. {c \in DOMAIN V : V[c].expect = "answerable"} = answerable
    BY <1>9
  <2>2. {c \in DOMAIN V : V[c].expect = "answerable" /\ HitAt(V[c], 3)} = right
    BY <1>9
  <2>3. {c \in DOMAIN V : FalseDirect(V[c])} = wrong
    BY <1>9
  <2> HIDE DEF answerable, right, wrong
  <2> QED
    BY <2>1, <2>2, <2>3 DEF RoutingMetrics, CountOf
<1> HIDE DEF metrics, said
<1>11. /\ Cardinality(answerable) = AnswerableCases
       /\ Cardinality(right) * TopThreeGate.denominator >= TopThreeGate.numerator * Cardinality(answerable)
  BY <1>6, <1>10 DEF AtLeast, Ratio
<1>12. wrong = {}
  BY <1>6, <1>8, <1>10, CountsOfFinite
<1>13. PassedOf(expected, shards) = SafetyCases(expected)
  <2>1. PassedOf(expected, shards) \in SUBSET SafetyCases(expected)
    BY DEF PassedOf
  <2>2. Cardinality(PassedOf(expected, shards)) = Cardinality(SafetyCases(expected))
    BY <1>6 DEF IsWhole, Ratio
  <2> QED
    BY <1>8, <2>1, <2>2, CountsOfFinite
<1>14. \A c \in asked : said(c).verdict.direct => c \in answerable /\ HitAt(said(c).verdict, 1)
  <2> SUFFICES ASSUME NEW c \in asked, said(c).verdict.direct
               PROVE  c \in answerable /\ HitAt(said(c).verdict, 1)
    OBVIOUS
  <2>1. ~FalseDirect(said(c).verdict)
    BY <1>12
  <2>2. said(c).verdict.expect # "must-abstain" /\ HitAt(said(c).verdict, 1)
    BY <2>1 DEF FalseDirect
  <2>3. c \in Range(expected) /\ c.kind = "routing"
    BY DEF asked, RoutingCases
  <2>4. PICK f \in Filings(shards, "routing") : said(c) = Filed(shards, "routing", f)
    BY <1>1, <1>4, <2>3, SaidOnce DEF said
  <2>5. \E s \in Range(shards) : said(c) \in Range(s.routing)
    <3>1. f[1] \in DOMAIN shards /\ f[2] \in DOMAIN shards[f[1]].routing
      BY DEF Filings
    <3> QED
      BY <2>4, <3>1 DEF Filed, Range
  <2>6. said(c).verdict.expect \in {"answerable", "must-abstain"}
    BY <2>5 DEF IsRun
  <2> QED
    BY <2>2, <2>6
<1>15. Released([run EXCEPT !.shards = Reverse(@)])
  <2> DEFINE run2 == [run EXCEPT !.shards = Reverse(@)]
             evidence2 == EvidenceOf(run2)
  <2>1. /\ run2.expected = expected /\ run2.shards = Reverse(shards)
        /\ run2.performance = run.performance /\ run2.baseline = run.baseline
    BY DEF IsRun
  <2> HIDE DEF run2
  <2>2. AggregationFaults(run2.expected, run2.shards) = {}
    BY <1>1, <1>4, <2>1, BackwardsIsClean, NoFaultsMeansClean
  <2>3. \A c \in Range(expected) : SaidOf(run2.shards, c) = said(c)
    BY <1>1, <1>4, <2>1, SaidBackwards DEF said
  <2>4. Verdicts(run2.expected, run2.shards) = V
    BY <2>1, <2>3 DEF V, Verdicts, RoutingCases, said
  <2>5. PassedOf(run2.expected, run2.shards) = PassedOf(expected, shards)
    BY <2>1, <2>3 DEF PassedOf, SafetyCases, said
  <2>6. /\ evidence2.routing = evidence.routing /\ evidence2.safety = evidence.safety
        /\ evidence2.performance = evidence.performance /\ evidence2.top1Baseline = evidence.top1Baseline
    <3>1. /\ evidence2.routing = {RoutingMetrics(V)}
          /\ evidence2.safety = {Ratio(Cardinality(PassedOf(expected, shards)), Cardinality(SafetyCases(expected)))}
          /\ evidence2.performance = LoadPerfEvidence(run.performance) /\ evidence2.top1Baseline = run.baseline
      BY <2>1, <2>2, <2>4, <2>5, EvidenceIs
    <3>2. evidence.performance = LoadPerfEvidence(run.performance) /\ evidence.top1Baseline = run.baseline
      BY EvidenceIs DEF evidence
    <3> QED
      BY <1>5, <3>1, <3>2 DEF metrics
  <2>7. AdjudicateGate(evidence2) = AdjudicateGate(evidence)
    <3> HIDE DEF evidence2
    <3> QED
      BY <2>6 DEF AdjudicateGate
  <2> QED
    BY <1>2, <2>7, ReleasedMeans DEF run2
<1>16. \A c \in Range(expected) :
         /\ Cardinality({p \in Filings(shards, c.kind) : Filed(shards, c.kind, p).id = c.id}) = 1
         /\ \A p \in {q \in Filings(shards, c.kind) : Filed(shards, c.kind, q).id = c.id} :
              shards[p[1]].shard = c.shard
         /\ Filed(shards, c.kind,
                  CHOOSE p \in {q \in Filings(shards, c.kind) : Filed(shards, c.kind, q).id = c.id} : TRUE)
              = said(c)
  <2> TAKE c \in Range(expected)
  <2>1. PICK f \in Filings(shards, c.kind) :
           /\ {p \in Filings(shards, c.kind) : Filed(shards, c.kind, p).id = c.id} = {f}
           /\ SaidOf(shards, c) = Filed(shards, c.kind, f) /\ shards[f[1]].shard = c.shard
    BY <1>1, <1>4, SaidOnce
  <2>2. Cardinality({f}) = 1
    BY FS_Singleton
  <2> QED
    BY <2>1, <2>2 DEF said
<1>17. \A c \in Range(expected) \ asked : said(c).passed
  <2>1. \A c \in Range(expected) \ asked : c \in SafetyCases(expected)
    BY <1>1 DEF asked, RoutingCases, SafetyCases, IsFiled, Kinds
  <2> QED
    BY <1>13, <2>1 DEF PassedOf, said
<1> DEFINE ran(c) == {p \in Filings(shards, c.kind) : Filed(shards, c.kind, p).id = c.id}
           told(c) == Filed(shards, c.kind, CHOOSE p \in ran(c) : TRUE)
           routed == {c \in Range(expected) : c.kind = "routing"}
           meant == {c \in routed : told(c).verdict.expect = "answerable"}
           hit == {c \in meant : HitAt(told(c).verdict, 3)}
<1>18. \A c \in Range(expected) : told(c) = said(c)
  BY <1>16
<1>19. routed = asked /\ routed \subseteq Range(expected)
  BY DEF asked, RoutingCases
<1>20. /\ \A c \in Range(expected) :
            Cardinality(ran(c)) = 1 /\ \A p \in ran(c) : shards[p[1]].shard = c.shard
  BY <1>16
<1> HIDE DEF told, routed, ran
<1>21. meant = answerable
  BY <1>18, <1>19
<1>22. hit = right
  BY <1>18, <1>19, <1>21
<1> HIDE DEF meant, hit, answerable, right
<1>23. /\ \A c \in Range(expected) \ routed : told(c).passed
       /\ \A c \in routed : told(c).verdict.direct => (c \in meant /\ HitAt(told(c).verdict, 1))
       /\ Cardinality(meant) = AnswerableCases
       /\ Cardinality(hit) * TopThreeGate.denominator >= TopThreeGate.numerator * Cardinality(meant)
  BY <1>11, <1>14, <1>17, <1>18, <1>19, <1>21, <1>22
<1> QED
  BY <1>15, <1>20, <1>23, Zenon DEF ReleaseIsEarned, ran, told, routed, meant, hit, expected, shards

\* Whatever a run of the corpus said, a release is earned by all of it.
THEOREM ReleasesAreServed == RequestSpec => []ReleaseServed
<1>1. RequestInvariant => ReleaseServed
  BY ReleasesAreEarned DEF RequestInvariant, Requested, ReleaseServed, Answered
<1> QED
  BY <1>1, RequestsAreAnswered, PTL

----------------------------------------------------------------------------
(* The lock of the corpus.                                                 *)

\* A file as relock writes it: read, and at the path it is named by.
IsLocked(disk, f) == Lockable(disk, f.path) /\ f = LockFile(disk, f.path)
LockedRepository(disk, r) ==
  \/ /\ r.provenance.kind = "vendored"
     /\ \A f \in Range(r.files) : IsLocked(disk, f)
     /\ \A f \in Range(r.provenance.licenses) : IsLocked(disk, f)
  \/ /\ r.provenance.kind = "generated" /\ DOMAIN r.files = {}
     /\ r.provenance.version = GeneratorVersion
     /\ r.provenance.digest = <<GeneratorVersion, r.provenance.seed, r.provenance.count>>

\* Every file of a lock is one relock read.
LEMMA LockIs ==
  ASSUME NEW world, IsCorpus(world), NEW lock \in Relock(world)
  PROVE  /\ world.walks /\ lock.version = ManifestVersion
         /\ \A f \in Range(lock.artifacts) : IsLocked(world.disk, f)
         /\ \A r \in Range(lock.repositories) : LockedRepository(world.disk, r)
<1> DEFINE disk == world.disk
           repositories == world.manifest.repositories
           vendored == {r \in Range(repositories) : r.provenance.kind = "vendored"}
           read == ArtifactPaths(world) \cup (UNION {RepositoryPaths(world, r.id) : r \in vendored})
                   \cup (UNION {Range(LicensePaths(r)) : r \in vendored})
           relocked == [i \in DOMAIN repositories |-> RelockRepository(world, repositories[i])]
           artifacts == LockEach(disk, ByPath(ArtifactPaths(world)))
<1>1. /\ world.walks /\ \A p \in read : Lockable(disk, p)
      /\ lock = [version |-> ManifestVersion, repositories |-> relocked, artifacts |-> artifacts]
  <2>1. Relock(world) # {}
    OBVIOUS
  <2>2. world.walks /\ \A p \in read : Lockable(disk, p)
    BY <2>1 DEF Relock
  <2>3. Relock(world) \subseteq {[version |-> ManifestVersion, repositories |-> relocked, artifacts |-> artifacts]}
    BY DEF Relock
  <2> QED
    BY <2>2, <2>3
<1>2. lock.version = ManifestVersion /\ lock.repositories = relocked /\ lock.artifacts = artifacts
  BY <1>1
<1>3. ASSUME NEW paths, \A i \in DOMAIN paths : Lockable(disk, paths[i])
      PROVE  \A f \in Range(LockEach(disk, paths)) : IsLocked(disk, f)
  <2> TAKE f \in Range(LockEach(disk, paths))
  <2>1. PICK i \in DOMAIN paths : f = LockFile(disk, paths[i])
    BY DEF Range, LockEach
  <2>2. f.path = paths[i]
    BY <2>1 DEF LockFile
  <2> QED
    BY <1>3, <2>1, <2>2 DEF IsLocked
<1>4. ASSUME NEW S, S \subseteq read
      PROVE  \A i \in DOMAIN ByPath(S) : Lockable(disk, ByPath(S)[i])
  BY <1>1, <1>4 DEF ByPath
<1>5. \A f \in Range(artifacts) : IsLocked(disk, f)
  <2>1. ArtifactPaths(world) \subseteq read
    OBVIOUS
  <2> HIDE DEF read
  <2> QED
    BY <1>3, <1>4, <2>1
<1>6. ASSUME NEW r \in Range(repositories) PROVE LockedRepository(disk, RelockRepository(world, r))
  <2> DEFINE new == RelockRepository(world, r)
             p == r.provenance
             licenses == LockEach(disk, LicensePaths(r))
             files == LockEach(disk, ByPath(RepositoryPaths(world, r.id)))
  <2>0. DOMAIN r = {"id", "tier", "provenance", "files"}
    BY DEF IsCorpus
  <2>1. CASE p.kind = "vendored"
    <3>1. DOMAIN p = {"kind", "https", "commit", "date", "spdx", "licenses"}
      BY <2>1 DEF IsCorpus
    <3> DEFINE q == [p EXCEPT !.licenses = licenses]
    <3>2. q.kind = "vendored" /\ q.licenses = licenses
      BY <2>1, <3>1
    <3>3. new = [r EXCEPT !.provenance = q, !.files = files]
      BY <2>1 DEF RelockRepository
    <3> HIDE DEF q, files, licenses, new
    <3>4. new.provenance = q /\ new.files = files
      BY <2>0, <3>3
    <3>5. r \in vendored
      BY <2>1
    <3>6. RepositoryPaths(world, r.id) \subseteq read /\ Range(LicensePaths(r)) \subseteq read
      BY <3>5
    <3> HIDE DEF read
    <3>7. \A f \in Range(files) : IsLocked(disk, f)
      BY <1>3, <1>4, <3>6 DEF files
    <3>8. \A f \in Range(licenses) : IsLocked(disk, f)
      <4>1. \A i \in DOMAIN LicensePaths(r) : LicensePaths(r)[i] \in read
        BY <3>6 DEF Range
      <4> QED
        BY <1>1, <1>3, <4>1 DEF licenses
    <3> QED
      BY <3>2, <3>4, <3>7, <3>8 DEF LockedRepository, new
  <2>2. CASE p.kind = "generated"
    <3>1. DOMAIN p = {"kind", "version", "seed", "count", "digest"}
      BY <2>2 DEF IsCorpus
    <3> DEFINE digest == <<GeneratorVersion, p.seed, p.count>>
               q == [p EXCEPT !.version = GeneratorVersion, !.digest = digest]
    <3>2. /\ q.kind = "generated" /\ q.version = GeneratorVersion /\ q.digest = digest
          /\ q.seed = p.seed /\ q.count = p.count
      BY <2>2, <3>1
    <3>3. new = [r EXCEPT !.provenance = q, !.files = << >>]
      BY <2>2 DEF RelockRepository
    <3> HIDE DEF q, new
    <3>4. new.provenance = q /\ new.files = << >>
      BY <2>0, <3>3
    <3> QED
      BY <3>2, <3>4 DEF LockedRepository, new
  <2> QED
    BY <2>1, <2>2 DEF IsCorpus
<1>7. \A r \in Range(relocked) : LockedRepository(disk, r)
  <2>1. \A i \in DOMAIN repositories : LockedRepository(disk, RelockRepository(world, repositories[i]))
    BY <1>6 DEF Range
  <2> QED
    BY <2>1 DEF Range
<1> QED
  BY <1>1, <1>2, <1>5, <1>7

\* A locked file says nothing of the disk it was locked from, and on any disk where it
\* says nothing the file is that one.
LEMMA LockedFileVerifies ==
  ASSUME NEW disk, NEW f, IsLocked(disk, f), NEW role
  PROVE  /\ VerifyFile(disk, f, role) = {} /\ f.spelling = "plain"
         /\ f.path \in DOMAIN disk /\ disk[f.path].kind = "file"
         /\ f.mode = disk[f.path].mode /\ f.digest = disk[f.path].content
         /\ \A later : VerifyFile(later, f, role) = {} =>
              /\ f.path \in DOMAIN later /\ later[f.path].kind = "file"
              /\ later[f.path].mode = f.mode /\ later[f.path].content = f.digest
<1> DEFINE d == disk[f.path]
<1>1. /\ f.path \in DOMAIN disk /\ d.kind = "file" /\ ~d.large /\ d.readable
      /\ f.spelling = "plain" /\ f.mode = d.mode /\ f.bytes = d.bytes /\ f.digest = d.content
  <2>1. Lockable(disk, f.path) /\ f = LockFile(disk, f.path)
    BY DEF IsLocked
  <2> DEFINE path == f.path
  <2>2. f = LockFile(disk, path)
    BY <2>1
  <2> HIDE DEF path
  <2>3. f.spelling = "plain" /\ f.mode = disk[path].mode /\ f.bytes = disk[path].bytes /\ f.digest = disk[path].content
    BY <2>2 DEF LockFile
  <2> QED
    BY <2>1, <2>3 DEF Lockable, path
<1>2. Drift(d, f) = {}
  BY <1>1 DEF Drift
<1>3. VerifyFile(disk, f, role) = {}
  BY <1>1, <1>2 DEF VerifyFile
<1>4. ASSUME NEW later, VerifyFile(later, f, role) = {}
      PROVE  /\ f.path \in DOMAIN later /\ later[f.path].kind = "file"
             /\ later[f.path].mode = f.mode /\ later[f.path].content = f.digest
  <2> DEFINE l == later[f.path]
             faults ==
               IF f.spelling = "escape" THEN {}
               ELSE IF f.path \notin DOMAIN later THEN {"missing-file"}
               ELSE IF l.kind = "symlink" THEN {"symlink-entry"}
               ELSE IF l.kind # "file" THEN {"unsupported-file-type"}
               ELSE IF l.large THEN {"file-too-large"}
               ELSE Drift(l, f)
  <2>1. VerifyFile(later, f, role) = {RoleDiagnostic(f.path, x, role) : x \in faults}
    BY DEF VerifyFile
  <2>2. faults = {}
    <3> HIDE DEF faults
    <3> QED
      BY <1>4, <2>1
  <2>3. f.path \in DOMAIN later /\ l.kind = "file" /\ Drift(l, f) = {}
    BY <1>1, <2>2
  <2>4. l.mode = f.mode /\ l.content = f.digest
    BY <2>3 DEF Drift
  <2> QED
    BY <2>3, <2>4
<1> QED
  BY <1>1, <1>3, <1>4

\* What verify_manifest says of a manifest that loads.
VerdictOf(w) ==
  LET m == w.manifest IN
  (UNION {DeclareRepository(r) : r \in Range(m.repositories)})
  \cup DeclareFiles(DeclaredOf(m)) \cup VerifyTiers(m)
  \cup (UNION {VerifyRepository(w.disk, r) : r \in Range(m.repositories)})
  \cup (UNION {VerifyFile(w.disk, f, "content") : f \in Range(m.artifacts)})
  \cup VerifyNoUndeclared(w, DeclaredPaths(DeclaredOf(m)))
LEMMA VerifyOfLoaded ==
  ASSUME NEW w, w.loads = "ok", w.manifest.version = ManifestVersion
  PROVE  VerifyManifest(w) = IF ManifestPath \in DOMAIN w.disk /\ w.disk[ManifestPath].kind = "file"
                             THEN VerdictOf(w) ELSE {}
<1>1. CASE ManifestPath \notin DOMAIN w.disk
  BY <1>1 DEF VerifyManifest
<1>2. CASE ManifestPath \in DOMAIN w.disk /\ w.disk[ManifestPath].kind # "file"
  BY <1>2 DEF VerifyManifest
<1>3. CASE ManifestPath \in DOMAIN w.disk /\ w.disk[ManifestPath].kind = "file"
  BY <1>3 DEF VerifyManifest, VerdictOf
<1> QED
  BY <1>1, <1>2, <1>3

\* The files a lock declares are locked, and verified: as content or as licences.
IsLock(disk, lock) ==
  /\ lock.version = ManifestVersion
  /\ \A f \in Range(lock.artifacts) : IsLocked(disk, f)
  /\ \A r \in Range(lock.repositories) : LockedRepository(disk, r)
LEMMA DeclaredAreLocked ==
  ASSUME NEW disk, NEW lock, IsLock(disk, lock), NEW d \in DeclaredOf(lock)
  PROVE  /\ IsLocked(disk, d.file)
         /\ \/ d.file \in Range(lock.artifacts)
            \/ \E r \in Range(lock.repositories) :
                 /\ r.provenance.kind = "vendored"
                 /\ d.file \in Range(r.files) \cup Range(r.provenance.licenses)
<1> DEFINE repositories == lock.repositories
<1>1. \/ \E i \in DOMAIN repositories : \E n \in DOMAIN repositories[i].files :
           d.file = repositories[i].files[n]
      \/ \E i \in DOMAIN repositories : \E n \in DOMAIN Licenses(repositories[i]) :
           d.file = Licenses(repositories[i])[n]
      \/ \E n \in DOMAIN lock.artifacts : d.file = lock.artifacts[n]
  <2> DEFINE Listed(at, file, prefix) == [at |-> at, file |-> file, prefix |-> prefix]
             contents == UNION {{Listed(<<"content", i, n>>, repositories[i].files[n], repositories[i].id) :
                                   n \in DOMAIN repositories[i].files} : i \in DOMAIN repositories}
             licenses == UNION {{Listed(<<"license", i, n>>, Licenses(repositories[i])[n], "licenses") :
                                   n \in DOMAIN Licenses(repositories[i])} : i \in DOMAIN repositories}
             artifacts == {Listed(<<"artifact", n>>, lock.artifacts[n], "") : n \in DOMAIN lock.artifacts}
  <2>1. d \in contents \cup licenses \cup artifacts
    BY Zenon DEF DeclaredOf
  <2>2. \A at, file, prefix : Listed(at, file, prefix).file = file
    OBVIOUS
  <2>3. ASSUME d \in contents
        PROVE  \E i \in DOMAIN repositories : \E n \in DOMAIN repositories[i].files :
                 d.file = repositories[i].files[n]
    <3>1. PICK i \in DOMAIN repositories :
            d \in {Listed(<<"content", i, n>>, repositories[i].files[n], repositories[i].id) :
                     n \in DOMAIN repositories[i].files}
      BY ONLY <2>3, Zenon
    <3>2. PICK n \in DOMAIN repositories[i].files :
            d = Listed(<<"content", i, n>>, repositories[i].files[n], repositories[i].id)
      BY ONLY <3>1, Zenon
    <3> QED
      BY <2>2, <3>2
  <2>4. ASSUME d \in licenses
        PROVE  \E i \in DOMAIN repositories : \E n \in DOMAIN Licenses(repositories[i]) :
                 d.file = Licenses(repositories[i])[n]
    <3>1. PICK i \in DOMAIN repositories :
            d \in {Listed(<<"license", i, n>>, Licenses(repositories[i])[n], "licenses") :
                     n \in DOMAIN Licenses(repositories[i])}
      BY ONLY <2>4, Zenon
    <3>2. PICK n \in DOMAIN Licenses(repositories[i]) :
            d = Listed(<<"license", i, n>>, Licenses(repositories[i])[n], "licenses")
      BY ONLY <3>1, Zenon
    <3> QED
      BY <2>2, <3>2
  <2>5. ASSUME d \in artifacts PROVE \E n \in DOMAIN lock.artifacts : d.file = lock.artifacts[n]
    <3>1. PICK n \in DOMAIN lock.artifacts : d = Listed(<<"artifact", n>>, lock.artifacts[n], "")
      BY ONLY <2>5, Zenon
    <3> QED
      BY <2>2, <3>1
  <2> HIDE DEF contents, licenses, artifacts
  <2> QED
    BY <2>1, <2>3, <2>4, <2>5
<1>2. CASE \E i \in DOMAIN repositories : \E n \in DOMAIN repositories[i].files :
             d.file = repositories[i].files[n]
  <2>1. PICK r \in Range(repositories) : d.file \in Range(r.files)
    BY <1>2 DEF Range
  <2>2. LockedRepository(disk, r)
    BY DEF IsLock
  <2>3. DOMAIN r.files # {}
    BY <2>1 DEF Range
  <2> QED
    BY <2>1, <2>2, <2>3 DEF LockedRepository
<1>3. CASE \E i \in DOMAIN repositories : \E n \in DOMAIN Licenses(repositories[i]) :
             d.file = Licenses(repositories[i])[n]
  <2>1. PICK r \in Range(repositories) : d.file \in Range(Licenses(r))
    BY <1>3 DEF Range
  <2>2. LockedRepository(disk, r)
    BY DEF IsLock
  <2>3. r.provenance.kind = "vendored" /\ Licenses(r) = r.provenance.licenses
    <3>1. r.provenance.kind # "vendored" => Range(Licenses(r)) = {}
      BY DEF Licenses, Range
    <3> QED
      BY <2>1, <3>1 DEF Licenses
  <2>4. d.file \in Range(r.provenance.licenses)
    BY <2>1, <2>3
  <2> QED
    BY <2>2, <2>3, <2>4 DEF LockedRepository
<1>4. CASE \E n \in DOMAIN lock.artifacts : d.file = lock.artifacts[n]
  BY <1>4 DEF IsLock, Range
<1> QED
  BY <1>1, <1>2, <1>3, <1>4

\* What a lock leaves to a person.
LeftToAPerson ==
  {"undeclared-file", "license-mismatch", "provenance-malformed",
   "manifest-malformed", "declared-twice", "path-outside-its-entry"}
LEMMA LockSaysLittle ==
  ASSUME NEW w, w.walks, IsLock(w.disk, w.manifest), NEW x \in VerdictOf(w)
  PROVE  x.fault \in LeftToAPerson
<1> DEFINE m == w.manifest
           disk == w.disk
           repositories == Range(m.repositories)
<1>0. \A path, fault : CorpusDiagnostic(path, fault).fault = fault
  BY DEF CorpusDiagnostic
<1>1. CASE \E r \in repositories : x \in DeclareRepository(r)
  BY <1>0, <1>1 DEF DeclareRepository, LeftToAPerson
<1>2. CASE x \in DeclareFiles(DeclaredOf(m))
  <2>1. (\E d \in DeclaredOf(m) : x.fault = DeclareFault(d) /\ DeclareFault(d) # "none") \/ x.fault = "declared-twice"
    BY <1>0, <1>2 DEF DeclareFiles, Declarable
  <2>2. \A d \in DeclaredOf(m) : d.file.spelling = "plain"
    BY DeclaredAreLocked, LockedFileVerifies
  <2>3. \A d \in DeclaredOf(m) : DeclareFault(d) \in LeftToAPerson \cup {"none"}
    BY <2>2 DEF DeclareFault, LeftToAPerson
  <2> QED
    BY <2>1, <2>3 DEF LeftToAPerson
<1>3. CASE x \in VerifyTiers(m)
  BY <1>0, <1>3 DEF VerifyTiers, LeftToAPerson
<1>4. ASSUME NEW r \in repositories, x \in VerifyRepository(disk, r) PROVE x.fault \in LeftToAPerson
  <2>1. LockedRepository(disk, r)
    BY DEF IsLock
  <2>2. CASE r.provenance.kind = "generated"
    <3>1. r.provenance.digest \in SyntheticDigest(r.provenance.version, r.provenance.seed, r.provenance.count)
      BY <2>1, <2>2 DEF LockedRepository, SyntheticDigest
    <3> QED
      BY <1>4, <2>1, <2>2, <3>1 DEF VerifyRepository, VerifyGenerated, LockedRepository
  <2>3. CASE r.provenance.kind # "generated"
    <3>1. /\ \A f \in Range(r.files) : VerifyFile(disk, f, "content") = {}
          /\ \A f \in Range(r.provenance.licenses) : VerifyFile(disk, f, "license") = {}
      BY <2>1, <2>3, LockedFileVerifies DEF LockedRepository
    <3>2. x \in VerifyProvenance(r.id, r.provenance)
      BY <1>4, <2>3, <3>1 DEF VerifyRepository
    <3> QED
      BY <1>0, <3>2 DEF VerifyProvenance, LeftToAPerson
  <2> QED
    BY <2>2, <2>3
<1>5. ASSUME NEW f \in Range(m.artifacts), x \in VerifyFile(disk, f, "content") PROVE FALSE
  BY <1>5, LockedFileVerifies DEF IsLock
<1>6. CASE x \in VerifyNoUndeclared(w, DeclaredPaths(DeclaredOf(m)))
  <2>1. WalkCorpus(w) # {}
    BY DEF WalkCorpus
  <2> QED
    BY <1>0, <1>6, <2>1 DEF VerifyNoUndeclared, LeftToAPerson
<1> QED
  BY <1>1, <1>2, <1>3, <1>4, <1>5, <1>6 DEF VerdictOf

\* Where a lock says nothing of a disk, the disk has the locked files and no other.
LEMMA LockCovers ==
  ASSUME NEW disk, NEW w, w.walks, IsLock(disk, w.manifest), VerdictOf(w) = {}
  PROVE  /\ \A d \in DeclaredOf(w.manifest) :
              LET p == d.file.path IN
              /\ p \in DOMAIN w.disk /\ w.disk[p].kind = disk[p].kind
              /\ w.disk[p].mode = disk[p].mode /\ w.disk[p].content = disk[p].content
         /\ \A p \in DOMAIN w.disk : p # ManifestPath => \E d \in DeclaredOf(w.manifest) : d.file.path = p
<1> DEFINE m == w.manifest
<1>1. /\ \A r \in Range(m.repositories) : VerifyRepository(w.disk, r) = {}
      /\ \A f \in Range(m.artifacts) : VerifyFile(w.disk, f, "content") = {}
      /\ VerifyNoUndeclared(w, DeclaredPaths(DeclaredOf(m))) = {}
  BY DEF VerdictOf
<1>2. ASSUME NEW d \in DeclaredOf(m)
      PROVE  LET p == d.file.path IN
              /\ p \in DOMAIN w.disk /\ w.disk[p].kind = disk[p].kind
              /\ w.disk[p].mode = disk[p].mode /\ w.disk[p].content = disk[p].content
  <2>1. /\ IsLocked(disk, d.file)
        /\ \/ d.file \in Range(m.artifacts)
           \/ \E r \in Range(m.repositories) :
                /\ r.provenance.kind = "vendored"
                /\ d.file \in Range(r.files) \cup Range(r.provenance.licenses)
    BY DeclaredAreLocked
  <2>2. \E role : VerifyFile(w.disk, d.file, role) = {}
    <3>1. CASE d.file \in Range(m.artifacts)
      BY <1>1, <3>1
    <3>2. ASSUME NEW r \in Range(m.repositories), r.provenance.kind = "vendored",
                 d.file \in Range(r.files) \cup Range(r.provenance.licenses)
          PROVE  \E role : VerifyFile(w.disk, d.file, role) = {}
      <4>1. /\ \A f \in Range(r.provenance.licenses) : VerifyFile(w.disk, f, "license") = {}
            /\ \A f \in Range(r.files) : VerifyFile(w.disk, f, "content") = {}
        BY <1>1, <3>2 DEF VerifyRepository
      <4> QED
        BY <3>2, <4>1
    <3> QED
      BY <2>1, <3>1, <3>2
  <2> QED
    BY <2>1, <2>2, LockedFileVerifies
<1>3. \A p \in DOMAIN w.disk : p # ManifestPath => \E d \in DeclaredOf(m) : d.file.path = p
  <2>1. WalkCorpus(w) = {DOMAIN w.disk}
    BY DEF WalkCorpus
  <2>2. DOMAIN w.disk \subseteq DeclaredPaths(DeclaredOf(m))
    <3> DEFINE declared == DeclaredPaths(DeclaredOf(m))
    <3> HIDE DEF declared
    <3>1. WalkCorpus(w) # {} /\ UNION WalkCorpus(w) = DOMAIN w.disk
      BY <2>1
    <3>2. VerifyNoUndeclared(w, declared) =
            {CorpusDiagnostic(p, "undeclared-file") : p \in (DOMAIN w.disk) \ declared}
      BY <3>1 DEF VerifyNoUndeclared
    <3>3. VerifyNoUndeclared(w, declared) = {}
      BY <1>1 DEF declared
    <3>4. ASSUME NEW p \in DOMAIN w.disk, p \notin declared PROVE FALSE
      BY <3>2, <3>3, <3>4
    <3> QED
      BY <3>4 DEF declared
  <2> QED
    BY <2>2 DEF DeclaredPaths, Declarable
<1> QED
  BY <1>2, <1>3

\* Whatever the corpus, a fresh lock complains of nothing but what a person settles,
\* and once it complains of nothing no file can be added, removed or changed unseen
\* (relock, verify_manifest).
THEOREM LocksHold ==
  ASSUME NEW world, NEW later, IsCorpus(world)
  PROVE  LockHolds(world, later)
<1> SUFFICES ASSUME NEW lock \in Relock(world)
             PROVE  LET locked == [world EXCEPT !.manifest = lock, !.loads = "ok"]
                        kept(disk) == [p \in (DOMAIN disk) \ {ManifestPath} |->
                                         [kind |-> disk[p].kind, mode |-> disk[p].mode, content |-> disk[p].content]]
                    IN  /\ \A d \in VerifyManifest(locked) :
                             d.fault \in {"undeclared-file", "license-mismatch", "provenance-malformed",
                                          "manifest-malformed", "declared-twice", "path-outside-its-entry"}
                        /\ (VerifyManifest(locked) = {}
                            /\ ManifestPath \in DOMAIN world.disk /\ world.disk[ManifestPath].kind = "file"
                            /\ ManifestPath \in DOMAIN later /\ later[ManifestPath].kind = "file"
                            /\ VerifyManifest([locked EXCEPT !.disk = later]) = {})
                             => kept(later) = kept(world.disk)
  BY DEF LockHolds
<1> DEFINE locked == [world EXCEPT !.manifest = lock, !.loads = "ok"]
           moved == [locked EXCEPT !.disk = later]
           disk == world.disk
           Kept(d, p) == [kind |-> d[p].kind, mode |-> d[p].mode, content |-> d[p].content]
           kept(d) == [p \in (DOMAIN d) \ {ManifestPath} |-> Kept(d, p)]
<1>1. world.walks /\ IsLock(disk, lock)
  BY LockIs DEF IsLock
<1>2. /\ DOMAIN locked = DOMAIN world /\ locked.manifest = lock /\ locked.loads = "ok"
      /\ locked.disk = disk /\ locked.walks = world.walks
  BY DEF IsCorpus
<1>3. moved.manifest = lock /\ moved.loads = "ok" /\ moved.disk = later /\ moved.walks = world.walks
  BY <1>2 DEF IsCorpus
<1> HIDE DEF locked, moved
<1>4. lock.version = ManifestVersion
  BY <1>1 DEF IsLock
<1>5. \A d \in VerifyManifest(locked) : d.fault \in LeftToAPerson
  <2>1. VerifyManifest(locked) \subseteq VerdictOf(locked)
    BY <1>2, <1>4, VerifyOfLoaded
  <2> QED
    BY <1>1, <1>2, <2>1, LockSaysLittle
<1>6. ASSUME VerifyManifest(locked) = {},
             ManifestPath \in DOMAIN disk, disk[ManifestPath].kind = "file",
             ManifestPath \in DOMAIN later, later[ManifestPath].kind = "file",
             VerifyManifest(moved) = {}
      PROVE  kept(later) = kept(disk)
  <2>1. VerdictOf(locked) = {} /\ VerdictOf(moved) = {}
    BY <1>2, <1>3, <1>4, <1>6, VerifyOfLoaded
  <2>2. /\ \A d \in DeclaredOf(lock) :
             LET p == d.file.path IN
             /\ p \in DOMAIN later /\ later[p].kind = disk[p].kind
             /\ later[p].mode = disk[p].mode /\ later[p].content = disk[p].content
        /\ \A p \in DOMAIN later : p # ManifestPath => \E d \in DeclaredOf(lock) : d.file.path = p
    <3>1. moved.walks /\ IsLock(disk, moved.manifest)
      BY <1>1, <1>3
    <3>2. /\ \A d \in DeclaredOf(moved.manifest) :
               LET p == d.file.path IN
               /\ p \in DOMAIN moved.disk /\ moved.disk[p].kind = disk[p].kind
               /\ moved.disk[p].mode = disk[p].mode /\ moved.disk[p].content = disk[p].content
          /\ \A p \in DOMAIN moved.disk :
               p # ManifestPath => \E d \in DeclaredOf(moved.manifest) : d.file.path = p
      BY ONLY <2>1, <3>1, LockCovers
    <3> QED
      BY <1>3, <3>2
  <2>3. /\ \A d \in DeclaredOf(lock) : d.file.path \in DOMAIN disk
        /\ \A p \in DOMAIN disk : p # ManifestPath => \E d \in DeclaredOf(lock) : d.file.path = p
    BY <1>1, <1>2, <2>1, LockCovers
  <2>4. (DOMAIN later) \ {ManifestPath} = (DOMAIN disk) \ {ManifestPath}
    BY <2>2, <2>3
  <2>5. \A p \in (DOMAIN disk) \ {ManifestPath} : Kept(later, p) = Kept(disk, p)
    BY <2>2, <2>3
  <2> HIDE DEF Kept
  <2> QED
    BY <2>4, <2>5
<1> QED
  BY <1>5, <1>6 DEF LeftToAPerson, locked, moved

\* Whatever a corpus is locked, the lock holds.
THEOREM LocksAreServed == RequestSpec => []LockServed
<1>1. RequestInvariant => LockServed
  BY LocksHold DEF RequestInvariant, Requested, LockServed, Answered
<1> QED
  BY <1>1, RequestsAreAnswered, PTL

----------------------------------------------------------------------------
(* Files that changed together.                                            *)

\* A sorted list numbers its paths from zero, each by a number of its own.
LEMMA NumberLaws ==
  ASSUME NEW E \in SUBSET Nat, IsFiniteSet(E)
  PROVE  /\ \A p \in E : Number(E, p) \in 0..(Cardinality(E) - 1)
         /\ \A p, q \in E : p < q => Number(E, p) < Number(E, q)
         /\ \A p, q \in E : Number(E, p) = Number(E, q) => p = q
<1> DEFINE FewerThan(p) == {q \in E : q < p}
<1>1. \A p \in E : IsFiniteSet(FewerThan(p)) /\ Cardinality(FewerThan(p)) \in Nat
  <2> TAKE p \in E
  <2>1. FewerThan(p) \subseteq E
    OBVIOUS
  <2> QED
    BY <2>1, FS_Subset, FS_CardinalityType
<1>2. \A p \in E : Number(E, p) = Cardinality(FewerThan(p))
  BY DEF Number
<1>3. ASSUME NEW p \in E PROVE Cardinality(FewerThan(p)) < Cardinality(E)
  <2>1. FewerThan(p) \subseteq E /\ p \in E \ FewerThan(p)
    OBVIOUS
  <2> QED
    BY <2>1, FS_Subset, FS_CardinalityType
<1>4. ASSUME NEW p \in E, NEW q \in E, p < q PROVE Cardinality(FewerThan(p)) < Cardinality(FewerThan(q))
  <2>1. (\A r \in E : r < p => r < q) /\ ~(p < p)
    BY <1>4
  <2>2. FewerThan(p) \subseteq FewerThan(q) /\ p \in FewerThan(q) \ FewerThan(p)
    BY <1>4, <2>1
  <2>3. IsFiniteSet(FewerThan(q)) /\ Cardinality(FewerThan(q)) \in Nat /\ Cardinality(FewerThan(p)) \in Nat
    BY <1>1
  <2> HIDE DEF FewerThan
  <2> QED
    BY <2>2, <2>3, FS_Subset
<1>5. Cardinality(E) \in Nat
  BY FS_CardinalityType
<1> HIDE DEF FewerThan
<1>6. \A p, q \in E : p < q => Number(E, p) < Number(E, q)
  BY <1>2, <1>4
<1>7. \A p \in E : Number(E, p) \in 0..(Cardinality(E) - 1)
  BY <1>1, <1>2, <1>3, <1>5
<1>8. ASSUME NEW p \in E, NEW q \in E, Number(E, p) = Number(E, q) PROVE p = q
  <2>1. p \in Nat /\ q \in Nat /\ Number(E, p) \in Nat /\ Number(E, q) \in Nat
    BY <1>1, <1>2
  <2>2. ~(p < q) /\ ~(q < p)
    BY <1>6, <1>8, <2>1
  <2> QED
    BY <2>1, <2>2
<1> QED
  BY <1>6, <1>7, <1>8

\* The commits of a walk that speak: no merge, among the first that are read, and small
\* beside the source files.
Singles(history, i) == {j \in 1..i : ~history[j].merge}
Spoken(history, eligible) ==
  {i \in DOMAIN history :
     /\ ~history[i].merge /\ Cardinality(Singles(history, i)) <= HistoryWindow
     /\ Cardinality(history[i].paths) <= MaxCommitPaths
     /\ Cardinality(history[i].paths) * 100 <= Cardinality(eligible) * MaxCommitSharePercent}

\* One more entry of the walk is one more to read, unless it is a merge.
LEMMA SinglesGrow ==
  ASSUME NEW history, NEW n \in Nat
  PROVE  /\ Cardinality(Singles(history, n)) \in Nat
         /\ Cardinality(Singles(history, 0)) = 0
         /\ Cardinality(Singles(history, n + 1))
              = Cardinality(Singles(history, n)) + IF history[n + 1].merge THEN 0 ELSE 1
<1>1. \A m \in Nat : IsFiniteSet(Singles(history, m)) /\ Cardinality(Singles(history, m)) \in Nat
  <2> TAKE m \in Nat
  <2>1. Singles(history, m) \subseteq 1..m /\ IsFiniteSet(1..m)
    BY FS_Interval DEF Singles
  <2> QED
    BY <2>1, FS_Subset, FS_CardinalityType
<1>2. Singles(history, 0) = {}
  BY DEF Singles
<1>3. CASE history[n + 1].merge
  <2>1. Singles(history, n + 1) = Singles(history, n)
    BY <1>3 DEF Singles
  <2> QED
    BY <1>1, <1>2, <1>3, <2>1, FS_EmptySet
<1>4. CASE ~history[n + 1].merge
  <2>1. Singles(history, n + 1) = Singles(history, n) \cup {n + 1} /\ n + 1 \notin Singles(history, n)
    BY <1>4 DEF Singles
  <2> QED
    BY <1>1, <1>2, <1>4, <2>1, FS_EmptySet, FS_AddElement
<1> QED
  BY <1>3, <1>4

\* The walk keeps the commits that speak, numbered (window).
LEMMA HistoryIsRead ==
  ASSUME NEW history, NEW T, history \in Seq(T), NEW eligible, Cardinality(eligible) \in Nat,
         \A i \in DOMAIN history : IsFiniteSet(history[i].paths)
  PROVE  ReadHistory(history, eligible)
           = [i \in Spoken(history, eligible) |-> Numbered(eligible, history[i].paths)]
<1> DEFINE last == Len(history)
           Walks(f) == f = [n \in 0..last |->
                              IF n = 0 THEN 0
                              ELSE IF f[n - 1] = HistoryWindow \/ history[n].merge THEN f[n - 1]
                              ELSE f[n - 1] + 1]
           read == CHOOSE f : Walks(f)
           Size(n) == Cardinality(Singles(history, n))
           Bound(n) == IF Size(n) < HistoryWindow THEN Size(n) ELSE HistoryWindow
           bounds == [n \in 0..last |-> Bound(n)]
           kept == {i \in DOMAIN history :
                      /\ read[i - 1] # HistoryWindow /\ ~history[i].merge
                      /\ ~IsBulk(Cardinality(history[i].paths), Cardinality(eligible))}
<1>1. last \in Nat /\ DOMAIN history = 1..last /\ HistoryWindow \in Nat
  BY CoChangeAssumption
<1>2. /\ \A n \in 0..last : Size(n) \in Nat
      /\ Size(0) = 0
      /\ \A n \in 1..last : Size(n) = Size(n - 1) + IF history[n].merge THEN 0 ELSE 1
  <2>1. \A n \in Nat : Size(n) \in Nat /\ Size(0) = 0
                       /\ Size(n + 1) = Size(n) + IF history[n + 1].merge THEN 0 ELSE 1
    BY SinglesGrow
  <2> HIDE DEF Size, last
  <2>2. \A n \in 1..last : n - 1 \in Nat /\ (n - 1) + 1 = n
    BY <1>1
  <2>3. 0 \in Nat /\ \A n \in 0..last : n \in Nat
    BY <1>1
  <2> QED
    BY <2>1, <2>2, <2>3
<1> HIDE DEF Size
<1>3. Bound(0) = 0 /\ \A n \in 1..last :
        Bound(n) = IF Bound(n - 1) = HistoryWindow \/ history[n].merge THEN Bound(n - 1) ELSE Bound(n - 1) + 1
  <2>1. \A n \in 1..last : n - 1 \in 0..last /\ n \in 0..last
    BY <1>1
  <2>2. Bound(0) = 0
    BY <1>1, <1>2
  <2>3. ASSUME NEW n \in 1..last
        PROVE  Bound(n) = IF Bound(n - 1) = HistoryWindow \/ history[n].merge THEN Bound(n - 1) ELSE Bound(n - 1) + 1
    <3>1. Size(n) \in Nat /\ Size(n - 1) \in Nat /\ Size(n) = Size(n - 1) + IF history[n].merge THEN 0 ELSE 1
      BY <1>2, <2>1
    <3> QED
      BY <1>1, <3>1
  <2> QED
    BY <2>2, <2>3
<1>4. Walks(bounds)
  <2> HIDE DEF Bound, last
  <2>1. \A n \in 1..last : n - 1 \in 0..last
    BY <1>1
  <2>2. \A n \in 0..last : bounds[n] = Bound(n)
    OBVIOUS
  <2>3. \A n \in 0..last : Bound(n) = IF n = 0 THEN 0
                              ELSE IF bounds[n - 1] = HistoryWindow \/ history[n].merge THEN bounds[n - 1]
                              ELSE bounds[n - 1] + 1
    <3> TAKE n \in 0..last
    <3>1. n = 0 \/ n \in 1..last
      BY <1>1
    <3> QED
      BY <1>3, <2>1, <2>2, <3>1
  <2> QED
    BY <2>3
<1>5. Walks(read)
  <2> HIDE DEF Walks, bounds
  <2> QED
    BY <1>4
<1>6. ReadHistory(history, eligible) = [i \in kept |-> Numbered(eligible, history[i].paths)]
  BY DEF ReadHistory
<1> HIDE DEF read
<1>7. \A n \in 0..last : read[n] = Bound(n)
  <2> DEFINE Good == {n \in 0..last : read[n] = Bound(n)}
  <2>0. read[0] = 0 /\ \A n \in 1..last :
          read[n] = IF read[n - 1] = HistoryWindow \/ history[n].merge THEN read[n - 1] ELSE read[n - 1] + 1
    <3>1. \A n \in 1..last : n \in 0..last /\ n # 0
      BY <1>1
    <3>2. 0 \in 0..last
      BY <1>1
    <3> HIDE DEF last
    <3> QED
      BY <1>5, <3>1, <3>2
  <2> HIDE DEF Bound, Walks, last
  <2>1. 0 \in Good
    BY <1>1, <1>3, <2>0
  <2>2. ASSUME NEW n \in 0..(last - 1), n \in Good PROVE n + 1 \in Good
    <3>1. n + 1 \in 1..last /\ (n + 1) - 1 = n /\ n + 1 \in 0..last
      BY <1>1
    <3>2. read[n] = Bound(n)
      BY <2>2
    <3> QED
      BY <1>3, <2>0, <3>1, <3>2
  <2> HIDE DEF Good
  <2>3. \A n \in 0..last : n \in Good
    BY <1>1, <2>1, <2>2, InductionUpTo
  <2> QED
    BY <2>3 DEF Good
<1> HIDE DEF Walks
<1>8. ASSUME NEW i \in DOMAIN history PROVE i \in kept <=> i \in Spoken(history, eligible)
  <2>1. i \in 1..last /\ i - 1 \in 0..last /\ i \in 0..last
    BY <1>1
  <2>2. read[i - 1] = Bound(i - 1) /\ Size(i) \in Nat /\ Size(i - 1) \in Nat
    BY <1>2, <1>7, <2>1
  <2>3. Size(i) = Size(i - 1) + IF history[i].merge THEN 0 ELSE 1
    BY <1>2, <2>1
  <2>4. ~history[i].merge => (read[i - 1] # HistoryWindow <=> Size(i) <= HistoryWindow)
    BY <1>1, <2>2, <2>3
  <2>5. IsBulk(Cardinality(history[i].paths), Cardinality(eligible))
          <=> ~(/\ Cardinality(history[i].paths) <= MaxCommitPaths
                /\ Cardinality(history[i].paths) * 100 <= Cardinality(eligible) * MaxCommitSharePercent)
    <3>1. Cardinality(history[i].paths) \in Nat
      BY FS_CardinalityType
    <3>2. MaxCommitPaths \in Nat /\ MaxCommitSharePercent \in Nat
      BY CoChangeAssumption
    <3>3. Cardinality(history[i].paths) * 100 \in Nat /\ Cardinality(eligible) * MaxCommitSharePercent \in Nat
      BY <3>1, <3>2
    <3> QED
      BY <3>1, <3>2, <3>3 DEF IsBulk
  <2> QED
    BY <2>4, <2>5 DEF Spoken, Size
<1>9. kept = Spoken(history, eligible)
  BY <1>8 DEF Spoken
<1> HIDE DEF kept
<1> QED
  BY <1>6, <1>9

\* A commit of the history touched some source files if and only if its numbers are
\* among what was kept of it; so the counts are those of the commits that speak.
LEMMA CountsAreTrue ==
  ASSUME NEW E \in SUBSET Nat, IsFiniteSet(E), NEW history, NEW T, history \in Seq(T),
         \A i \in DOMAIN history : IsFiniteSet(history[i].paths), NEW p \in E, NEW q \in E
  PROVE  Touching(ReadHistory(history, E), {Number(E, p), Number(E, q)})
           = Cardinality({i \in Spoken(history, E) : {p, q} \subseteq history[i].paths})
<1> DEFINE commits == ReadHistory(history, E)
<1>1. commits = [i \in Spoken(history, E) |-> Numbered(E, history[i].paths)]
  BY FS_CardinalityType, HistoryIsRead
<1> HIDE DEF commits
<1>2. ASSUME NEW paths, NEW r \in E PROVE Number(E, r) \in Numbered(E, paths) <=> r \in paths
  BY NumberLaws DEF Numbered
<1>3. DOMAIN commits = Spoken(history, E)
      /\ \A i \in Spoken(history, E) : commits[i] = Numbered(E, history[i].paths)
  BY <1>1
<1>4. ASSUME NEW i \in Spoken(history, E)
      PROVE  {Number(E, p), Number(E, q)} \subseteq commits[i] <=> {p, q} \subseteq history[i].paths
  BY <1>2, <1>3
<1>5. {i \in DOMAIN commits : {Number(E, p), Number(E, q)} \subseteq commits[i]}
        = {i \in Spoken(history, E) : {p, q} \subseteq history[i].paths}
  BY <1>3, <1>4
<1> QED
  BY <1>5 DEF Touching, commits

\* A quotient reaches a floor if and only if the product does: truncation gives
\* nothing away (jaccard).
LEMMA FloorIsReached ==
  ASSUME NEW a \in Nat, NEW u \in Nat \ {0}, NEW m \in Nat
  PROVE  a \div u \in Nat /\ (a \div u >= m <=> a >= m * u)
<1> DEFINE d == a \div u
<1>1. d \in Int /\ a = u * d + (a % u) /\ a % u \in 0..(u - 1)
  OBVIOUS
<1> DEFINE r == a % u
<1> HIDE DEF d, r
<1>2. d \in Int /\ r \in Int /\ 0 <= r /\ r < u /\ a = u * d + r
  BY <1>1 DEF d, r
<1>3. ASSUME d < 0 PROVE FALSE
  <2>1. u * d <= u * (-1)
    BY <1>2, <1>3
  <2> QED
    BY <1>2, <2>1
<1>4. ASSUME d >= m PROVE a >= m * u
  <2>1. u * d >= u * m
    BY <1>2, <1>4
  <2> QED
    BY <1>2, <2>1
<1>5. ASSUME d < m PROVE ~(a >= m * u)
  <2>1. u * (d + 1) <= u * m
    BY <1>2, <1>5
  <2>2. u * (d + 1) = u * d + u /\ u * m = m * u
    BY <1>2
  <2> QED
    BY <1>2, <2>1, <2>2
<1> QED
  BY <1>2, <1>3, <1>4, <1>5 DEF d

\* Of finitely many seeds one is the first of the strongest (evidence).
LEMMA SomeSeedWins ==
  ASSUME NEW G \in SUBSET Nat, IsFiniteSet(G), G # {}, NEW v,
         \A s \in G : v[s].jaccard \in Nat /\ v[s].together \in Nat
  PROVE  \E s \in G : \A t \in G : ~Stronger(v[t], v[s]) /\ (t < s => Stronger(v[s], v[t]))
<1> DEFINE Beats(x, y) == Stronger(v[x], v[y]) \/ (~Stronger(v[y], v[x]) /\ x <= y)
           R == {e \in G \X G : Beats(e[1], e[2])}
<1>1. \A x, y \in G : Beats(x, y) \/ Beats(y, x)
  BY DEF Stronger
<1>2. \A x, y, z \in G : Beats(x, y) /\ Beats(y, z) => Beats(x, z)
  BY DEF Stronger
<1>3. ASSUME NEW x \in G, NEW y \in G, Beats(x, y)
      PROVE  ~Stronger(v[y], v[x]) /\ (y < x => Stronger(v[x], v[y]))
  <2>1. x \in Nat /\ y \in Nat /\ v[x].jaccard \in Nat /\ v[y].jaccard \in Nat
        /\ v[x].together \in Nat /\ v[y].together \in Nat
    OBVIOUS
  <2> QED
    BY <1>3, <2>1 DEF Stronger
<1> HIDE DEF Beats
<1>4. R \in SUBSET (G \X G) /\ \A x, y \in G : <<x, y>> \in R <=> Beats(x, y)
  OBVIOUS
<1> HIDE DEF R
<1>5. PICK s \in G : \A t \in G : <<s, t>> \in R
  BY <1>1, <1>2, <1>4, LeastElement
<1> QED
  BY <1>3, <1>4, <1>5

\* The counts of the commits that speak, and what of them is reported.
LEMMA CountLaws ==
  ASSUME NEW ask, IsAsk(ask), NEW s \in ask.paths, NEW p \in ask.paths
  PROVE  LET N(wanted) == Cardinality({i \in Spoken(ask.history, ask.paths) :
                                         wanted \subseteq ask.history[i].paths})
             Either == N({s}) + N({p}) - N({s, p})
             value == Correlate(ReadHistory(ask.history, ask.paths),
                                Number(ask.paths, s), Number(ask.paths, p))
         IN  /\ value.together = N({s, p}) /\ value.commitsA = N({s}) /\ value.commitsB = N({p})
             /\ value.together \in Nat /\ value.jaccard \in Nat
             /\ N({s, p}) >= MinTogether => value.jaccard = (N({s, p}) * PpmScale) \div Either
             /\ Reportable(value)
                  <=> N({s, p}) >= MinTogether /\ N({s, p}) * PpmScale >= MinJaccardPpm * Either
<1> DEFINE h == ask.history
           E == ask.paths
           N(wanted) == Cardinality({i \in Spoken(h, E) : wanted \subseteq h[i].paths})
           Either == N({s}) + N({p}) - N({s, p})
           commits == ReadHistory(h, E)
           value == Correlate(commits, Number(E, s), Number(E, p))
<1>1. \A x, y \in E : Touching(commits, {Number(E, x), Number(E, y)}) = N({x, y})
  <2> TAKE x \in E, y \in E
  <2>1. E \in SUBSET Nat /\ IsFiniteSet(E) /\ h \in Seq({h[i] : i \in DOMAIN h})
        /\ \A i \in DOMAIN h : IsFiniteSet(h[i].paths)
    BY DEF IsAsk
  <2> HIDE DEF h, E
  <2> QED
    BY <2>1, CountsAreTrue
<1>2. Spoken(h, E) \subseteq DOMAIN h /\ IsFiniteSet(DOMAIN h)
  <2>1. DOMAIN h = 1..Len(h) /\ Len(h) \in Nat
    BY DEF IsAsk
  <2> QED
    BY <2>1, FS_Interval DEF Spoken
<1>3. ASSUME NEW A, NEW B, A \subseteq B PROVE N(A) \in Nat /\ N(B) \in Nat /\ N(B) <= N(A)
  <2> DEFINE Of(X) == {i \in Spoken(h, E) : X \subseteq h[i].paths}
  <2>1. Of(B) \subseteq Of(A) /\ Of(A) \subseteq DOMAIN h
    BY <1>2, <1>3
  <2>2. IsFiniteSet(Of(A)) /\ IsFiniteSet(Of(B)) /\ Cardinality(Of(B)) <= Cardinality(Of(A))
    BY <1>2, <2>1, FS_Subset
  <2> QED
    BY <2>2, FS_CardinalityType
<1> HIDE DEF N
<1>4. /\ N({s}) \in Nat /\ N({p}) \in Nat /\ N({s, p}) \in Nat
      /\ N({s, p}) <= N({s}) /\ N({s, p}) <= N({p})
  <2>1. {s} \subseteq {s, p} /\ {p} \subseteq {s, p}
    OBVIOUS
  <2> QED
    BY <1>3, <2>1
<1>5. {s, s} = {s} /\ {p, p} = {p} /\ {Number(E, s), Number(E, s)} = {Number(E, s)}
      /\ {Number(E, p), Number(E, p)} = {Number(E, p)}
  OBVIOUS
<1>6. /\ Touching(commits, {Number(E, s), Number(E, p)}) = N({s, p})
      /\ Touching(commits, {Number(E, s)}) = N({s}) /\ Touching(commits, {Number(E, p)}) = N({p})
  <2> HIDE DEF E, commits
  <2>1. s \in E /\ p \in E
    BY DEF E
  <2> QED
    BY <1>1, <1>5, <2>1
<1> HIDE DEF h, E, commits
<1>7. value = [together |-> N({s, p}), commitsA |-> N({s}), commitsB |-> N({p}),
               jaccard |-> Jaccard(N({s, p}), Either)]
  BY <1>6 DEF Correlate
<1>8. Either \in Nat /\ N({s, p}) <= Either /\ N({s, p}) * PpmScale \in Nat
  BY <1>4 DEF PpmScale
<1>9. MinTogether \in Nat /\ MinTogether > 0 /\ MinJaccardPpm \in Nat
  BY CoChangeAssumption
<1>10. Jaccard(N({s, p}), Either) \in Nat
       /\ (Either > 0 => /\ Jaccard(N({s, p}), Either) = (N({s, p}) * PpmScale) \div Either
                         /\ Jaccard(N({s, p}), Either) >= MinJaccardPpm
                              <=> N({s, p}) * PpmScale >= MinJaccardPpm * Either)
  <2> DEFINE a == N({s, p}) * PpmScale
             u == Either
  <2>1. a \in Nat /\ u \in Nat /\ MinJaccardPpm \in Nat
    BY <1>8, <1>9
  <2>2. Jaccard(N({s, p}), Either) = IF u = 0 THEN 0 ELSE a \div u
    BY DEF Jaccard
  <2> HIDE DEF a, u
  <2>3. u > 0 => a \div u \in Nat /\ (a \div u >= MinJaccardPpm <=> a >= MinJaccardPpm * u)
    BY <2>1, FloorIsReached
  <2> QED
    BY <2>1, <2>2, <2>3 DEF a, u
<1>11. N({s, p}) >= MinTogether => Either > 0
  BY <1>4, <1>8, <1>9
<1> HIDE DEF Either
<1>12. Reportable(value)
         <=> N({s, p}) >= MinTogether /\ N({s, p}) * PpmScale >= MinJaccardPpm * Either
  BY <1>7, <1>10, <1>11 DEF Reportable
<1>13. /\ value.together = N({s, p}) /\ value.commitsA = N({s}) /\ value.commitsB = N({p})
       /\ value.together \in Nat /\ value.jaccard \in Nat
       /\ N({s, p}) >= MinTogether => value.jaccard = (N({s, p}) * PpmScale) \div Either
  BY <1>4, <1>7, <1>10, <1>11
<1> QED
  BY <1>12, <1>13 DEF value, Either, N, commits, h, E

\* What is reported of the history as it is read is earned (evidence).
LEMMA EvidenceIsEarned ==
  ASSUME NEW ask, IsAsk(ask), ask.born
  PROVE  CoChangeIsEarned(ask, Evidence(ReadHistory(ask.history, ask.paths), ask.paths, ask.seeds))
<1> DEFINE h == ask.history
           E == ask.paths
           commits == ReadHistory(h, E)
           N(wanted) == Cardinality({i \in Spoken(h, E) : wanted \subseteq h[i].paths})
           Either(s, p) == N({s}) + N({p}) - N({s, p})
           Enough(s, p) ==
             N({s, p}) >= MinTogether /\ N({s, p}) * PpmScale >= MinJaccardPpm * Either(s, p)
           partners(p) == {s \in ask.seeds \cap E : Enough(s, p)}
           seedIds == Numbered(E, ask.seeds)
           Value(s, o) == Correlate(commits, s, o)
           Good(o) == {s \in seedIds : Reportable(Value(s, o))}
           Wins(s, o) == \A t \in Good(o) : /\ ~Stronger(Value(t, o), Value(s, o))
                                            /\ t < s => Stronger(Value(s, o), Value(t, o))
           listed == {p \in E : Number(E, p) \notin seedIds /\ Good(Number(E, p)) # {}}
           found == Evidence(commits, E, ask.seeds)
<1>1. found = [p \in listed |-> Value(CHOOSE s \in Good(Number(E, p)) : Wins(s, Number(E, p)), Number(E, p))]
  BY DEF Evidence
<1>2. E \in SUBSET Nat /\ IsFiniteSet(E)
  BY DEF IsAsk
<1>3. /\ \A p \in E : Number(E, p) \in Nat
      /\ \A p, q \in E : Number(E, p) = Number(E, q) => p = q
  <2>1. \A n \in 0..(Cardinality(E) - 1) : n \in Nat
    BY <1>2, FS_CardinalityType
  <2> HIDE DEF E
  <2> QED
    BY <1>2, <2>1, NumberLaws
<1>4. ASSUME NEW s \in E, NEW p \in E
      PROVE  /\ Value(Number(E, s), Number(E, p)).together = N({s, p})
             /\ Value(Number(E, s), Number(E, p)).commitsA = N({s})
             /\ Value(Number(E, s), Number(E, p)).commitsB = N({p})
             /\ Value(Number(E, s), Number(E, p)).together \in Nat
             /\ Value(Number(E, s), Number(E, p)).jaccard \in Nat
             /\ N({s, p}) >= MinTogether =>
                  Value(Number(E, s), Number(E, p)).jaccard = (N({s, p}) * PpmScale) \div Either(s, p)
             /\ Reportable(Value(Number(E, s), Number(E, p))) <=> Enough(s, p)
  BY <1>4, CountLaws
<1>5. IsFiniteSet(seedIds) /\ seedIds \in SUBSET Nat
      /\ \A p \in E : Number(E, p) \in seedIds <=> p \in ask.seeds
  <2>1. seedIds \subseteq {Number(E, p) : p \in E}
    BY DEF Numbered
  <2>2. IsFiniteSet({Number(E, p) : p \in E})
    <3> DEFINE f == [p \in E |-> Number(E, p)]
    <3>1. IsFiniteSet({f[p] : p \in E})
      BY <1>2, FiniteImage
    <3>2. {f[p] : p \in E} = {Number(E, p) : p \in E}
      OBVIOUS
    <3> QED
      BY <3>1, <3>2
  <2>3. IsFiniteSet(seedIds)
    BY <2>1, <2>2, FS_Subset
  <2> QED
    BY <1>3, <2>1, <2>3 DEF Numbered
<1>6. \A n \in seedIds : \E s \in ask.seeds \cap E : n = Number(E, s)
  BY DEF Numbered
<1> HIDE DEF Value, N, commits, seedIds, E, h, found
<1>7. ASSUME NEW p \in E
      PROVE  /\ \A s \in partners(p) : Number(E, s) \in Good(Number(E, p))
             /\ \A n \in Good(Number(E, p)) : \E s \in partners(p) : n = Number(E, s)
  BY <1>4, <1>5, <1>6
<1>8. listed = {p \in E \ ask.seeds : partners(p) # {}}
  BY <1>5, <1>7
<1>9. ASSUME NEW p \in listed
      PROVE  \E s \in partners(p) :
               /\ found[p] = Value(Number(E, s), Number(E, p))
               /\ Wins(Number(E, s), Number(E, p))
  <2> DEFINE o == Number(E, p)
             v == [s \in seedIds |-> Value(s, o)]
  <2>1. p \in E /\ Good(o) # {} /\ Good(o) \in SUBSET seedIds
    OBVIOUS
  <2>2. IsFiniteSet(Good(o)) /\ Good(o) \in SUBSET Nat
    BY <1>5, <2>1, FS_Subset
  <2>3. \A s \in Good(o) : v[s].jaccard \in Nat /\ v[s].together \in Nat
    BY <1>4, <1>6, <2>1
  <2>4. \E s \in Good(o) : \A t \in Good(o) : ~Stronger(v[t], v[s]) /\ (t < s => Stronger(v[s], v[t]))
    <3> HIDE DEF Good, v, o
    <3> QED
      BY <2>1, <2>2, <2>3, SomeSeedWins
  <2>5. \E s \in Good(o) : Wins(s, o)
    BY <2>1, <2>4
  <2> DEFINE c == CHOOSE s \in Good(o) : Wins(s, o)
  <2>6. c \in Good(o) /\ Wins(c, o)
    <3> HIDE DEF Good, Wins, o
    <3> QED
      BY <2>5
  <2>7. found[p] = Value(c, o)
    BY <1>1
  <2> HIDE DEF c
  <2>8. PICK s \in partners(p) : c = Number(E, s)
    BY <1>7, <2>1, <2>6
  <2> HIDE DEF Wins, partners
  <2> QED
    BY <2>6, <2>7, <2>8
<1>10. DOMAIN found = listed
  BY <1>1
<1> HIDE DEF listed
<1>11. ASSUME NEW p \in listed
       PROVE  \E s \in partners(p) :
                /\ <<found[p].together, found[p].commitsA, found[p].commitsB>> = <<N({s, p}), N({s}), N({p})>>
                /\ \A t \in partners(p) : (N({t, p}) * PpmScale) \div Either(t, p) <= found[p].jaccard
  <2>1. PICK s \in partners(p) : found[p] = Value(Number(E, s), Number(E, p))
                                 /\ Wins(Number(E, s), Number(E, p))
    BY <1>9
  <2>2. p \in E /\ s \in E
    BY <1>8
  <2>3. ASSUME NEW t \in partners(p)
        PROVE  (N({t, p}) * PpmScale) \div Either(t, p) <= found[p].jaccard
    <3>1. t \in E /\ N({t, p}) >= MinTogether /\ Number(E, t) \in Good(Number(E, p))
      BY <1>7, <2>2
    <3>2. ~Stronger(Value(Number(E, t), Number(E, p)), Value(Number(E, s), Number(E, p)))
      BY <2>1, <3>1
    <3>3. Value(Number(E, t), Number(E, p)).jaccard = (N({t, p}) * PpmScale) \div Either(t, p)
          /\ Value(Number(E, t), Number(E, p)).jaccard \in Nat
          /\ Value(Number(E, s), Number(E, p)).jaccard \in Nat
      BY <1>4, <2>2, <3>1
    <3> HIDE DEF Either
    <3> QED
      BY <2>1, <3>2, <3>3 DEF Stronger
  <2>4. <<found[p].together, found[p].commitsA, found[p].commitsB>> = <<N({s, p}), N({s}), N({p})>>
    BY <1>4, <2>1, <2>2
  <2> QED
    BY <2>3, <2>4
<1>12. DOMAIN found = IF ask.born THEN {p \in E \ ask.seeds : partners(p) # {}} ELSE {}
  BY <1>8, <1>10
<1>13. \A p \in DOMAIN found : \E s \in partners(p) :
          /\ <<found[p].together, found[p].commitsA, found[p].commitsB>> = <<N({s, p}), N({s}), N({p})>>
          /\ \A t \in partners(p) : (N({t, p}) * PpmScale) \div Either(t, p) <= found[p].jaccard
  BY <1>10, <1>11
<1>14. CoChangeIsEarned(ask, found)
  BY <1>12, <1>13 DEF CoChangeIsEarned, Spoken, Singles, N, E, h
<1> QED
  BY <1>14 DEF found, commits, E, h

\* An ask of nothing, or of no commit, is told nothing (co_changed).
LEMMA NothingIsEarned ==
  ASSUME NEW ask, ask.seeds = {} \/ ~ask.born
  PROVE  CoChangeIsEarned(ask, <<>>)
<1>1. DOMAIN <<>> = {}
  OBVIOUS
<1>2. \A found : DOMAIN found = {} => CoChangeIsEarned(ask, found)
  BY DEF CoChangeIsEarned
<1> QED
  BY <1>1, <1>2

\* However many asks came before, a cache says of a tip and its paths what the
\* history behind that tip says (HistoryKey, read_cache, write_cache).
LEMMA CachesAreTrue ==
  ASSUME NEW asks, IsSeries(asks), NEW i \in DOMAIN asks, asks[i].cache # NoHistory
  PROVE  \E j \in DOMAIN asks :
           asks[i].cache = [key |-> HistoryKey(asks[j].ask.tip, asks[j].ask.paths),
                            commits |-> ReadHistory(asks[j].ask.history, asks[j].ask.paths)]
<1> DEFINE Entry(j) == [key |-> HistoryKey(asks[j].ask.tip, asks[j].ask.paths),
                        commits |-> ReadHistory(asks[j].ask.history, asks[j].ask.paths)]
           True(k) == asks[k].cache # NoHistory => \E j \in DOMAIN asks : asks[k].cache = Entry(j)
           last == Len(asks)
           Fine == {k \in 0..last : k # 0 => True(k)}
<1>1. last \in Nat /\ DOMAIN asks = 1..last
  BY DEF IsSeries
<1>2. 0 \in Fine
  BY <1>1
<1>3. ASSUME NEW k \in 0..(last - 1), k \in Fine PROVE k + 1 \in Fine
  <2>1. k + 1 \in DOMAIN asks /\ k + 1 \in 0..last /\ (k + 1) - 1 = k
    BY <1>1
  <2>2. CASE k = 0
    BY <2>1, <2>2 DEF IsSeries
  <2>3. CASE k # 0
    <3>1. k \in DOMAIN asks /\ k + 1 \in DOMAIN asks \ {1} /\ True(k)
      BY <1>1, <1>3, <2>1, <2>3
    <3>2. asks[k + 1].cache \in {NoHistory, asks[k].cache, CoChanged(asks[k].ask, asks[k].cache).cache}
      BY <2>1, <3>1 DEF IsSeries
    <3>3. CoChanged(asks[k].ask, asks[k].cache).cache \in {asks[k].cache, Entry(k)}
      BY DEF CoChanged, ReadCache
    <3>4. True(k + 1)
      <4> HIDE DEF Entry
      <4> QED
        BY <3>1, <3>2, <3>3
    <3> QED
      BY <2>1, <3>4
  <2> QED
    BY <2>2, <2>3
<1> HIDE DEF Fine
<1>4. \A k \in 0..last : k \in Fine
  BY <1>1, <1>2, <1>3, InductionUpTo
<1>5. True(i)
  BY <1>1, <1>4 DEF Fine
<1> QED
  BY <1>5

\* The answer to the last of any asks of one clone is earned by the history behind its
\* own tip, whatever the asks before left in the cache.
THEOREM CoChangesAreEarned ==
  ASSUME NEW asks, IsSeries(asks)
  PROVE  CoChangeIsEarned(asks[Len(asks)].ask, LastAnswer(asks))
<1> DEFINE n == Len(asks)
           ask == asks[n].ask
           cache == asks[n].cache
           key == HistoryKey(ask.tip, ask.paths)
           fresh == ReadHistory(ask.history, ask.paths)
           seen == ReadCache(cache, key, Cardinality(ask.paths))
           cached == IF seen # NoHistory THEN seen ELSE [key |-> key, commits |-> fresh]
<1>1. n \in DOMAIN asks /\ IsAsk(ask)
  BY DEF IsSeries
<1>2. LastAnswer(asks) = IF ask.seeds = {} \/ ~ask.born THEN <<>>
                         ELSE Evidence(cached.commits, ask.paths, ask.seeds)
  BY DEF LastAnswer, CoChanged
<1>3. cached.commits = fresh
  <2>1. CASE seen = NoHistory
    BY <2>1
  <2>2. CASE seen # NoHistory
    <3>1. seen = cache /\ cache # NoHistory /\ cache.key = key
      BY <2>2 DEF ReadCache
    <3>2. PICK j \in DOMAIN asks :
            cache = [key |-> HistoryKey(asks[j].ask.tip, asks[j].ask.paths),
                     commits |-> ReadHistory(asks[j].ask.history, asks[j].ask.paths)]
      BY <1>1, <3>1, CachesAreTrue
    <3>3. asks[j].ask.tip = ask.tip /\ asks[j].ask.paths = ask.paths
      BY <3>1, <3>2 DEF HistoryKey
    <3>4. asks[j].ask.history = ask.history
      BY <1>1, <3>3 DEF IsSeries
    <3> QED
      BY <2>2, <3>1, <3>2, <3>3, <3>4
  <2> QED
    BY <2>1, <2>2
<1> HIDE DEF cached
<1>4. CASE ask.seeds = {} \/ ~ask.born
  BY <1>2, <1>4, NothingIsEarned
<1>5. CASE ask.seeds # {} /\ ask.born
  <2>1. LastAnswer(asks) = Evidence(fresh, ask.paths, ask.seeds)
    BY <1>2, <1>3, <1>5
  <2> HIDE DEF ask
  <2>2. CoChangeIsEarned(ask, Evidence(fresh, ask.paths, ask.seeds))
    BY <1>1, <1>5, EvidenceIsEarned
  <2> QED
    BY <2>1, <2>2 DEF ask
<1> QED
  BY <1>4, <1>5

\* However rr is asked what changed together, one ask after another.
THEOREM CoChangesAreServed == RequestSpec => []CoChangeServed
<1>1. RequestInvariant => CoChangeServed
  BY CoChangesAreEarned DEF RequestInvariant, Requested, CoChangeServed, Answered
<1> QED
  BY <1>1, RequestsAreAnswered, PTL
=============================================================================
