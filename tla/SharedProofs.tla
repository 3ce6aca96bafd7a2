---------------------------- MODULE SharedProofs ----------------------------
(***************************************************************************)
(* Proofs about five of the protocols that threads or processes of rr meet *)
(* in: the nested SIGPIPE swap, the fact cache, the walk that counts       *)
(* against the file limit, the source a query checks and serves, and the   *)
(* route cache.  They share no state, and no proof of one cites another's. *)
(***************************************************************************)
EXTENDS Sigpipe, FactStore, SourceCheck, Discovery, Routes, FiniteOrders

----------------------------------------------------------------------------
(***************************************************************************)
(* A closed pipe never ends a thread that is inside, and ends the process  *)
(* once nobody is, for any threads and any nesting.  The counter has to be *)
(* the number of guards that exist, so the guards are told apart: the i-th *)
(* guard of t is <<t, i>>, taking one adds an element and dropping one     *)
(* removes it, and an empty set is nobody inside.                          *)
(***************************************************************************)

Slots == Threads \X (1..MaxNest)
Held == {g \in Slots : g[2] <= guards[g[1]]}

GuardsOK == guards \in [Threads -> 0..MaxNest]

\* The counter counts the guards, and the disposition goes with the counter.
SigpipeInv ==
  /\ GuardsOK
  /\ depth = Cardinality(Held)
  /\ depth = 0 => disposition = "terminate"
  /\ depth # 0 => disposition = "ignore" /\ previous = "terminate"

\* The guards held are finitely many.
LEMMA HeldFinite == IsFiniteSet(Held) /\ Cardinality(Held) \in Nat
<1>1. IsFiniteSet(1..MaxNest)
  BY SigpipeAssumption, FS_Interval
<1>2. IsFiniteSet(Slots)
  BY <1>1, SigpipeAssumption, FS_Product DEF Slots
<1>3. Held \in SUBSET Slots
  BY DEF Held
<1> QED
  BY <1>2, <1>3, FS_Subset, FS_CardinalityType

\* Nobody holds a guard exactly when there is none.
LEMMA EmptyMeansNobody == GuardsOK => (Held = {} <=> Inside = {})
<1> SUFFICES ASSUME GuardsOK PROVE Held = {} <=> Inside = {}
  OBVIOUS
<1>1. ASSUME NEW t \in Threads, guards[t] > 0 PROVE <<t, 1>> \in Held
  BY <1>1, SigpipeAssumption DEF GuardsOK, Held, Slots
<1>2. ASSUME NEW g \in Held PROVE g[1] \in Inside
  BY <1>2, SigpipeAssumption DEF GuardsOK, Held, Slots, Inside
<1> QED
  BY <1>1, <1>2 DEF Inside

\* The invariant of the guard holds at the start.
LEMMA SigpipeInitInv == SigpipeInit => SigpipeInv
<1> SUFFICES ASSUME SigpipeInit PROVE SigpipeInv
  OBVIOUS
<1>1. GuardsOK
  BY SigpipeAssumption DEF SigpipeInit, GuardsOK
<1>2. Inside = {}
  BY DEF SigpipeInit, Inside
<1>3. Cardinality(Held) = 0
  BY <1>1, <1>2, EmptyMeansNobody, FS_EmptySet
<1> QED
  BY <1>1, <1>3 DEF SigpipeInit, SigpipeInv

\* Taking a guard adds one.
LEMMA IgnoreAdds ==
  ASSUME SigpipeInv, NEW t \in Threads, Ignore(t)
  PROVE  GuardsOK' /\ Cardinality(Held') = Cardinality(Held) + 1
<1> DEFINE new == <<t, guards[t] + 1>>
<1>1. GuardsOK'
  BY SigpipeAssumption DEF SigpipeInv, GuardsOK, Ignore
<1>2. new \notin Held
  BY DEF SigpipeInv, GuardsOK, Held
<1>3. Held' = Held \cup {new}
  <2>1. new \in Slots
    BY SigpipeAssumption DEF SigpipeInv, GuardsOK, Ignore, Slots
  <2>2. ASSUME NEW u \in Threads, NEW i \in 1..MaxNest
        PROVE  i <= guards'[u] <=> i <= guards[u] \/ <<u, i>> = new
    BY SigpipeAssumption DEF SigpipeInv, GuardsOK, Ignore
  <2> QED
    BY <2>1, <2>2 DEF Held, Slots
<1> QED
  BY <1>1, <1>2, <1>3, HeldFinite, FS_AddElement

\* Dropping one takes one away, and there was one.
LEMMA DropRemoves ==
  ASSUME SigpipeInv, NEW t \in Threads, DropGuard(t)
  PROVE  GuardsOK' /\ Cardinality(Held) > 0 /\ Cardinality(Held') = Cardinality(Held) - 1
<1> DEFINE old == <<t, guards[t]>>
<1>1. GuardsOK'
  BY SigpipeAssumption DEF SigpipeInv, GuardsOK, DropGuard
<1>2. old \in Held
  BY SigpipeAssumption DEF SigpipeInv, GuardsOK, DropGuard, Held, Slots
<1>3. Held' = Held \ {old}
  <2>1. ASSUME NEW u \in Threads, NEW i \in 1..MaxNest
        PROVE  i <= guards'[u] <=> i <= guards[u] /\ <<u, i>> # old
    BY SigpipeAssumption DEF SigpipeInv, GuardsOK, DropGuard
  <2> QED
    BY <2>1 DEF Held, Slots
<1>4. Cardinality(Held) > 0
  BY <1>2, HeldFinite, FS_EmptySet
<1> QED
  BY <1>1, <1>2, <1>3, <1>4, HeldFinite, FS_RemoveElement

\* One case for each action of the guard.
LEMMA SigpipeNextInv == SigpipeInv /\ [SigpipeNext]_sigpipeVars => SigpipeInv'
<1> SUFFICES ASSUME SigpipeInv, [SigpipeNext]_sigpipeVars
             PROVE  SigpipeInv'
  OBVIOUS
<1>1. ASSUME NEW t \in Threads, Ignore(t) PROVE SigpipeInv'
  <2>1. depth \in Nat /\ depth' = depth + 1 /\ depth' # 0
    BY <1>1, HeldFinite DEF SigpipeInv, Ignore
  <2>2. GuardsOK' /\ depth' = Cardinality(Held')
    BY <1>1, <2>1, IgnoreAdds DEF SigpipeInv
  <2>3. disposition' = "ignore" /\ previous' = "terminate"
    BY <1>1 DEF SigpipeInv, Ignore, Saved
  <2> QED
    BY <2>1, <2>2, <2>3 DEF SigpipeInv
<1>2. ASSUME NEW t \in Threads, DropGuard(t) PROVE SigpipeInv'
  <2>1. depth > 0 /\ depth' = depth - 1
    BY <1>2, DropRemoves DEF SigpipeInv, DropGuard
  <2>2. GuardsOK' /\ depth' = Cardinality(Held') /\ depth \in Nat
    BY <1>2, <2>1, DropRemoves, HeldFinite DEF SigpipeInv
  <2>3. disposition = "ignore" /\ previous = "terminate"
    BY <2>1, <2>2 DEF SigpipeInv
  <2>4. disposition' = IF depth' = 0 THEN "terminate" ELSE "ignore"
    BY <1>2, <2>3 DEF DropGuard, Restored
  <2>5. previous' = "terminate"
    BY <1>2, <2>3 DEF DropGuard
  <2> QED
    BY <2>2, <2>4, <2>5 DEF SigpipeInv
<1>3. CASE UNCHANGED sigpipeVars
  BY <1>3 DEF sigpipeVars, SigpipeInv, GuardsOK, Held
<1> QED
  BY <1>1, <1>2, <1>3 DEF SigpipeNext

\* However the guards of however many threads overlap, SIGPIPE is ignored exactly
\* while one of them exists (sigpipe.rs, acquire and release).
THEOREM SigpipeStaysContained == SigpipeSpec => []SigpipeContained
<1>1. SigpipeInv => SigpipeContained
  <2> SUFFICES ASSUME SigpipeInv PROVE SigpipeContained
    OBVIOUS
  <2>1. depth = 0 <=> Inside = {}
    BY EmptyMeansNobody, HeldFinite, FS_EmptySet DEF SigpipeInv
  <2> QED
    BY <2>1 DEF SigpipeInv, SigpipeContained
<1> QED
  BY <1>1, SigpipeInitInv, SigpipeNextInv, PTL DEF SigpipeSpec

----------------------------------------------------------------------------
(***************************************************************************)
(* Nobody indexes another release's facts, for any number of workers,      *)
(* releases and contents.  What has to be carried along is that a name of  *)
(* the cache holds its own entry or nothing that reads back, and that the  *)
(* temporary file of a worker about to rename holds what it extracted.     *)
(***************************************************************************)

Putting == {"create", "write", "persist"}

\* A worker past its extraction has the facts of its own key.
HasItsFacts(w) ==
  wpc[w] \in Putting \cup {"done"} =>
    job[w] \in Contents /\ facts[w] = KeyOf(w, job[w])

\* What a worker is about to file is cacheable, and whole before the rename.
FilesWhatItExtracted(w) ==
  /\ wpc[w] = "extract" => job[w] \in Contents
  /\ wpc[w] \in Putting => Cacheable(job[w])
  /\ wpc[w] = "persist" => temp[w] = facts[w]

\* An entry that reads back is filed under its own key.
EntriesAreOwn ==
  \A k \in CacheKeys : entries[k] \in CacheKeys =>
    entries[k] = k /\ k.content \notin Uncacheable

FactInv ==
  /\ FactTypeOK /\ EntriesAreOwn
  /\ \A w \in Workers : HasItsFacts(w) /\ FilesWhatItExtracted(w)

\* A key made by a worker is a key, and says what it is of.
LEMMA KeyOfType ==
  ASSUME NEW w \in Workers, NEW c \in Contents
  PROVE  /\ KeyOf(w, c) \in CacheKeys
         /\ KeyOf(w, c).content = c
         /\ FactsOf(KeyOf(w, c)) = KeyOf(w, c)
  BY DEF KeyOf, CacheKeys, Releases, FactsOf

\* The invariant of the fact cache holds at the start.
LEMMA FactInitInv == FactInit => FactInv
  BY FactStoreAssumption
  DEF FactInit, FactInv, FactTypeOK, EntriesAreOwn, Entries, HasItsFacts,
      FilesWhatItExtracted, Putting

\* A step of one worker that leaves the cache alone disturbs only that worker.
LEMMA WorkerStep ==
  ASSUME FactInv, FactTypeOK', UNCHANGED entries, NEW w \in Workers,
         \A v \in Workers \ {w} :
           wpc'[v] = wpc[v] /\ job'[v] = job[v] /\ facts'[v] = facts[v] /\ temp'[v] = temp[v],
         HasItsFacts(w)', FilesWhatItExtracted(w)'
  PROVE  FactInv'
<1>1. EntriesAreOwn'
  BY DEF FactInv, EntriesAreOwn
<1>2. ASSUME NEW v \in Workers \ {w} PROVE HasItsFacts(v)' /\ FilesWhatItExtracted(v)'
  BY <1>2 DEF FactInv, HasItsFacts, FilesWhatItExtracted, KeyOf, Cacheable
<1> QED
  BY <1>1, <1>2 DEF FactInv

\* One case for each action of the fact cache.
LEMMA FactNextInv == FactInv /\ [FactNext]_factVars => FactInv'
<1> SUFFICES ASSUME FactInv, [FactNext]_factVars
             PROVE  FactInv'
  OBVIOUS
<1> USE DEF FactInv
<1>1. ASSUME NEW w \in Workers, Get(w) PROVE FactInv'
  <2>1. PICK c \in Contents, readable \in BOOLEAN :
          LET key == KeyOf(w, c) IN
            /\ job' = [job EXCEPT ![w] = c]
            /\ IF readable /\ entries[key] \in CacheKeys
               THEN /\ facts' = [facts EXCEPT ![w] = entries[key]]
                    /\ wpc' = [wpc EXCEPT ![w] = "done"]
               ELSE wpc' = [wpc EXCEPT ![w] = "extract"] /\ UNCHANGED facts
    BY <1>1 DEF Get
  <2>2. UNCHANGED <<entries, temp>>
    BY <1>1 DEF Get
  <2>3. CASE readable /\ entries[KeyOf(w, c)] \in CacheKeys
    <3>1. entries[KeyOf(w, c)] = KeyOf(w, c)
      BY <2>3, KeyOfType DEF EntriesAreOwn
    <3>2. FactTypeOK'
      BY <2>1, <2>2, <2>3 DEF FactTypeOK
    <3>3. HasItsFacts(w)' /\ FilesWhatItExtracted(w)'
      BY <2>1, <2>3, <3>1 DEF FactTypeOK, HasItsFacts, FilesWhatItExtracted, Putting, KeyOf
    <3> QED
      BY <2>1, <2>2, <2>3, <3>2, <3>3, WorkerStep DEF FactTypeOK
  <2>4. CASE ~(readable /\ entries[KeyOf(w, c)] \in CacheKeys)
    <3>1. FactTypeOK'
      BY <2>1, <2>2, <2>4 DEF FactTypeOK
    <3>2. HasItsFacts(w)' /\ FilesWhatItExtracted(w)'
      BY <2>1, <2>4 DEF FactTypeOK, HasItsFacts, FilesWhatItExtracted, Putting
    <3> QED
      BY <2>1, <2>2, <2>4, <3>1, <3>2, WorkerStep DEF FactTypeOK
  <2> QED
    BY <2>3, <2>4
<1>2. ASSUME NEW w \in Workers, Extract(w) PROVE FactInv'
  <2>1. job[w] \in Contents
    BY <1>2 DEF Extract, FilesWhatItExtracted
  <2>2. facts' = [facts EXCEPT ![w] = KeyOf(w, job[w])]
    BY <1>2 DEF Extract, FactsOf, KeyOf
  <2>3. FactTypeOK'
    BY <1>2, <2>1, <2>2, KeyOfType DEF Extract, FactTypeOK
  <2>4. HasItsFacts(w)' /\ FilesWhatItExtracted(w)'
    BY <1>2, <2>1, <2>2
    DEF Extract, FactTypeOK, HasItsFacts, FilesWhatItExtracted, Putting, KeyOf, Cacheable
  <2> QED
    BY <1>2, <2>3, <2>4, WorkerStep DEF Extract, FactTypeOK
<1>3. ASSUME NEW w \in Workers, Create(w) \/ WriteAll(w) \/ PutFails(w) PROVE FactInv'
  <2>1. wpc[w] \in Putting /\ job[w] \in Contents /\ facts[w] = KeyOf(w, job[w])
    BY <1>3 DEF Create, WriteAll, PutFails, Putting, HasItsFacts
  <2>2. FactTypeOK'
    BY <1>3, <2>1, KeyOfType DEF Create, WriteAll, PutFails, FactTypeOK, Entries
  <2>3. HasItsFacts(w)' /\ FilesWhatItExtracted(w)'
    BY <1>3, <2>1 DEF Create, WriteAll, PutFails, FactTypeOK, HasItsFacts,
       FilesWhatItExtracted, Putting, KeyOf, Cacheable
  <2> QED
    BY <1>3, <2>2, <2>3, WorkerStep DEF Create, WriteAll, PutFails, FactTypeOK
<1>4. ASSUME NEW w \in Workers, Persist(w) PROVE FactInv'
  <2>1. /\ job[w] \in Contents /\ Cacheable(job[w])
        /\ temp[w] = KeyOf(w, job[w])
    BY <1>4 DEF Persist, Putting, HasItsFacts, FilesWhatItExtracted
  <2>2. FactTypeOK'
    BY <1>4, <2>1, KeyOfType DEF Persist, FactTypeOK, Entries
  <2>3. EntriesAreOwn'
    BY <1>4, <2>1, KeyOfType DEF Persist, FactTypeOK, EntriesAreOwn, Cacheable
  <2>4. \A v \in Workers : HasItsFacts(v)' /\ FilesWhatItExtracted(v)'
    BY <1>4 DEF Persist, FactTypeOK, HasItsFacts, FilesWhatItExtracted, Putting, KeyOf, Cacheable
  <2> QED
    BY <2>2, <2>3, <2>4
<1>5. ASSUME NEW w \in Workers, Leave(w) PROVE FactInv'
  <2>1. FactTypeOK'
    BY <1>5 DEF Leave, FactTypeOK, Entries
  <2>2. HasItsFacts(w)' /\ FilesWhatItExtracted(w)'
    BY <1>5 DEF Leave, FactTypeOK, HasItsFacts, FilesWhatItExtracted, Putting
  <2> QED
    BY <1>5, <2>1, <2>2, WorkerStep DEF Leave, FactTypeOK
<1>6. CASE Damage
  <2>1. FactTypeOK'
    BY <1>6 DEF Damage, FactTypeOK, Entries
  <2>2. EntriesAreOwn'
    BY <1>6, FactStoreAssumption DEF Damage, FactTypeOK, EntriesAreOwn
  <2>3. \A v \in Workers : HasItsFacts(v)' /\ FilesWhatItExtracted(v)'
    BY <1>6 DEF Damage, HasItsFacts, FilesWhatItExtracted, KeyOf, Cacheable
  <2> QED
    BY <2>1, <2>2, <2>3
<1>7. CASE UNCHANGED factVars
  BY <1>7 DEF factVars, FactTypeOK, EntriesAreOwn, HasItsFacts, FilesWhatItExtracted,
     KeyOf, Cacheable
<1> QED
  BY <1>1, <1>2, <1>3, <1>4, <1>5, <1>6, <1>7 DEF FactNext

\* A file is always indexed with what this release extracts from its content,
\* and the cache never gives a degraded parse back (worker.rs, process; cache.rs,
\* get and put), for any workers, releases and contents.
THEOREM FactsAreAlwaysOwn == FactSpec => []FactsAreOwn
<1>1. FactInv => FactsAreOwn
  BY DEF FactInv, FactsAreOwn, HasItsFacts, EntriesAreOwn, KeyOf, Putting
<1> QED
  BY <1>1, FactInitInv, FactNextInv, PTL DEF FactSpec

----------------------------------------------------------------------------
(***************************************************************************)
(* The walk stops soon enough and not too soon, for any tree, threads and  *)
(* limit.  Below the limit nothing was dropped and nobody stopped; at the  *)
(* limit nobody takes another file, so the files sent and the files in     *)
(* hand, counted together, stay below what the limit and one file for each *)
(* thread make.                                                            *)
(***************************************************************************)

Busy == {t \in Walkers : taken[t] # NoFile}

WalkTypes ==
  /\ unvisited \subseteq Files /\ sent \subseteq Files
  /\ taken \in [Walkers -> Files \cup {NoFile}]
  /\ quitting \subseteq Walkers

\* No file is visited twice.
EachFileOnce ==
  /\ unvisited \cap sent = {}
  /\ \A t \in Busy : taken[t] \notin unvisited /\ taken[t] \notin sent
  /\ \A s, t \in Busy : s # t => taken[s] # taken[t]

\* Below the limit every file is somewhere and nobody stops.
NothingDropped ==
  counted < MaxFiles =>
    /\ quitting = {}
    /\ \A f \in Files : f \in unvisited \/ f \in sent \/ \E t \in Busy : taken[t] = f

Bounded ==
  /\ MaxFiles = 0 => sent = {} /\ Busy = {}
  /\ MaxFiles > 0 => Cardinality(sent) + Cardinality(Busy) < MaxFiles + Cardinality(Walkers)

WalkInv ==
  /\ WalkTypes /\ EachFileOnce /\ NothingDropped /\ Bounded
  /\ counted = Cardinality(sent)

\* Some of the walkers are no more than all of them.
LEMMA SomeWalkers ==
  ASSUME NEW B \in SUBSET Walkers
  PROVE  IsFiniteSet(B) /\ Cardinality(B) \in Nat /\ Cardinality(B) <= Cardinality(Walkers)
  BY DiscoveryAssumption, FS_Subset, FS_CardinalityType

\* What the walk counts is finite.
LEMMA WalkCounts ==
  ASSUME WalkTypes
  PROVE  /\ IsFiniteSet(sent) /\ Cardinality(sent) \in Nat
         /\ IsFiniteSet(Busy) /\ Cardinality(Busy) \in Nat
         /\ Cardinality(Busy) <= Cardinality(Walkers)
         /\ Cardinality(Walkers) \in Nat /\ Cardinality(Walkers) > 0
         /\ Cardinality(Files) \in Nat
<1>1. IsFiniteSet(sent) /\ Cardinality(sent) \in Nat
  BY DiscoveryAssumption, FS_Subset, FS_CardinalityType DEF WalkTypes
<1>2. Busy \in SUBSET Walkers
  BY DEF Busy
<1>3. /\ IsFiniteSet(Busy) /\ Cardinality(Busy) <= Cardinality(Walkers)
      /\ Cardinality(Busy) \in Nat
  BY <1>2, SomeWalkers
<1>4. Cardinality(Walkers) \in Nat /\ Cardinality(Walkers) # 0
  BY DiscoveryAssumption, FS_CardinalityType, FS_EmptySet
<1>5. Cardinality(Files) \in Nat
  BY DiscoveryAssumption, FS_CardinalityType
<1> QED
  BY <1>1, <1>3, <1>4, <1>5

\* The invariant of the walk holds at the start.
LEMMA WalkInitInv == WalkInit => WalkInv
<1> SUFFICES ASSUME WalkInit PROVE WalkInv
  OBVIOUS
<1>1. WalkTypes
  BY DEF WalkInit, WalkTypes
<1>2. Busy = {} /\ sent = {} /\ Cardinality(Busy) = 0 /\ Cardinality(sent) = 0
  BY FS_EmptySet DEF WalkInit, Busy
<1>3. EachFileOnce /\ NothingDropped
  BY <1>2 DEF WalkInit, EachFileOnce, NothingDropped
<1>4. Bounded
  BY <1>1, <1>2, WalkCounts, DiscoveryAssumption DEF Bounded
<1> QED
  BY <1>1, <1>2, <1>3, <1>4 DEF WalkInit, WalkInv

\* A thread that takes a file does so below the limit, and is one more.
LEMMA TakeInv ==
  ASSUME WalkInv, NEW t \in Walkers, NEW f \in unvisited,
         taken[t] = NoFile, counted < MaxFiles,
         unvisited' = unvisited \ {f}, taken' = [taken EXCEPT ![t] = f],
         UNCHANGED <<sent, counted, quitting>>
  PROVE  WalkInv'
<1> USE DEF WalkInv
<1>1. WalkTypes' /\ f \in Files /\ f # NoFile
  BY DiscoveryAssumption DEF WalkTypes
<1>2. Busy' = Busy \cup {t} /\ \A s \in Busy : s # t /\ taken'[s] = taken[s]
  BY <1>1 DEF Busy, WalkTypes
<1>3. taken'[t] = f
  BY DEF WalkTypes
<1>4. EachFileOnce'
  BY <1>2, <1>3 DEF EachFileOnce, WalkTypes
<1>5. NothingDropped'
  BY <1>2, <1>3 DEF NothingDropped, WalkTypes
<1>6. Bounded'
  <2>1. Busy' \in SUBSET Walkers
    BY <1>2 DEF Busy
  <2>2. /\ sent' = sent /\ Cardinality(sent) < MaxFiles
        /\ Cardinality(Busy') <= Cardinality(Walkers) /\ Cardinality(Busy') \in Nat
        /\ Cardinality(sent) \in Nat
        /\ Cardinality(Walkers) \in Nat /\ MaxFiles \in Nat
    BY <2>1, SomeWalkers, WalkCounts, DiscoveryAssumption
  <2> QED
    BY <2>1, <2>2 DEF Bounded
<1> QED
  BY <1>1, <1>4, <1>5, <1>6

\* A file that is sent changes hands, and the sum stays.
LEMMA SendInv ==
  ASSUME WalkInv, NEW t \in Walkers, Send(t) PROVE WalkInv'
<1> USE DEF WalkInv
<1> DEFINE f == taken[t]
<1>1. t \in Busy /\ f \in Files /\ f \notin sent
  BY DEF Send, Busy, WalkTypes, EachFileOnce
<1>2. sent' = sent \cup {f} /\ counted' = counted + 1 /\ unvisited' = unvisited
  BY DEF Send
<1>3. WalkTypes'
  BY DEF Send, WalkTypes
<1>4. Busy' = Busy \ {t} /\ \A s \in Busy' : taken'[s] = taken[s]
  BY DEF Send, Busy, WalkTypes
<1>5. Cardinality(sent') = Cardinality(sent) + 1
  BY <1>1, <1>2, WalkCounts, FS_AddElement
<1>6. Cardinality(Busy') = Cardinality(Busy) - 1
  BY <1>1, <1>4, WalkCounts, FS_RemoveElement
<1>7. EachFileOnce'
  BY <1>1, <1>2, <1>4 DEF EachFileOnce
<1>8. NothingDropped'
  <2> SUFFICES ASSUME counted' < MaxFiles
               PROVE  /\ quitting' = {}
                      /\ \A g \in Files : g \in unvisited' \/ g \in sent'
                                          \/ \E s \in Busy' : taken'[s] = g
    BY DEF NothingDropped
  <2>1. counted < MaxFiles
    BY <1>2, WalkCounts, DiscoveryAssumption
  <2>2. quitting' = {}
    BY <2>1, <1>2, WalkCounts, DiscoveryAssumption DEF Send, LastOne, NothingDropped
  <2> QED
    BY <2>1, <2>2, <1>2, <1>4 DEF NothingDropped
<1>9. Bounded'
  <2>1. MaxFiles # 0
    BY <1>1 DEF Bounded
  <2> QED
    BY <2>1, <1>5, <1>6, WalkCounts, DiscoveryAssumption DEF Bounded
<1> QED
  BY <1>2, <1>3, <1>5, <1>7, <1>8, <1>9

\* One case for each action of the walk.
LEMMA WalkNextInv == WalkInv /\ [WalkNext]_walkVars => WalkInv'
<1> SUFFICES ASSUME WalkInv, [WalkNext]_walkVars PROVE WalkInv'
  OBVIOUS
<1>c. counted \in Nat /\ MaxFiles \in Nat
  BY WalkCounts, DiscoveryAssumption DEF WalkInv
<1>1. ASSUME NEW t \in Walkers, Visit(t) PROVE WalkInv'
  <2>1. PICK f \in unvisited :
          /\ unvisited' = unvisited \ {f}
          /\ IF counted >= MaxFiles
             THEN quitting' = quitting \cup {t} /\ UNCHANGED taken
             ELSE taken' = [taken EXCEPT ![t] = f] /\ UNCHANGED quitting
    BY <1>1 DEF Visit
  <2>2. UNCHANGED <<sent, counted>> /\ taken[t] = NoFile
    BY <1>1 DEF Visit
  <2>3. CASE counted < MaxFiles
    BY <1>c, <2>1, <2>2, <2>3, TakeInv
  <2>4. CASE counted >= MaxFiles
    <3>1. Busy' = Busy /\ taken' = taken
      BY <2>1, <2>4 DEF Busy
    <3>2. WalkTypes' /\ EachFileOnce'
      BY <2>1, <2>2, <2>4, <3>1 DEF WalkInv, WalkTypes, EachFileOnce
    <3>3. NothingDropped' /\ Bounded'
      BY <1>c, <2>2, <2>4, <3>1 DEF WalkInv, NothingDropped, Bounded
    <3> QED
      BY <2>2, <3>2, <3>3 DEF WalkInv
  <2> QED
    BY <1>c, <2>3, <2>4
<1>2. ASSUME NEW t \in Walkers, Send(t) PROVE WalkInv'
  BY <1>2, SendInv
<1>3. ASSUME NEW t \in Walkers, Spread(t) PROVE WalkInv'
  <2>1. UNCHANGED <<unvisited, taken, sent, counted>> /\ Busy' = Busy
        /\ quitting' = quitting \cup {t} /\ quitting # {}
    BY <1>3 DEF Spread, Busy
  <2>2. ~(counted < MaxFiles)
    BY <2>1 DEF WalkInv, NothingDropped
  <2> QED
    BY <2>1, <2>2 DEF WalkInv, WalkTypes, EachFileOnce, NothingDropped, Bounded
<1>4. CASE UNCHANGED walkVars
  BY <1>4 DEF walkVars, WalkInv, WalkTypes, EachFileOnce, NothingDropped, Bounded, Busy
<1> QED
  BY <1>1, <1>2, <1>3, <1>4 DEF WalkNext

----------------------------------------------------------------------------
(* The truncation.                                                         *)

\* Of a set of files, the ones sort and truncate leave.
TakenFirst(S) == {f \in S : Cardinality({g \in S : g < f}) < MaxFiles}

\* The last file of a set is cut off or not; the cut of the others stays.
LEMMA CutOneMore ==
  ASSUME NEW A \in SUBSET Files, NEW x \in A, \A y \in A : y <= x
  PROVE  TakenFirst(A) = TakenFirst(A \ {x}) \cup (IF Cardinality(A \ {x}) < MaxFiles THEN {x} ELSE {})
<1> DEFINE B == A \ {x}
<1>1. \A f \in A : f \in Nat
  BY DiscoveryAssumption
<1>2. {g \in A : g < x} = B
  BY <1>1
<1>3. ASSUME NEW f \in B PROVE {g \in A : g < f} = {g \in B : g < f}
  BY <1>1
<1>4. x \in TakenFirst(A) <=> Cardinality(B) < MaxFiles
  BY <1>2 DEF TakenFirst
<1>5. ASSUME NEW f \in B PROVE f \in TakenFirst(A) <=> f \in TakenFirst(B)
  BY <1>3, <1>5 DEF TakenFirst
<1>6. x \notin TakenFirst(B) /\ TakenFirst(A) \subseteq A /\ TakenFirst(B) \subseteq B
  BY DEF TakenFirst
<1> HIDE DEF B
<1>7. A = B \cup {x}
  BY DEF B
<1> QED
  BY <1>4, <1>5, <1>6, <1>7 DEF B

\* The cut of any set of files has as many files as the set and the limit allow.
LEMMA CutSize ==
  ASSUME NEW S \in SUBSET Files
  PROVE  Cardinality(TakenFirst(S)) = Smaller(MaxFiles, Cardinality(S))
<1> DEFINE Good == {A \in SUBSET S : Cardinality(TakenFirst(A)) = Smaller(MaxFiles, Cardinality(A))}
<1>1. IsFiniteSet(S) /\ MaxFiles \in Nat
  BY DiscoveryAssumption, FS_Subset
<1>2. {} \in Good
  <2>1. TakenFirst({}) = {} /\ Cardinality({}) = 0
    BY FS_EmptySet DEF TakenFirst
  <2> QED
    BY <1>1, <2>1 DEF Smaller
<1>3. ASSUME NEW A \in SUBSET S, A # {}, \A B \in SUBSET A : B # A => B \in Good
      PROVE  A \in Good
  <2>1. IsFiniteSet(A) /\ A \in SUBSET Nat /\ A \in SUBSET Files
    BY <1>1, DiscoveryAssumption, FS_Subset
  <2>2. PICK x \in A : \A y \in A : y <= x
    BY <1>3, <2>1, GreatestNatural
  <2> DEFINE B == A \ {x}
  <2>3. /\ Cardinality(TakenFirst(B)) = Smaller(MaxFiles, Cardinality(B))
        /\ B \in SUBSET Files
    BY <1>3, <2>1, <2>2
  <2>4. /\ IsFiniteSet(B) /\ Cardinality(B) \in Nat
        /\ Cardinality(B) = Cardinality(A) - 1 /\ Cardinality(A) \in Nat
    BY <2>1, <2>2, FS_RemoveElement, FS_CardinalityType, FS_Subset
  <2>5. TakenFirst(A) = TakenFirst(B) \cup (IF Cardinality(B) < MaxFiles THEN {x} ELSE {})
    BY <2>1, <2>2, CutOneMore
  <2>6. x \notin TakenFirst(B) /\ IsFiniteSet(TakenFirst(B))
    <3>1. TakenFirst(B) \subseteq B
      BY DEF TakenFirst
    <3> QED
      BY <2>4, <3>1, FS_Subset
  <2> HIDE DEF B
  <2>7. CASE Cardinality(B) < MaxFiles
    <3>1. Cardinality(TakenFirst(A)) = Cardinality(TakenFirst(B)) + 1
      BY <2>5, <2>6, <2>7, FS_AddElement
    <3> QED
      BY <1>1, <2>3, <2>4, <2>7, <3>1 DEF Smaller
  <2>8. CASE ~(Cardinality(B) < MaxFiles)
    <3>1. TakenFirst(A) = TakenFirst(B)
      BY <2>5, <2>8
    <3> QED
      BY <1>1, <2>3, <2>4, <2>8, <3>1 DEF Smaller
  <2> QED
    BY <2>7, <2>8
<1>4. S \in Good
  <2> HIDE DEF Good
  <2> QED
    BY <1>1, <1>2, <1>3, FiniteInduction
<1> QED
  BY <1>4

----------------------------------------------------------------------------

\* The files sent are neither too many nor too few.
LEMMA InvCollects ==
  ASSUME WalkInv PROVE WalkCollects
<1>1. /\ WalkTypes /\ MaxFiles \in Nat /\ counted = Cardinality(sent)
  BY DiscoveryAssumption DEF WalkInv
<1>2. /\ Cardinality(sent) <= MaxFiles + Cardinality(Walkers)
      /\ MaxFiles > 0 => Cardinality(sent) < MaxFiles + Cardinality(Walkers)
  <2>1. MaxFiles = 0 => Cardinality(sent) = 0
    BY FS_EmptySet DEF WalkInv, Bounded
  <2> QED
    BY <1>1, <2>1, WalkCounts DEF WalkInv, Bounded
<1>3. ASSUME WalkOver, Cardinality(sent) < MaxFiles PROVE sent = Files
  <2>1. quitting = {} /\ \A f \in Files : f \in unvisited \/ f \in sent \/ \E t \in Busy : taken[t] = f
    BY <1>1, <1>3 DEF WalkInv, NothingDropped
  <2>2. Busy = {} /\ unvisited = {}
    BY <1>3, <2>1, DiscoveryAssumption DEF WalkOver, Busy
  <2> QED
    BY <1>1, <2>1, <2>2 DEF WalkTypes
<1>4. WalkOver => Cardinality(sent) >= Smaller(MaxFiles, Cardinality(Files))
  BY <1>1, <1>3, WalkCounts DEF Smaller
<1> QED
  BY <1>2, <1>4 DEF WalkCollects

\* However the threads of a walk interleave, it overshoots the limit by less than
\* one file for every other thread, and what discover makes of a walk that is
\* over has as many files as the tree and the limit allow (walk.rs,
\* VisitorCollector::visit and discover).
THEOREM WalkAlwaysKeepsLimit == WalkSpec => []WalkKeepsLimit
<1>1. WalkInv => WalkKeepsLimit
  <2> SUFFICES ASSUME WalkInv, WalkOver
               PROVE  Cardinality(Discovered) = Smaller(MaxFiles, Cardinality(Files))
    BY InvCollects DEF WalkKeepsLimit
  <2>1. sent \in SUBSET Files /\ Discovered = TakenFirst(sent)
    BY DEF WalkInv, WalkTypes, Discovered, TakenFirst
  <2>2. Cardinality(Discovered) = Smaller(MaxFiles, Cardinality(sent))
    BY <2>1, CutSize
  <2>3. Cardinality(sent) >= Smaller(MaxFiles, Cardinality(Files))
    BY InvCollects DEF WalkCollects
  <2>4. /\ Cardinality(sent) \in Nat /\ Cardinality(Files) \in Nat /\ MaxFiles \in Nat
        /\ Cardinality(sent) <= Cardinality(Files)
    BY <2>1, WalkCounts, DiscoveryAssumption, FS_Subset DEF WalkInv
  <2> QED
    BY <2>2, <2>3, <2>4 DEF Smaller
<1> QED
  BY <1>1, WalkInitInv, WalkNextInv, PTL DEF WalkSpec

----------------------------------------------------------------------------
(***************************************************************************)
(* `rr query --source` never serves a text that the path did not have      *)
(* after it was verified, for any contents and any number of edits.  An    *)
(* open handle is either attached, and then it is the path that is read,   *)
(* or it was detached while the query looked, and then the path had its    *)
(* bytes just before: in both cases what the second reading sees was       *)
(* yielded.                                                                *)
(***************************************************************************)

OpenFiles == [raw : Raws, attached : BOOLEAN]
Checked == {"revalidate", "reread"}

\* The file the query has open and the path it came from.
HandleFollowsPath ==
  /\ spc \in {"read", "reread"} => handle \in OpenFiles
  /\ handle \in OpenFiles /\ handle.attached =>
       path.kind = "file" /\ path.raw = handle.raw
  /\ staged # Nothing => path.kind = "file" /\ staged = Clean[path.raw]

\* What was verified, and what the path had from then on.
YieldedIsKnown ==
  /\ spc \in Checked => accepted = indexed /\ accepted \notin Unreadable
  /\ spc \in Checked /\ path.kind = "file" => Clean[path.raw] \in yielded
  /\ spc = "reread" => Clean[handle.raw] \in yielded

SourceInv ==
  /\ SourceTypeOK /\ HandleFollowsPath /\ YieldedIsKnown /\ ServedIsCurrent
  /\ outcome # Nothing => spc = "done"

\* The path of a file has bytes, and they have a canonical form.
LEMMA PathOfFile ==
  ASSUME NEW p \in Paths, p.kind = "file"
  PROVE  p.raw \in Raws /\ Clean[p.raw] \in Canonical
  BY DEF Paths, Canonical

\* What an open handle shows of its file.
LEMMA OpenFileRaw ==
  ASSUME NEW h \in OpenFiles
  PROVE  h.raw \in Raws /\ h.attached \in BOOLEAN /\ Clean[h.raw] \in Canonical /\ h # Nothing
  BY SourceAssumption DEF OpenFiles, Canonical

\* The invariant of the check holds at the start.
LEMMA SourceInitInv == SourceInit => SourceInv
<1> SUFFICES ASSUME SourceInit PROVE SourceInv
  OBVIOUS
<1>1. staged \in Canonical \cup {Nothing}
  BY PathOfFile DEF SourceInit
<1>2. Nothing \notin OpenFiles
  BY SourceAssumption DEF OpenFiles
<1> QED
  BY <1>1, <1>2, SourceAssumption
  DEF SourceInit, SourceInv, SourceTypeOK, HandleFollowsPath, YieldedIsKnown,
      ServedIsCurrent, Handles, Checked

\* Whatever the second reading finds, the path has yielded it since.
LEMMA ReadingWasYielded ==
  ASSUME SourceInv, spc = "reread"
  PROVE  AcquiredNow \in yielded
  BY DEF SourceInv, HandleFollowsPath, YieldedIsKnown, AcquiredNow, Checked

\* One case for each action of the check.
LEMMA SourceNextInv == SourceInv /\ [SourceNext]_sourceVars => SourceInv'
<1> SUFFICES ASSUME SourceInv, [SourceNext]_sourceVars
             PROVE  SourceInv'
  OBVIOUS
<1> USE DEF SourceInv
<1>n. Nothing \notin OpenFiles /\ Nothing \notin Refusals /\ Nothing # "verified"
  BY SourceAssumption DEF OpenFiles
<1>1. CASE OpenSource
  <2>1. CASE path.kind = "file"
    <3>1. path.raw \in Raws
      BY <2>1, PathOfFile DEF SourceTypeOK
    <3>a. handle' = [raw |-> path.raw, attached |-> TRUE]
      BY <1>1, <2>1 DEF OpenSource
    <3>2. handle' = [raw |-> path.raw, attached |-> TRUE] /\ handle' \in OpenFiles
      BY <3>1, <3>a DEF OpenFiles
    <3>3. SourceTypeOK'
      BY <1>1, <2>1, <3>2 DEF OpenSource, SourceTypeOK, Handles, OpenFiles
    <3>4. /\ UNCHANGED <<path, staged, accepted, indexed, yielded, outcome>>
          /\ spc \in {"acquire", "revalidate"} /\ spc' \in {"read", "reread"}
          /\ spc' = "reread" => spc = "revalidate"
      BY <1>1, <2>1 DEF OpenSource
    <3>5. handle'.raw = path.raw
      BY <3>2
    <3>6. HandleFollowsPath'
      BY <2>1, <3>2, <3>4, <3>5 DEF HandleFollowsPath
    <3>7. YieldedIsKnown'
      BY <2>1, <3>4, <3>5 DEF YieldedIsKnown, Checked
    <3> QED
      BY <3>3, <3>4, <3>6, <3>7 DEF ServedIsCurrent
  <2>2. CASE path.kind # "file"
    <3>1. path.kind \in Refusals
      BY <2>2 DEF SourceTypeOK, Paths, Refusals
    <3>2. outcome' = path.kind /\ spc' = "done" /\ handle' = Nothing /\ outcome' # "verified"
      BY <1>1, <2>2, <3>1 DEF OpenSource, Stops, Refusals
    <3> QED
      BY <1>1, <3>1, <3>2, <1>n
      DEF OpenSource, SourceTypeOK, Handles, HandleFollowsPath, YieldedIsKnown,
          ServedIsCurrent, Checked
  <2> QED
    BY <2>1, <2>2
<1>2. CASE VerifySource
  <2>1. CASE spc' = "done"
    <3>1. /\ outcome' \in {"stale", "notText"} /\ handle' = Nothing
          /\ UNCHANGED <<indexed, path, staged, accepted, edits, yielded>>
      BY <1>2, <2>1 DEF VerifySource, Stops
    <3> QED
      BY <2>1, <3>1, <1>n
      DEF SourceTypeOK, Handles, HandleFollowsPath, YieldedIsKnown, ServedIsCurrent,
          Checked, Refusals
  <2>2. CASE spc' # "done"
    <3>1. /\ accepted' = indexed /\ indexed \notin Unreadable
          /\ spc = "read" /\ spc' = "revalidate" /\ handle' = Nothing
          /\ yielded' = IF path.kind = "file" THEN {Clean[path.raw]} ELSE {}
          /\ UNCHANGED <<indexed, path, staged, edits, outcome>>
      BY <1>2, <2>2 DEF VerifySource, Stops
    <3>2. yielded' \subseteq Canonical
      BY <3>1, PathOfFile DEF SourceTypeOK
    <3> QED
      BY <3>1, <3>2, <1>n
      DEF SourceTypeOK, Handles, HandleFollowsPath, YieldedIsKnown, ServedIsCurrent, Checked
  <2> QED
    BY <2>1, <2>2
<1>3. CASE FinishSource
  <2>1. /\ outcome' = IF AcquiredNow = accepted THEN "verified" ELSE "raced"
        /\ spc = "reread" /\ spc' = "done" /\ handle' = Nothing
        /\ UNCHANGED <<indexed, path, staged, accepted, edits, yielded>>
    BY <1>3 DEF FinishSource, Stops, Same
  <2>2. AcquiredNow \in yielded
    BY <2>1, ReadingWasYielded
  <2> QED
    BY <2>1, <2>2, <1>n
    DEF SourceTypeOK, Handles, HandleFollowsPath, YieldedIsKnown, ServedIsCurrent,
        Checked, Refusals
<1>4. CASE Edit
  <2>1. PICK p \in Paths \ {path}, inPlace \in BOOLEAN :
          /\ inPlace => path.kind = "file" /\ p.kind = "file"
          /\ path' = p
          /\ handle' = IF handle = Nothing \/ ~handle.attached THEN handle
                       ELSE IF inPlace THEN [handle EXCEPT !.raw = p.raw]
                       ELSE [handle EXCEPT !.attached = FALSE]
          /\ yielded' = IF p.kind = "file" THEN yielded \cup {Clean[p.raw]} ELSE yielded
    BY <1>4 DEF Edit
  <2>2. staged' = Nothing /\ UNCHANGED <<indexed, spc, accepted, outcome>>
    BY <1>4 DEF Edit
  <2>3. yielded \subseteq yielded' /\ yielded' \subseteq Canonical
    BY <2>1, PathOfFile DEF SourceTypeOK
  <2>4. /\ handle = Nothing => handle' = Nothing
        /\ handle \in OpenFiles => handle' \in OpenFiles
        /\ handle \in OpenFiles /\ handle'.attached => path' = p /\ p.kind = "file" /\ p.raw = handle'.raw
        /\ handle \in OpenFiles =>
             handle'.raw = handle.raw \/ (p.kind = "file" /\ handle'.raw = p.raw)
    <3>1. CASE handle = Nothing
      BY <2>1, <3>1, <1>n
    <3>2. CASE handle \in OpenFiles /\ ~handle.attached
      BY <2>1, <3>2, <1>n
    <3>3. CASE handle \in OpenFiles /\ handle.attached /\ inPlace
      <4>1. p.kind = "file" /\ p.raw \in Raws
        BY <2>1, <3>3, PathOfFile
      <4>2. handle' = [handle EXCEPT !.raw = p.raw]
        BY <2>1, <3>3, <1>n
      <4> QED
        BY <2>1, <3>3, <4>1, <4>2, <1>n DEF OpenFiles
    <3>4. CASE handle \in OpenFiles /\ handle.attached /\ ~inPlace
      <4>1. handle' = [handle EXCEPT !.attached = FALSE]
        BY <2>1, <3>4, <1>n
      <4> QED
        BY <3>4, <4>1, <1>n DEF OpenFiles
    <3> QED
      BY <3>1, <3>2, <3>3, <3>4, <1>n DEF SourceTypeOK, Handles, OpenFiles
  <2>5. handle \in OpenFiles \/ handle = Nothing
    BY DEF SourceTypeOK, Handles, OpenFiles
  <2>6. SourceTypeOK'
    BY <2>1, <2>2, <2>3, <2>4, <2>5 DEF SourceTypeOK, Handles, OpenFiles
  <2>7. HandleFollowsPath'
    BY <2>2, <2>4, <2>5, <1>n DEF HandleFollowsPath
  <2>8. YieldedIsKnown'
    <3>1. path'.kind = "file" => Clean[path'.raw] \in yielded'
      BY <2>1
    <3>2. ASSUME spc = "reread" PROVE Clean[handle'.raw] \in yielded'
      <4>1. handle \in OpenFiles /\ Clean[handle.raw] \in yielded
        BY <3>2 DEF HandleFollowsPath, YieldedIsKnown
      <4> QED
        BY <2>1, <2>3, <2>4, <4>1
    <3> QED
      BY <2>2, <3>1, <3>2 DEF YieldedIsKnown
  <2> QED
    BY <2>2, <2>3, <2>6, <2>7, <2>8 DEF ServedIsCurrent
<1>5. CASE Stage
  <2>1. Clean[path.raw] \in Canonical
    BY <1>5, PathOfFile DEF Stage, SourceTypeOK
  <2> QED
    BY <1>5, <2>1 DEF Stage, SourceTypeOK, HandleFollowsPath, YieldedIsKnown, ServedIsCurrent
<1>6. CASE UNCHANGED sourceVars
  BY <1>6 DEF sourceVars, SourceTypeOK, HandleFollowsPath, YieldedIsKnown, ServedIsCurrent
<1> QED
  BY <1>1, <1>2, <1>3, <1>4, <1>5, <1>6 DEF SourceNext

\* A source that is served is what was indexed, is text, and the path had it after
\* it was verified (source.rs, verify_source and revalidate_source), for any
\* contents, any clean filter and any number of edits.
THEOREM ServedIsAlwaysCurrent == SourceSpec => []ServedIsCurrent
<1>1. SourceInv => ServedIsCurrent
  BY DEF SourceInv
<1> QED
  BY <1>1, SourceInitInv, SourceNextInv, PTL DEF SourceSpec

----------------------------------------------------------------------------
(***************************************************************************)
(* What a question gets from `.rr/ROUTES.md` is vouched for, and nobody    *)
(* waits on a lock that is not about to be released: for any queries,      *)
(* questions, snapshots and any cap.  Every table, on disk or in the hands *)
(* of a learner, holds only what the ranker said in a snapshot with the    *)
(* record's identity; editing a table, evicting from it and dropping from  *)
(* it keep that, and the memo never says anything but the identity of the  *)
(* snapshot it is filed under.  No table outgrows the cap, and a learner   *)
(* under the lock edits the file as it is, so no step loses a route the    *)
(* cap has room for.                                                       *)
(***************************************************************************)

\* What the ranker said of k in a snapshot with the record's public API.
VouchedTable(t) ==
  \A k \in DOMAIN t : \E s \in Snapshots :
    Api[s] = t[k].api /\ Rank[s][k] = [anchor |-> t[k].anchor, belief |-> t[k].belief]

MemoTrue == memo # NoRoute => memo.api = Api[memo.stamp]

Working == {"lookup", "identify", "learn", "wait", "rename"}

\* What a learner at each point of its work knows.
LearnerOK(l) ==
  /\ VouchedTable(draft[l])
  /\ rpc[l] \in Working => held[l] \in Snapshots
  /\ l \in Queries =>
       /\ rpc[l] # "idle" => asked[l] \in Keys
       /\ rpc[l] = "identify" =>
            asked[l] \in DOMAIN draft[l] /\ draft[l][asked[l]].anchor \in Resolves[held[l]]
       /\ rpc[l] \in {"wait", "rename"} => Rank[held[l]][asked[l]] # NoRoute

Places ==
  /\ rpc \in [Learners -> QueryPC]
  /\ held \in [Learners -> Snapshots \cup {NoSnapshot}]
  /\ asked \in [Queries -> Keys \cup {NoQuery}]
  /\ draft = [l \in Learners |-> draft[l]]
  /\ current \in Snapshots

RoutesInv ==
  /\ Places /\ LockIsLive /\ MemoTrue
  /\ VouchedTable(file.table)
  /\ \A l \in Learners : LearnerOK(l)

----------------------------------------------------------------------------
(* The table.                                                              *)

\* An empty table has nothing to vouch for.
LEMMA EmptyVouched == VouchedTable(EmptyTable)
  BY DEF VouchedTable, EmptyTable

\* What a load returns is as vouched as the file.
LEMMA LoadVouched == ASSUME VouchedTable(file.table) PROVE VouchedTable(Load)
  BY EmptyVouched DEF Load

\* Taking records away keeps a table vouched for.
LEMMA PartVouched ==
  ASSUME NEW t, VouchedTable(t), NEW D, D \subseteq DOMAIN t
  PROVE  VouchedTable([k \in D |-> t[k]])
  BY DEF VouchedTable

\* A record of a ranker's answer may be inserted, whatever has to go for it.
LEMMA InsertVouched ==
  ASSUME NEW t, VouchedTable(t), NEW key \in Keys, NEW s \in Snapshots,
         Rank[s][key] # NoRoute
  PROVE  LET answer == Rank[s][key]
         IN  VouchedTable(Insert(t, key, [anchor |-> answer.anchor, api |-> Api[s],
                                          belief |-> answer.belief]))
<1> DEFINE answer == Rank[s][key]
           record == [anchor |-> answer.anchor, api |-> Api[s], belief |-> answer.belief]
           larger == [k \in DOMAIN t \cup {key} |-> IF k = key THEN record ELSE t[k]]
<1>1. answer = [anchor |-> answer.anchor, belief |-> answer.belief]
  <2>1. answer \in [anchor : Anchors, belief : Beliefs]
    BY RoutesAssumption DEF Answers
  <2> QED
    BY <2>1
<1>2. VouchedTable(larger)
  <2>1. ASSUME NEW k \in DOMAIN t \cup {key}
        PROVE  \E z \in Snapshots :
                 /\ Api[z] = larger[k].api
                 /\ Rank[z][k] = [anchor |-> larger[k].anchor, belief |-> larger[k].belief]
    <3>1. CASE k = key
      <4>1. larger[k] = record
        BY <3>1
      <4>2. record.api = Api[s] /\ record.anchor = answer.anchor /\ record.belief = answer.belief
        OBVIOUS
      <4> QED
        BY <1>1, <3>1, <4>1, <4>2
    <3>2. CASE k # key
      <4>1. larger[k] = t[k] /\ k \in DOMAIN t
        BY <3>2
      <4> HIDE DEF larger
      <4> QED
        BY <4>1 DEF VouchedTable
    <3> QED
      BY <3>1, <3>2
  <2>2. DOMAIN larger = DOMAIN t \cup {key}
    OBVIOUS
  <2> HIDE DEF larger
  <2> QED
    BY <2>1, <2>2 DEF VouchedTable
<1> HIDE DEF larger
<1>3. VouchedTable(EvictToBound(larger, key))
  <2> DEFINE victim == CHOOSE k \in DOMAIN larger : \A j \in DOMAIN larger : LessWorth(larger, k, j)
  <2>1. VouchedTable([k \in (DOMAIN larger) \ {victim} |-> larger[k]])
    <3> HIDE DEF victim
    <3> QED
      BY <1>2, PartVouched
  <2> QED
    BY <1>2, <2>1 DEF EvictToBound
<1> QED
  BY <1>3 DEF Insert, larger

----------------------------------------------------------------------------
(* The invariant.                                                          *)

\* The invariant of the lock and the routes holds at the start.
LEMMA RoutesInitInv == RoutesInit => RoutesInv
<1> SUFFICES ASSUME RoutesInit PROVE RoutesInv
  OBVIOUS
<1>1. Places
  BY DEF RoutesInit, Places, QueryPC
<1>2. LockIsLive /\ MemoTrue
  BY DEF RoutesInit, LockIsLive, MemoTrue
<1>3. VouchedTable(file.table)
  BY EmptyVouched DEF RoutesInit
<1>4. \A l \in Learners : LearnerOK(l)
  BY EmptyVouched DEF RoutesInit, LearnerOK, Working, Learners
<1> QED
  BY <1>1, <1>2, <1>3, <1>4 DEF RoutesInv

\* A step of one learner disturbs what the others know of nothing.
LEMMA LearnerStep ==
  ASSUME RoutesInv, NEW l \in Learners,
         Places', LockIsLive', MemoTrue', VouchedTable(file.table)', LearnerOK(l)',
         \A m \in Learners \ {l} :
           rpc'[m] = rpc[m] /\ held'[m] = held[m] /\ draft'[m] = draft[m],
         \A q \in Queries \ {l} : asked'[q] = asked[q]
  PROVE  RoutesInv'
<1>1. ASSUME NEW m \in Learners \ {l} PROVE LearnerOK(m)'
  BY <1>1 DEF RoutesInv, LearnerOK, VouchedTable
<1> QED
  BY <1>1 DEF RoutesInv

\* A learner that ends knows nothing any more; the lock goes with it.
LEMMA EndsOK ==
  ASSUME RoutesInv, NEW l \in Learners, Ends(l), UNCHANGED current,
         MemoTrue', VouchedTable(file.table)',
         lock' = NoQuery \/ (lock' = lock /\ lock # l)
  PROVE  RoutesInv'
<1>1. Places'
  BY DEF RoutesInv, Places, Ends, QueryPC
<1>2. LockIsLive'
  BY DEF RoutesInv, Places, Ends, LockIsLive
<1>3. LearnerOK(l)'
  BY EmptyVouched DEF RoutesInv, Places, Ends, LearnerOK, Working
<1>4. /\ \A m \in Learners \ {l} :
           rpc'[m] = rpc[m] /\ held'[m] = held[m] /\ draft'[m] = draft[m]
      /\ \A q \in Queries \ {l} : asked'[q] = asked[q]
  BY DEF RoutesInv, Places, Ends
<1> QED
  BY <1>1, <1>2, <1>3, <1>4, LearnerStep

\* A learner that is not about to rename does not hold the lock, so it may go on.
LEMMA OnLockIsLive ==
  ASSUME RoutesInv, NEW l \in Learners, rpc[l] # "rename", NEW to,
         rpc' = [rpc EXCEPT ![l] = to], UNCHANGED lock
  PROVE  LockIsLive'
  BY DEF RoutesInv, Places, LockIsLive

\* What is remembered was looked up.
LEMMA RememberTrue ==
  ASSUME MemoTrue, NEW s, Remember(s) PROVE MemoTrue'
  BY DEF MemoTrue, Remember

\* One case for each action of the cache.
LEMMA RoutesNextInv == RoutesInv /\ [RoutesNext]_routesVars => RoutesInv'
<1> SUFFICES ASSUME RoutesInv, [RoutesNext]_routesVars
             PROVE  RoutesInv'
  OBVIOUS
<1>m. Queries \subseteq Learners /\ Refresher \in Learners /\ Refresher \notin Queries
  BY RoutesAssumption DEF Learners
<1>1. ASSUME NEW q \in Queries, Ask(q) \/ Open(q) PROVE RoutesInv'
  <2>1. PICK to \in {"open", "lookup"} : rpc[q] # "rename" /\ rpc' = [rpc EXCEPT ![q] = to]
    BY <1>1 DEF Ask, Open
  <2>2. UNCHANGED <<file, memo, lock, current, draft>>
    BY <1>1 DEF Ask, Open
  <2>3. LockIsLive' /\ MemoTrue' /\ VouchedTable(file.table)'
    BY <1>m, <2>1, <2>2, OnLockIsLive DEF RoutesInv, MemoTrue, VouchedTable
  <2>4. Places'
    BY <1>1, <1>m, <2>1, <2>2 DEF RoutesInv, Places, Ask, Open, QueryPC
  <2>5. LearnerOK(q)'
    BY <1>1, <1>m DEF RoutesInv, Places, Ask, Open, LearnerOK, Working, VouchedTable
  <2> QED
    BY <1>1, <1>m, <2>2, <2>3, <2>4, <2>5, LearnerStep DEF RoutesInv, Places, Ask, Open
<1>2. ASSUME NEW q \in Queries, Lookup(q) PROVE RoutesInv'
  <2>1. PICK to \in {"identify", "learn"} : rpc[q] # "rename" /\ rpc' = [rpc EXCEPT ![q] = to]
    BY <1>2 DEF Lookup
  <2>2. UNCHANGED <<file, memo, lock, current, held, asked>>
    BY <1>2 DEF Lookup
  <2>3. LockIsLive' /\ MemoTrue' /\ VouchedTable(file.table)'
    BY <1>m, <2>1, <2>2, OnLockIsLive DEF RoutesInv, MemoTrue, VouchedTable
  <2>4. Places'
    BY <1>2, <1>m, <2>1, <2>2 DEF RoutesInv, Places, Lookup, QueryPC
  <2>5. LearnerOK(q)'
    <3>1. CASE Plausible(q)
      <4>1. /\ draft'[q] = [k \in {asked[q]} |-> Load[k]]
            /\ rpc'[q] = "identify"
        BY <1>2, <1>m, <3>1 DEF RoutesInv, Places, Lookup
      <4>2. VouchedTable(draft'[q])
        BY <3>1, <4>1, LoadVouched, PartVouched DEF RoutesInv, Plausible
      <4>3. /\ held[q] \in Snapshots /\ asked[q] \in Keys
        BY <1>2, <1>m DEF RoutesInv, Lookup, LearnerOK, Working
      <4> QED
        BY <2>2, <3>1, <4>1, <4>2, <4>3 DEF LearnerOK, Plausible, Working, VouchedTable
    <3>2. CASE ~Plausible(q)
      <4>1. draft' = draft /\ rpc'[q] = "learn" /\ rpc[q] = "lookup"
        BY <1>2, <1>m, <3>2 DEF RoutesInv, Places, Lookup
      <4>2. VouchedTable(draft[q]) /\ held[q] \in Snapshots /\ asked[q] \in Keys
        BY <1>m, <4>1 DEF RoutesInv, LearnerOK, Working
      <4>3. VouchedTable(draft[q])'
        BY <4>1, <4>2 DEF VouchedTable
      <4> QED
        BY <1>m, <2>2, <4>1, <4>2, <4>3 DEF LearnerOK, Working
    <3> QED
      BY <3>1, <3>2
  <2> QED
    BY <1>2, <1>m, <2>2, <2>3, <2>4, <2>5, LearnerStep DEF RoutesInv, Places, Lookup
<1>3. ASSUME NEW q \in Queries, Identify(q) PROVE RoutesInv'
  <2>1. MemoTrue'
    BY <1>3, RememberTrue DEF RoutesInv, Identify, MemoTrue
  <2>2. rpc[q] # "rename" /\ UNCHANGED <<file, lock, current>> /\ VouchedTable(file.table)'
    BY <1>3 DEF RoutesInv, Identify, VouchedTable
  <2>3. CASE Ends(q)
    BY <1>m, <2>1, <2>2, <2>3, EndsOK DEF RoutesInv, LockIsLive
  <2>4. CASE ~Ends(q)
    <3>1. /\ rpc' = [rpc EXCEPT ![q] = "learn"] /\ draft' = [draft EXCEPT ![q] = EmptyTable]
          /\ UNCHANGED <<held, asked>>
      BY <1>3, <2>4 DEF Identify
    <3>2. LockIsLive'
      BY <1>m, <2>2, <3>1, OnLockIsLive
    <3>3. Places'
      BY <1>m, <2>2, <3>1 DEF RoutesInv, Places, QueryPC
    <3>4. LearnerOK(q)'
      BY <1>3, <1>m, <3>1, EmptyVouched DEF RoutesInv, Places, Identify, LearnerOK, Working
    <3> QED
      BY <1>m, <2>1, <2>2, <3>1, <3>2, <3>3, <3>4, LearnerStep DEF RoutesInv, Places
  <2> QED
    BY <2>3, <2>4
<1>4. ASSUME NEW q \in Queries, Answer(q) PROVE RoutesInv'
  <2>1. MemoTrue'
    BY <1>4, RememberTrue DEF RoutesInv, Answer, MemoTrue
  <2>2. rpc[q] = "learn" /\ UNCHANGED <<file, lock, current>> /\ VouchedTable(file.table)'
    BY <1>4 DEF RoutesInv, Answer, VouchedTable
  <2>3. CASE Rank[held[q]][asked[q]] = NoRoute
    BY <1>4, <1>m, <2>1, <2>2, <2>3, EndsOK DEF RoutesInv, LockIsLive, Answer
  <2>4. CASE Rank[held[q]][asked[q]] # NoRoute
    <3>1. rpc' = [rpc EXCEPT ![q] = "wait"] /\ UNCHANGED <<held, asked, draft>>
      BY <1>4, <2>4 DEF Answer
    <3>2. LockIsLive'
      BY <1>m, <2>2, <3>1, OnLockIsLive
    <3>3. Places'
      BY <1>m, <2>2, <3>1 DEF RoutesInv, Places, QueryPC
    <3>4. LearnerOK(q)'
      <4>1. rpc'[q] = "wait"
        BY <1>m, <3>1 DEF RoutesInv, Places
      <4>2. VouchedTable(draft[q]) /\ held[q] \in Snapshots /\ asked[q] \in Keys
        BY <1>m, <2>2 DEF RoutesInv, LearnerOK, Working
      <4>3. VouchedTable(draft[q])'
        BY <3>1, <4>2 DEF VouchedTable
      <4> QED
        BY <1>m, <2>4, <3>1, <4>1, <4>2, <4>3 DEF LearnerOK, Working
    <3> QED
      BY <1>m, <2>1, <2>2, <3>1, <3>2, <3>3, <3>4, LearnerStep DEF RoutesInv, Places
  <2> QED
    BY <2>3, <2>4
<1>5. ASSUME NEW l \in Learners, TakeLock(l) PROVE RoutesInv'
  <2>1. /\ rpc[l] = "wait" /\ lock' = l /\ rpc' = [rpc EXCEPT ![l] = "rename"]
        /\ draft' = [draft EXCEPT ![l] = Edited(l)]
        /\ UNCHANGED <<file, memo, current, held, asked>>
    BY <1>5 DEF TakeLock
  <2>2. VouchedTable(Edited(l))
    <3>1. VouchedTable(Load)
      BY LoadVouched DEF RoutesInv
    <3>2. CASE l = Refresher
      BY <3>1, <3>2, PartVouched DEF Edited, Live
    <3>3. CASE l # Refresher
      <4>1. l \in Queries /\ LearnerOK(l)
        BY <3>3 DEF Learners, RoutesInv
      <4>2. held[l] \in Snapshots /\ asked[l] \in Keys /\ Rank[held[l]][asked[l]] # NoRoute
        BY <2>1, <4>1 DEF LearnerOK, Working
      <4> QED
        BY <3>1, <3>3, <4>2, InsertVouched DEF Edited
    <3> QED
      BY <3>2, <3>3
  <2>3. MemoTrue' /\ VouchedTable(file.table)'
    BY <2>1 DEF RoutesInv, MemoTrue, VouchedTable
  <2>4. Places' /\ LockIsLive'
    BY <2>1 DEF RoutesInv, Places, QueryPC, LockIsLive
  <2>5. LearnerOK(l)'
    <3>1. draft'[l] = Edited(l) /\ rpc'[l] = "rename"
      BY <2>1 DEF RoutesInv, Places
    <3>2. VouchedTable(draft'[l])
      BY <2>2, <3>1
    <3> QED
      BY <2>1, <3>1, <3>2 DEF RoutesInv, LearnerOK, Working, VouchedTable
  <2> QED
    BY <2>1, <2>3, <2>4, <2>5, LearnerStep DEF RoutesInv, Places
<1>6. ASSUME NEW l \in Learners, Rename(l) \/ Unwritten(l) \/ Perish(l) PROVE RoutesInv'
  <2>1. Ends(l) /\ UNCHANGED <<memo, current>>
    BY <1>6 DEF Rename, Unwritten, Perish
  <2>2. lock' = NoQuery \/ (lock' = lock /\ lock # l)
    BY <1>6 DEF Rename, Unwritten, Perish, LockAfter
  <2>3. VouchedTable(file.table)'
    <3>1. CASE Rename(l)
      <4>1. file'.table = draft[l] /\ VouchedTable(draft[l])
        BY <3>1 DEF Rename, RoutesInv, LearnerOK
      <4> QED
        BY <4>1 DEF VouchedTable
    <3>2. CASE Unwritten(l) \/ Perish(l)
      BY <3>2 DEF Unwritten, Perish, RoutesInv, VouchedTable
    <3> QED
      BY <1>6, <3>1, <3>2
  <2> QED
    BY <2>1, <2>2, <2>3, EndsOK DEF RoutesInv, MemoTrue
<1>7. CASE PublishSnapshot \/ RememberPublished
  <2>1. PICK to \in {"learn", "wait"} :
          rpc[Refresher] # "rename" /\ rpc' = [rpc EXCEPT ![Refresher] = to]
    BY <1>7 DEF PublishSnapshot, RememberPublished
  <2>2. UNCHANGED <<file, lock, asked, draft>>
    BY <1>7 DEF PublishSnapshot, RememberPublished
  <2>3. MemoTrue' /\ VouchedTable(file.table)'
    BY <1>7, <2>2, RememberTrue
    DEF PublishSnapshot, RememberPublished, RoutesInv, MemoTrue, VouchedTable
  <2>4. LockIsLive'
    BY <1>m, <2>1, <2>2, OnLockIsLive
  <2>5. Places'
    BY <1>7, <1>m, <2>1, <2>2
    DEF PublishSnapshot, RememberPublished, RoutesInv, Places, QueryPC
  <2>6. LearnerOK(Refresher)'
    BY <1>7, <1>m, <2>2
    DEF PublishSnapshot, RememberPublished, RoutesInv, Places, LearnerOK, Working, VouchedTable
  <2> QED
    BY <1>7, <1>m, <2>2, <2>3, <2>4, <2>5, <2>6, LearnerStep
    DEF PublishSnapshot, RememberPublished, RoutesInv, Places
<1>8. CASE Spoil
  <2>1. file'.table = EmptyTable /\ UNCHANGED <<memo, lock, current, rpc, held, asked, draft>>
    BY <1>8 DEF Spoil
  <2>2. VouchedTable(file.table)'
    BY <2>1, EmptyVouched DEF VouchedTable
  <2> QED
    BY <2>1, <2>2 DEF RoutesInv, Places, LockIsLive, MemoTrue, LearnerOK, VouchedTable
<1>9. CASE UNCHANGED routesVars
  BY <1>9 DEF routesVars, RoutesInv, Places, LockIsLive, MemoTrue, LearnerOK, VouchedTable
<1> QED
  BY <1>1, <1>2, <1>3, <1>4, <1>5, <1>6, <1>7, <1>8, <1>9 DEF RoutesNext

\* Nobody waits for a lock whose holder is not about to rename, whoever died
\* (routes.rs, update_routes), for any number of queries.
THEOREM LockStaysLive == RoutesSpec => []LockIsLive
<1>1. RoutesInv => LockIsLive
  BY DEF RoutesInv
<1> QED
  BY <1>1, RoutesInitInv, RoutesNextInv, PTL DEF RoutesSpec

\* An answer from the file is what the ranker said of this question in a snapshot
\* with the same public API, and it points at something that is there (query.rs,
\* route_lookup), whatever was published, learned, evicted or damaged meanwhile.
THEOREM RepliesStayVouched == RoutesSpec => []RepliesVouched
<1>1. RoutesInv => RepliesVouched
  <2> SUFFICES ASSUME RoutesInv, NEW q \in Queries, Serves(q)
               PROVE  LET served == draft[q][asked[q]] IN
                        /\ served.anchor \in Resolves[held[q]]
                        /\ \E s \in Snapshots :
                             /\ Api[s] = Api[held[q]]
                             /\ Rank[s][asked[q]] = [anchor |-> served.anchor, belief |-> served.belief]
    BY DEF RepliesVouched
  <2>1. rpc[q] = "identify" /\ KnownIdentity(held[q]) = draft[q][asked[q]].api
    BY DEF Serves
  <2>2. KnownIdentity(held[q]) = Api[held[q]]
    BY DEF RoutesInv, MemoTrue, KnownIdentity
  <2>3. LearnerOK(q)
    BY DEF RoutesInv, Learners
  <2>4. /\ asked[q] \in DOMAIN draft[q] /\ draft[q][asked[q]].anchor \in Resolves[held[q]]
        /\ VouchedTable(draft[q])
    BY <2>1, <2>3 DEF LearnerOK
  <2> QED
    BY <2>1, <2>2, <2>4, ZenonT(40) DEF VouchedTable
<1> QED
  BY <1>1, RoutesInitInv, RoutesNextInv, PTL DEF RoutesSpec

----------------------------------------------------------------------------
(* The cap, and what is lost to it.                                        *)

\* A table that a file may hold.
FitsCap(t) == t \in Tables /\ Cardinality(DOMAIN t) <= MaxRoutes

\* Whoever renames has the lock, and the file is the one it edited unless someone
\* else damaged it.
DraftIsCurrent(l) ==
  rpc[l] = "rename" =>
    /\ lock = l /\ FitsCap(draft[l])
    /\ file.state = "good" => draft[l] = Edited(l)

FitInv ==
  /\ file \in [state : {"unusable", "good"}, table : Tables] /\ FitsCap(file.table)
  /\ memo \in MemoEntries \cup {NoRoute}
  /\ lock \in Learners \cup {NoQuery}
  /\ draft \in [Learners -> Tables]
  /\ \A l \in Learners : DraftIsCurrent(l)

\* What every table is.
LEMMA TableFacts ==
  ASSUME NEW t \in Tables
  PROVE  /\ t \in [DOMAIN t -> Records] /\ DOMAIN t \in SUBSET Keys
         /\ IsFiniteSet(DOMAIN t) /\ Cardinality(DOMAIN t) \in Nat
<1>1. t \in [DOMAIN t -> Records] /\ DOMAIN t \in SUBSET Keys
  BY DEF Tables
<1> QED
  BY <1>1, RoutesAssumption, FS_Subset, FS_CardinalityType

\* An empty table is within the cap.
LEMMA EmptyFits == FitsCap(EmptyTable)
<1>1. DOMAIN EmptyTable = {} /\ EmptyTable \in [{} -> Records]
  BY DEF EmptyTable
<1>2. EmptyTable \in Tables
  BY <1>1 DEF Tables
<1> QED
  BY <1>1, <1>2, FS_EmptySet, RoutesAssumption DEF FitsCap

\* A part of a table is a table, and no larger.
LEMMA PartFits ==
  ASSUME NEW t \in Tables, NEW D \in SUBSET (DOMAIN t)
  PROVE  /\ [k \in D |-> t[k]] \in Tables
         /\ Cardinality(D) \in Nat /\ Cardinality(D) <= Cardinality(DOMAIN t)
<1>1. [k \in D |-> t[k]] \in [D -> Records] /\ D \in SUBSET Keys
  BY TableFacts
<1>2. IsFiniteSet(DOMAIN t)
  BY TableFacts
<1>3. IsFiniteSet(D) /\ Cardinality(D) <= Cardinality(DOMAIN t)
  BY <1>2, FS_Subset
<1> QED
  BY <1>1, <1>3, FS_CardinalityType DEF Tables

\* Of a table that is not empty, some record is worth least.
LEMMA SomeVictim ==
  ASSUME NEW t \in Tables, DOMAIN t # {}
  PROVE  \E k \in DOMAIN t : \A j \in DOMAIN t : LessWorth(t, k, j)
<1> DEFINE R == {p \in (DOMAIN t) \X (DOMAIN t) : LessWorth(t, p[1], p[2])}
<1>1. \A k \in DOMAIN t : t[k].belief \in Nat /\ KeyOrder[k] \in Nat
  BY TableFacts, RoutesAssumption DEF Records
<1>2. \A j, k \in DOMAIN t : <<j, k>> \in R <=> LessWorth(t, j, k)
  OBVIOUS
<1>3. \A j, k \in DOMAIN t : LessWorth(t, j, k) \/ LessWorth(t, k, j)
  BY <1>1 DEF LessWorth
<1>4. \A i, j, k \in DOMAIN t : LessWorth(t, i, j) /\ LessWorth(t, j, k) => LessWorth(t, i, k)
  BY <1>1 DEF LessWorth
<1>5. R \in SUBSET ((DOMAIN t) \X (DOMAIN t))
  OBVIOUS
<1>6. \E k \in DOMAIN t : \A j \in DOMAIN t : <<k, j>> \in R
  <2>1. /\ \A j, k \in DOMAIN t : <<j, k>> \in R \/ <<k, j>> \in R
        /\ \A i, j, k \in DOMAIN t : <<i, j>> \in R /\ <<j, k>> \in R => <<i, k>> \in R
    BY <1>2, <1>3, <1>4
  <2> HIDE DEF R
  <2> QED
    BY <1>5, <2>1, TableFacts, LeastElement
<1> QED
  BY <1>2, <1>6

\* Inserting keeps the cap; only a full table loses a record, the least believed.
LEMMA InsertFits ==
  ASSUME NEW t, FitsCap(t), NEW key \in Keys, NEW record \in Records
  PROVE  /\ FitsCap(Insert(t, key, record))
         /\ \A k \in DOMAIN t \ DOMAIN Insert(t, key, record) :
              /\ Cardinality(DOMAIN t) = MaxRoutes
              /\ \A j \in DOMAIN Insert(t, key, record) :
                   Insert(t, key, record)[j].belief >= t[k].belief
<1> DEFINE larger == [k \in DOMAIN t \cup {key} |-> IF k = key THEN record ELSE t[k]]
           result == EvictToBound(larger, key)
<1>1. /\ t \in [DOMAIN t -> Records] /\ DOMAIN t \in SUBSET Keys
      /\ IsFiniteSet(DOMAIN t) /\ Cardinality(DOMAIN t) \in Nat
      /\ Cardinality(DOMAIN t) <= MaxRoutes /\ MaxRoutes \in Nat
  BY TableFacts, RoutesAssumption DEF FitsCap
<1>2. larger \in [DOMAIN t \cup {key} -> Records] /\ DOMAIN larger = DOMAIN t \cup {key}
  BY <1>1
<1>3. /\ \A k \in DOMAIN t : k # key => larger[k] = t[k]
      /\ Insert(t, key, record) = result
  BY DEF Insert
<1>4. /\ Cardinality(DOMAIN larger) \in Nat /\ IsFiniteSet(DOMAIN larger)
      /\ key \in DOMAIN t => Cardinality(DOMAIN larger) = Cardinality(DOMAIN t)
      /\ key \notin DOMAIN t => Cardinality(DOMAIN larger) = Cardinality(DOMAIN t) + 1
  <2>1. CASE key \in DOMAIN t
    <3>1. DOMAIN t \cup {key} = DOMAIN t
      BY <2>1
    <3> QED
      BY <1>1, <1>2, <2>1, <3>1
  <2>2. CASE key \notin DOMAIN t
    BY <1>1, <1>2, <2>2, FS_AddElement, FS_CardinalityType
  <2> QED
    BY <2>1, <2>2
<1>5. larger \in Tables
  BY <1>1, <1>2 DEF Tables
<1> HIDE DEF larger
<1>6. CASE Cardinality(DOMAIN larger) <= MaxRoutes
  <2>1. result = larger
    BY <1>6 DEF EvictToBound
  <2> QED
    BY <1>2, <1>3, <1>5, <1>6, <2>1 DEF FitsCap
<1>7. CASE ~(Cardinality(DOMAIN larger) <= MaxRoutes)
  <2> DEFINE Least(k) == k \in DOMAIN larger /\ \A j \in DOMAIN larger : LessWorth(larger, k, j)
             victim == CHOOSE k \in DOMAIN larger : \A j \in DOMAIN larger : LessWorth(larger, k, j)
  <2>1. key \notin DOMAIN t /\ Cardinality(DOMAIN t) = MaxRoutes
        /\ Cardinality(DOMAIN larger) = MaxRoutes + 1
    BY <1>1, <1>4, <1>7
  <2>2. victim \in DOMAIN larger /\ \A j \in DOMAIN larger : LessWorth(larger, victim, j)
    <3>1. \E k \in DOMAIN larger : \A j \in DOMAIN larger : LessWorth(larger, k, j)
      BY <1>2, <1>5, SomeVictim
    <3> QED
      BY <3>1
  <2>3. result = [k \in (DOMAIN larger) \ {victim} |-> larger[k]]
    BY <1>7 DEF EvictToBound
  <2> HIDE DEF victim
  <2>4. Cardinality((DOMAIN larger) \ {victim}) = MaxRoutes
    <3>1. Cardinality((DOMAIN larger) \ {victim}) = Cardinality(DOMAIN larger) - 1
      BY <1>4, <2>2, FS_RemoveElement
    <3> QED
      BY <1>1, <2>1, <3>1
  <2>5. result \in Tables /\ DOMAIN result = (DOMAIN larger) \ {victim}
    BY <1>5, <2>3, PartFits
  <2> HIDE DEF result
  <2>6. FitsCap(result)
    BY <1>1, <2>4, <2>5 DEF FitsCap
  <2>7. ASSUME NEW k \in DOMAIN t \ DOMAIN result, NEW j \in DOMAIN result
        PROVE  result[j].belief >= t[k].belief
    <3>1. k = victim /\ larger[k] = t[k] /\ result[j] = larger[j] /\ j \in DOMAIN larger
      BY <1>2, <1>3, <2>1, <2>3, <2>5
    <3>2. LessWorth(larger, k, j)
      BY <2>2, <3>1
    <3>3. larger[j].belief \in Nat /\ larger[k].belief \in Nat
      BY <1>2, <2>2, <3>1, RoutesAssumption DEF Records
    <3> QED
      BY <3>1, <3>2, <3>3 DEF LessWorth
  <2> QED
    BY <1>3, <2>1, <2>6, <2>7
<1> QED
  BY <1>6, <1>7

\* What a load returns is within the cap.
LEMMA LoadFits ==
  ASSUME FitInv PROVE FitsCap(Load)
  BY EmptyFits DEF FitInv, Load

\* What a learner that takes the lock wants to write fits.
LEMMA EditedFits ==
  ASSUME RoutesInv, FitInv, NEW l \in Learners, rpc[l] \in {"wait", "rename"}
  PROVE  FitsCap(Edited(l))
<1>1. FitsCap(Load) /\ MaxRoutes \in Nat /\ Cardinality(DOMAIN Load) \in Nat
  BY LoadFits, TableFacts, RoutesAssumption DEF FitsCap
<1>2. CASE l = Refresher
  <2> DEFINE D == {k \in DOMAIN Load : Load[k].api = Api[held[l]] /\ Load[k].anchor \in Resolves[held[l]]}
  <2>1. D \in SUBSET (DOMAIN Load) /\ Edited(l) = [k \in D |-> Load[k]]
    BY <1>2 DEF Edited, Live
  <2> HIDE DEF D
  <2>2. Edited(l) \in Tables /\ Cardinality(D) \in Nat /\ Cardinality(D) <= Cardinality(DOMAIN Load)
    BY <1>1, <2>1, PartFits DEF FitsCap
  <2>3. DOMAIN Edited(l) = D
    BY <2>1
  <2> QED
    BY <1>1, <2>2, <2>3 DEF FitsCap
<1>3. CASE l # Refresher
  <2> DEFINE answer == Rank[held[l]][asked[l]]
             record == [anchor |-> answer.anchor, api |-> Api[held[l]], belief |-> answer.belief]
  <2>1. held[l] \in Snapshots /\ asked[l] \in Keys /\ answer # NoRoute
    BY <1>3 DEF RoutesInv, LearnerOK, Learners, Working
  <2>2. answer \in [anchor : Anchors, belief : Beliefs]
    BY <2>1, RoutesAssumption DEF Answers
  <2>3. record \in Records
    BY <2>1, <2>2 DEF Records, Identities
  <2>4. Edited(l) = Insert(Load, asked[l], record)
    BY <1>3 DEF Edited
  <2> HIDE DEF record
  <2> QED
    BY <1>1, <2>1, <2>3, <2>4, InsertFits
<1> QED
  BY <1>2, <1>3

\* A step that leaves the file, and takes no one's work but l's.
LEMMA FitStep ==
  ASSUME RoutesInv, FitInv, NEW l \in Learners,
         UNCHANGED file, memo' \in MemoEntries \cup {NoRoute},
         lock' \in Learners \cup {NoQuery}, draft' \in [Learners -> Tables],
         DraftIsCurrent(l)',
         \A m \in Learners \ {l} :
           /\ rpc'[m] = rpc[m] /\ held'[m] = held[m] /\ draft'[m] = draft[m]
           /\ m \in Queries => asked'[m] = asked[m]
           /\ rpc[m] = "rename" => lock' = lock
  PROVE  FitInv'
<1>1. ASSUME NEW m \in Learners \ {l} PROVE DraftIsCurrent(m)'
  <2>1. SUFFICES ASSUME rpc[m] = "rename"
                 PROVE  DraftIsCurrent(m)'
    BY DEF DraftIsCurrent
  <2>2. lock' = m /\ FitsCap(draft[m]) /\ (file.state = "good" => draft[m] = Edited(m))
    BY <2>1 DEF FitInv, DraftIsCurrent
  <2>3. draft'[m] = draft[m] /\ Edited(m)' = Edited(m)
    BY DEF Edited, Load, Learners
  <2> QED
    BY <2>2, <2>3 DEF DraftIsCurrent, FitsCap
<1> QED
  BY <1>1 DEF FitInv, FitsCap

\* A learner ends: what it had in hand is forgotten.
LEMMA EndsFits ==
  ASSUME RoutesInv, FitInv, NEW l \in Learners, Ends(l), UNCHANGED file,
         memo' \in MemoEntries \cup {NoRoute},
         lock' = lock \/ (lock' = NoQuery /\ lock = l)
  PROVE  FitInv'
<1>1. /\ rpc'[l] = "idle" /\ draft'[l] = EmptyTable /\ draft' \in [Learners -> Tables]
      /\ \A m \in Learners \ {l} :
           rpc'[m] = rpc[m] /\ held'[m] = held[m] /\ draft'[m] = draft[m]
      /\ \A q \in Queries \ {l} : asked'[q] = asked[q]
  BY EmptyFits DEF RoutesInv, Places, Ends, FitInv, FitsCap
<1>2. DraftIsCurrent(l)'
  BY <1>1 DEF DraftIsCurrent
<1>3. ASSUME NEW m \in Learners \ {l}, rpc[m] = "rename" PROVE lock' = lock
  BY <1>3 DEF FitInv, DraftIsCurrent
<1>4. lock' \in Learners \cup {NoQuery}
  BY DEF FitInv
<1> QED
  BY <1>1, <1>2, <1>3, <1>4, FitStep

\* What is remembered is a route or none.
LEMMA RememberTyped ==
  ASSUME FitInv, NEW s \in Snapshots, Remember(s)
  PROVE  memo' \in MemoEntries \cup {NoRoute}
  BY DEF FitInv, Remember, MemoEntries, Identities

\* The invariant of the cap and of the drafts holds at the start.
LEMMA RoutesInitFit == RoutesInit => FitInv
<1> SUFFICES ASSUME RoutesInit PROVE FitInv
  OBVIOUS
<1>1. file \in [state : {"unusable", "good"}, table : Tables] /\ FitsCap(file.table)
  BY EmptyFits DEF RoutesInit, FitsCap
<1>2. draft \in [Learners -> Tables] /\ \A l \in Learners : DraftIsCurrent(l)
  BY EmptyFits DEF RoutesInit, FitsCap, DraftIsCurrent
<1> QED
  BY <1>1, <1>2 DEF RoutesInit, FitInv

\* One case for each action of the cache.
LEMMA RoutesNextFit ==
  RoutesInv /\ FitInv /\ [RoutesNext]_routesVars => FitInv'
<1> SUFFICES ASSUME RoutesInv, FitInv, [RoutesNext]_routesVars
             PROVE  FitInv'
  OBVIOUS
<1>m. Queries \subseteq Learners /\ Refresher \in Learners /\ Refresher \notin Queries
  BY RoutesAssumption DEF Learners
<1>e. EmptyTable \in Tables
  BY EmptyFits DEF FitsCap
<1>1. ASSUME NEW l \in Learners, NEW to \in QueryPC \ {"rename"}, NEW t \in Tables,
             rpc' = [rpc EXCEPT ![l] = to],
             draft' = draft \/ draft' = [draft EXCEPT ![l] = t],
             UNCHANGED <<file, lock>>, memo' \in MemoEntries \cup {NoRoute},
             \A m \in Learners \ {l} : held'[m] = held[m],
             \A q \in Queries \ {l} : asked'[q] = asked[q]
      PROVE  FitInv'
  <2>1. rpc'[l] # "rename" /\ \A m \in Learners \ {l} : rpc'[m] = rpc[m] /\ draft'[m] = draft[m]
    BY <1>1 DEF RoutesInv, Places, FitInv
  <2>2. draft' \in [Learners -> Tables] /\ lock' \in Learners \cup {NoQuery}
    BY <1>1 DEF FitInv
  <2>3. DraftIsCurrent(l)'
    BY <2>1 DEF DraftIsCurrent
  <2> QED
    BY <1>1, <2>1, <2>2, <2>3, FitStep
<1>2. ASSUME NEW q \in Queries, Ask(q) \/ Open(q) PROVE FitInv'
  <2>1. PICK to \in QueryPC \ {"rename"} : rpc' = [rpc EXCEPT ![q] = to]
    BY <1>2 DEF Ask, Open, QueryPC
  <2>2. memo' \in MemoEntries \cup {NoRoute}
    BY <1>2 DEF Ask, Open, FitInv
  <2> QED
    BY <1>1, <1>2, <1>m, <1>e, <2>1, <2>2, ZenonT(40) DEF Ask, Open, RoutesInv, Places
<1>3. ASSUME NEW q \in Queries, Lookup(q) PROVE FitInv'
  <2>1. UNCHANGED <<file, memo, lock, held, asked>> /\ memo' \in MemoEntries \cup {NoRoute}
    BY <1>3 DEF Lookup, FitInv
  <2>2. CASE Plausible(q)
    <3> DEFINE one == [k \in {asked[q]} |-> Load[k]]
    <3>1. one \in Tables
      BY <2>2, LoadFits, PartFits DEF Plausible, FitsCap
    <3>2. draft' = [draft EXCEPT ![q] = one] /\ rpc' = [rpc EXCEPT ![q] = "identify"]
      BY <1>3, <2>2 DEF Lookup
    <3> HIDE DEF one
    <3> QED
      BY <1>1, <1>m, <2>1, <3>1, <3>2 DEF QueryPC
  <2>3. CASE ~Plausible(q)
    BY <1>1, <1>3, <1>m, <1>e, <2>1, <2>3 DEF Lookup, QueryPC
  <2> QED
    BY <2>2, <2>3
<1>4. ASSUME NEW q \in Queries, Identify(q) PROVE FitInv'
  <2>1. held[q] \in Snapshots
    BY <1>4, <1>m DEF RoutesInv, LearnerOK, Working, Identify
  <2>2. memo' \in MemoEntries \cup {NoRoute} /\ UNCHANGED <<file, lock>>
    BY <1>4, <2>1, RememberTyped DEF Identify, FitInv
  <2>3. CASE Ends(q)
    BY <1>m, <2>2, <2>3, EndsFits
  <2>4. CASE ~Ends(q)
    BY <1>1, <1>4, <1>m, <1>e, <2>2, <2>4 DEF Identify, QueryPC
  <2> QED
    BY <2>3, <2>4
<1>5. ASSUME NEW q \in Queries, Answer(q) PROVE FitInv'
  <2>1. held[q] \in Snapshots
    BY <1>5, <1>m DEF RoutesInv, LearnerOK, Working, Answer
  <2>2. memo' \in MemoEntries \cup {NoRoute} /\ UNCHANGED <<file, lock>>
    BY <1>5, <2>1, RememberTyped DEF Answer, FitInv
  <2>3. CASE Ends(q)
    BY <1>m, <2>2, <2>3, EndsFits
  <2>4. CASE ~Ends(q)
    BY <1>1, <1>5, <1>m, <1>e, <2>2, <2>4 DEF Answer, QueryPC
  <2> QED
    BY <2>3, <2>4
<1>6. ASSUME NEW l \in Learners, TakeLock(l) PROVE FitInv'
  <2>1. FitsCap(Edited(l))
    BY <1>6, EditedFits DEF TakeLock
  <2>2. /\ UNCHANGED <<file, memo, held, asked>> /\ lock = NoQuery /\ lock' = l
        /\ draft' \in [Learners -> Tables] /\ draft'[l] = Edited(l) /\ rpc'[l] = "rename"
        /\ \A m \in Learners \ {l} : rpc'[m] = rpc[m] /\ draft'[m] = draft[m]
    BY <1>6, <2>1 DEF TakeLock, LockFree, RoutesInv, Places, FitInv, FitsCap
  <2>3. Edited(l)' = Edited(l)
    BY <2>2 DEF Edited, Load
  <2>4. DraftIsCurrent(l)'
    BY <2>1, <2>2, <2>3 DEF DraftIsCurrent, FitsCap
  <2>5. \A m \in Learners : rpc[m] # "rename"
    BY <2>2, RoutesAssumption DEF FitInv, DraftIsCurrent
  <2>6. memo' \in MemoEntries \cup {NoRoute}
    BY <2>2 DEF FitInv
  <2> QED
    BY <2>2, <2>4, <2>5, <2>6, FitStep
<1>7. ASSUME NEW l \in Learners, Rename(l) PROVE FitInv'
  <2>1. lock = l /\ FitsCap(draft[l])
    BY <1>7 DEF Rename, FitInv, DraftIsCurrent
  <2>2. /\ file' = [state |-> "good", table |-> draft[l]] /\ Ends(l) /\ memo' = memo
        /\ lock' = NoQuery
    BY <1>7 DEF Rename
  <2>3. /\ file' \in [state : {"unusable", "good"}, table : Tables]
        /\ FitsCap(file.table)'
    BY <2>1, <2>2 DEF FitsCap
  <2>4. ASSUME NEW m \in Learners PROVE rpc'[m] # "rename"
    BY <2>1, <2>2 DEF Ends, RoutesInv, Places, FitInv, DraftIsCurrent
  <2>5. draft' \in [Learners -> Tables]
    BY <1>e, <2>2 DEF Ends, FitInv
  <2> QED
    BY <2>2, <2>3, <2>4, <2>5 DEF FitInv, DraftIsCurrent
<1>8. ASSUME NEW l \in Learners, Unwritten(l) \/ Perish(l) PROVE FitInv'
  <2>1. Ends(l) /\ UNCHANGED <<file, memo>> /\ memo' \in MemoEntries \cup {NoRoute}
    BY <1>8 DEF Unwritten, Perish, FitInv
  <2>2. lock' = lock \/ (lock' = NoQuery /\ lock = l)
    BY <1>8 DEF Unwritten, Perish, LockAfter, FitInv, DraftIsCurrent
  <2> QED
    BY <2>1, <2>2, EndsFits
<1>9. CASE PublishSnapshot \/ RememberPublished
  <2>1. PICK to \in {"learn", "wait"} : rpc' = [rpc EXCEPT ![Refresher] = to]
    BY <1>9 DEF PublishSnapshot, RememberPublished
  <2>2. RememberPublished => held[Refresher] \in Snapshots
    BY <1>m DEF RememberPublished, RoutesInv, LearnerOK, Working
  <2>3. memo' \in MemoEntries \cup {NoRoute}
    BY <1>9, <2>2, RememberTyped DEF PublishSnapshot, RememberPublished, FitInv
  <2> QED
    BY <1>1, <1>9, <1>m, <1>e, <2>1, <2>3
    DEF PublishSnapshot, RememberPublished, RoutesInv, Places, QueryPC
<1>10. CASE Spoil
  <2>1. /\ file' = [state |-> "unusable", table |-> EmptyTable]
        /\ UNCHANGED <<memo, lock, rpc, held, asked, draft>>
    BY <1>10 DEF Spoil
  <2>2. file' \in [state : {"unusable", "good"}, table : Tables] /\ FitsCap(file.table)'
    BY <1>e, <2>1, EmptyFits DEF FitsCap
  <2>3. ASSUME NEW l \in Learners PROVE DraftIsCurrent(l)'
    BY <2>1 DEF FitInv, DraftIsCurrent, FitsCap
  <2> QED
    BY <2>1, <2>2, <2>3 DEF FitInv
<1>11. CASE UNCHANGED routesVars
  BY <1>11 DEF routesVars, FitInv, FitsCap, DraftIsCurrent, Edited, Load
<1> QED
  BY <1>2, <1>3, <1>4, <1>5, <1>6, <1>7, <1>8, <1>9, <1>10, <1>11 DEF RoutesNext

\* Both invariants hold in every state.
LEMMA RoutesInductive == RoutesSpec => [](RoutesInv /\ FitInv)
  BY RoutesInitInv, RoutesNextInv, RoutesInitFit, RoutesNextFit, PTL DEF RoutesSpec

\* Every variable keeps its type, and no table on disk outgrows MAX_ROUTES,
\* whoever learns, refreshes, dies or damages it (routes.rs, evict_to_bound).
THEOREM RoutesTyped == RoutesSpec => []RoutesTypeOK
<1>1. RoutesInv /\ FitInv => RoutesTypeOK
  BY DEF RoutesInv, Places, FitInv, FitsCap, RoutesTypeOK
<1> QED
  BY <1>1, RoutesInductive, PTL

\* What a rename takes out of the file was not true of the snapshot the refresh
\* published, or the least believed of a full table.
LEMMA RenameKeeps ==
  ASSUME RoutesInv, FitInv, NEW l \in Learners, Rename(l),
         NEW k \in DOMAIN Load \ DOMAIN Load'
  PROVE  \/ rpc[Refresher] = "rename" /\ k \notin DOMAIN Live(Load, held[Refresher])
         \/ /\ Cardinality(DOMAIN Load) = MaxRoutes
            /\ \A j \in DOMAIN Load' : Load'[j].belief >= Load[k].belief
<1>1. file.state = "good"
  BY DEF Load, EmptyTable
<1>2. rpc[l] = "rename" /\ draft[l] = Edited(l) /\ Load' = Edited(l)
  BY <1>1 DEF Rename, FitInv, DraftIsCurrent, Load
<1>3. CASE l = Refresher
  BY <1>2, <1>3 DEF Edited
<1>4. CASE l # Refresher
  <2> DEFINE answer == Rank[held[l]][asked[l]]
             record == [anchor |-> answer.anchor, api |-> Api[held[l]], belief |-> answer.belief]
  <2>1. held[l] \in Snapshots /\ asked[l] \in Keys /\ answer # NoRoute
    BY <1>2, <1>4 DEF RoutesInv, LearnerOK, Learners, Working
  <2>2. answer \in [anchor : Anchors, belief : Beliefs]
    BY <2>1, RoutesAssumption DEF Answers
  <2>3. record \in Records
    BY <2>1, <2>2 DEF Records, Identities
  <2>4. Edited(l) = Insert(Load, asked[l], record)
    BY <1>4 DEF Edited
  <2> HIDE DEF record
  <2> QED
    BY <1>2, <2>1, <2>3, <2>4, LoadFits, InsertFits
<1> QED
  BY <1>3, <1>4

\* No learned route is lost to another writer (routes.rs, update_routes): between
\* the lock and the rename nobody else writes the file.
THEOREM NoRouteIsLost == RoutesSpec => RoutesKept
<1>1. ASSUME RoutesInv, FitInv, [RoutesNext]_routesVars, NEW k \in DOMAIN Load \ DOMAIN Load'
      PROVE  \/ file'.state # "good"
             \/ rpc[Refresher] = "rename" /\ k \notin DOMAIN Live(Load, held[Refresher])
             \/ /\ Cardinality(DOMAIN Load) = MaxRoutes
                /\ \A j \in DOMAIN Load' : Load'[j].belief >= Load[k].belief
  <2>1. file' # file
    BY <1>1 DEF Load
  <2>2. Spoil \/ \E l \in Learners : Rename(l)
    BY <1>1, <2>1
    DEF RoutesNext, Ask, Open, Lookup, Identify, Answer, TakeLock, Unwritten, Perish,
        PublishSnapshot, RememberPublished, routesVars
  <2>3. CASE Spoil
    BY <2>3 DEF Spoil
  <2> QED
    BY <1>1, <2>2, <2>3, RenameKeeps
<1>2. RoutesInv /\ FitInv /\ [RoutesNext]_routesVars =>
        [\A k \in DOMAIN Load \ DOMAIN Load' :
           \/ file'.state # "good"
           \/ rpc[Refresher] = "rename" /\ k \notin DOMAIN Live(Load, held[Refresher])
           \/ /\ Cardinality(DOMAIN Load) = MaxRoutes
              /\ \A j \in DOMAIN Load' : Load'[j].belief >= Load[k].belief]_routesVars
  BY <1>1
<1> QED
  BY <1>2, RoutesInductive, PTL DEF RoutesSpec, RoutesKept
=============================================================================
