------------------------------ MODULE Discovery ------------------------------
(***************************************************************************)
(* walk.rs, discover: walker threads visit the tree, send what they        *)
(* collect over a channel and count it against max_files; a thread that    *)
(* sees the limit reached stops the whole walk.  The counter is read and   *)
(* raised without a lock, and a stop reaches the other threads late.       *)
(***************************************************************************)
EXTENDS Naturals, FiniteSets

CONSTANTS
  Walkers,     \* threads of the walk
  Files,       \* the collectable files of the tree, numbered in path order
  MaxFiles,    \* WalkCfg.max_files
  NoFile

ASSUME DiscoveryAssumption ==
  /\ IsFiniteSet(Files) /\ Files \subseteq Nat
  /\ IsFiniteSet(Walkers) /\ Walkers # {}
  /\ MaxFiles \in Nat /\ NoFile \notin Files

VARIABLES
  unvisited,   \* files no thread has taken
  taken,       \* taken[t]: the file t visits
  sent,        \* the channel
  counted,     \* collected_count
  quitting     \* the threads that know that the walk stops

walkVars == <<unvisited, taken, sent, counted, quitting>>

WalkInit ==
  /\ unvisited = Files /\ taken = [t \in Walkers |-> NoFile]
  /\ sent = {} /\ counted = 0 /\ quitting = {}

\* VisitorCollector::visit: the first look at the counter.
Visit(t) ==
  /\ t \notin quitting /\ taken[t] = NoFile
  /\ \E f \in unvisited :
       /\ unvisited' = unvisited \ {f}
       /\ IF counted >= MaxFiles
          THEN quitting' = quitting \cup {t} /\ UNCHANGED taken
          ELSE taken' = [taken EXCEPT ![t] = f] /\ UNCHANGED quitting
  /\ UNCHANGED <<sent, counted>>

\* Mutation: the count is one behind.
LastOneEarly(n) == n + 1 >= MaxFiles
\* fetch_add(1) + 1 >= max.
LastOne(n) == n >= MaxFiles

\* The file is sent, then counted.
Send(t) ==
  /\ taken[t] # NoFile
  /\ sent' = sent \cup {taken[t]}
  /\ counted' = counted + 1
  /\ taken' = [taken EXCEPT ![t] = NoFile]
  /\ quitting' = IF LastOne(counted') THEN quitting \cup {t} ELSE quitting
  /\ UNCHANGED unvisited

\* The walker library tells the others (external).
Spread(t) ==
  /\ quitting # {} /\ t \notin quitting /\ taken[t] = NoFile
  /\ quitting' = quitting \cup {t}
  /\ UNCHANGED <<unvisited, taken, sent, counted>>

WalkNext == \E t \in Walkers : Visit(t) \/ Send(t) \/ Spread(t)
WalkSpec == WalkInit /\ [][WalkNext]_walkVars

----------------------------------------------------------------------------
WalkOver ==
  \A t \in Walkers : taken[t] = NoFile /\ (t \in quitting \/ unvisited = {})

\* The files discover returns: sorted, and truncated to the limit.
Discovered == {f \in sent : Cardinality({g \in sent : g < f}) < MaxFiles}

Smaller(m, n) == IF m <= n THEN m ELSE n

\* A walk overshoots the limit by less than one file for every other thread, and
\* it never ends with fewer files than the tree and the limit allow (walk.rs,
\* VisitorCollector::visit).
WalkCollects ==
  /\ Cardinality(sent) <= MaxFiles + Cardinality(Walkers)
  /\ MaxFiles > 0 => Cardinality(sent) < MaxFiles + Cardinality(Walkers)
  /\ WalkOver => Cardinality(sent) >= Smaller(MaxFiles, Cardinality(Files))

\* walk.rs, max_files: however the threads interleave, a walk gives as many
\* files as the tree and the limit allow.
WalkKeepsLimit ==
  /\ WalkCollects
  /\ WalkOver => Cardinality(Discovered) = Smaller(MaxFiles, Cardinality(Files))
=============================================================================
