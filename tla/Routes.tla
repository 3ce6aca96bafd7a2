------------------------------- MODULE Routes -------------------------------
(***************************************************************************)
(* The learned routes, `.rr/ROUTES.md`, and the queries and refreshes that *)
(* share it.                                                               *)
(*                                                                         *)
(* A query loads the snapshot once.  It looks its question up in the file; *)
(* a record counts if its anchor resolves in that snapshot and if the      *)
(* public API of that snapshot is the one the record was learned against.  *)
(* The API identity is expensive, so it is kept in a memo filed under the  *)
(* digest of the snapshot it was computed from.  On a miss the ranker      *)
(* answers and the query learns the route: under a blocking lock it reads  *)
(* the file, inserts its record, evicts down to the cap and renames the    *)
(* new file into place.  A refresh publishes another snapshot and then     *)
(* drops, under the same lock, the routes that are no longer true.         *)
(***************************************************************************)
EXTENDS Naturals, FiniteSets

CONSTANTS
  Queries,        \* processes that ask
  Keys,           \* questions, normalized (RouteKey)
  Snapshots,      \* the snapshots a refresh may publish
  Anchors,        \* what a route may point at
  Beliefs,        \* confidences
  Rank,           \* Rank[s][k]: the record the ranker would give, or NoRoute
  Api,            \* Api[s]: the identity of the public API of s
  Resolves,       \* Resolves[s]: the anchors that name one symbol of s
  KeyOrder,       \* the order of the keys' bytes
  MaxRoutes,      \* MAX_ROUTES
  MaxSpoils,      \* how often someone damages or deletes the file
  MaxRefreshes,   \* how often a refresh publishes
  NoRoute, NoQuery, NoSnapshot

Identities == {Api[s] : s \in Snapshots}
Refresher == "refresher"
Learners == Queries \cup {Refresher}

\* RouteRecord: a table holds at most one for each key.
Records == [anchor : Anchors, api : Identities, belief : Beliefs]
Tables == UNION {[K -> Records] : K \in SUBSET Keys}
Answers == [anchor : Anchors, belief : Beliefs] \cup {NoRoute}
EmptyTable == [k \in {} |-> NoRoute]
MemoEntries == [stamp : Snapshots, api : Identities]

ASSUME RoutesAssumption ==
  /\ MaxRoutes \in Nat \ {0} /\ MaxSpoils \in Nat /\ MaxRefreshes \in Nat
  /\ KeyOrder \in [Keys -> Nat]
  /\ \A j, k \in Keys : KeyOrder[j] = KeyOrder[k] => j = k
  /\ Beliefs \subseteq Nat /\ IsFiniteSet(Keys)
  /\ Rank \in [Snapshots -> [Keys -> Answers]]
  /\ Api \in [Snapshots -> Identities] /\ Resolves \in [Snapshots -> SUBSET Anchors]
  /\ NoRoute \notin Records /\ Refresher \notin Queries /\ NoQuery \notin Learners

VARIABLES
  file,       \* [state, table]: the bytes of .rr/ROUTES.md, as parse_routes reads them
  memo,       \* what .rr/local/memo/route-corpus says, or NoRoute
  lock,       \* who holds routes.lock
  current,    \* the published snapshot
  rpc,        \* where each learner is
  held,       \* the snapshot it works with
  asked,      \* the question of a query
  draft,      \* the record a query found, or the table to be written
  spoils, refreshes

routesVars == <<file, memo, lock, current, rpc, held, asked, draft,
                spoils, refreshes>>

QueryPC == {"idle", "open", "lookup", "identify", "learn", "wait", "rename"}

----------------------------------------------------------------------------
(* The table: routes.rs.                                                   *)

\* min_by: the least believed, and of these the greatest key.
LessWorth(t, j, k) ==
  \/ t[j].belief < t[k].belief
  \/ t[j].belief = t[k].belief /\ KeyOrder[j] >= KeyOrder[k]

\* Mutation: the cap is forgotten.
NeverEvict(t, key) == t
\* evict_to_bound after one insertion: at most one record is too many.
EvictToBound(t, key) ==
  IF Cardinality(DOMAIN t) <= MaxRoutes THEN t
  ELSE LET victim == CHOOSE k \in DOMAIN t : \A j \in DOMAIN t : LessWorth(t, k, j)
       IN  [k \in DOMAIN t \ {victim} |-> t[k]]

\* RouteTable::insert.
Insert(t, key, record) ==
  EvictToBound([k \in DOMAIN t \cup {key} |-> IF k = key THEN record ELSE t[k]], key)

\* load_routes: a file that is absent or fails anywhere is an empty table.
Load == IF file.state = "good" THEN file.table ELSE EmptyTable

\* reconcile_routes: what the new snapshot still vouches for.
Live(t, s) ==
  [k \in {k \in DOMAIN t : t[k].api = Api[s] /\ t[k].anchor \in Resolves[s]} |-> t[k]]

----------------------------------------------------------------------------
(* A query.                                                                *)

Ask(q) ==
  /\ rpc[q] = "idle"
  /\ \E k \in Keys : asked' = [asked EXCEPT ![q] = k]
  /\ rpc' = [rpc EXCEPT ![q] = "open"]
  /\ UNCHANGED <<file, memo, lock, current, held, draft, spoils, refreshes>>

\* Workspace::open: the snapshot and its stamp come from the same bytes.
Open(q) ==
  /\ rpc[q] = "open"
  /\ held' = [held EXCEPT ![q] = current]
  /\ rpc' = [rpc EXCEPT ![q] = "lookup"]
  /\ UNCHANGED <<file, memo, lock, current, asked, draft, spoils, refreshes>>

\* The first half of route_lookup: a record, whose anchor resolves.
Plausible(q) ==
  /\ asked[q] \in DOMAIN Load
  /\ Load[asked[q]].anchor \in Resolves[held[q]]

\* The record is read here and used after the identity is known.
Lookup(q) ==
  /\ rpc[q] = "lookup"
  /\ IF Plausible(q)
     THEN /\ rpc' = [rpc EXCEPT ![q] = "identify"]
          /\ draft' = [draft EXCEPT ![q] = [k \in {asked[q]} |-> Load[k]]]
     ELSE rpc' = [rpc EXCEPT ![q] = "learn"] /\ UNCHANGED draft
  /\ UNCHANGED <<file, memo, lock, current, held, asked, spoils, refreshes>>

\* Mutation: a memo is read whatever snapshot it was filed against.
MemoUnstamped(s) == IF memo # NoRoute THEN memo.api ELSE Api[s]
\* api_identity: the memo if it was filed against s, a projection of s otherwise.
KnownIdentity(s) == IF memo # NoRoute /\ memo.stamp = s THEN memo.api ELSE Api[s]

\* MapCatalog::remember, an atomic replacement; it may fail.
Remember(s) == memo' = [stamp |-> s, api |-> Api[s]] \/ memo' = memo

\* The end of route_lookup: the record is of this public API.
Serves(q) ==
  rpc[q] = "identify" /\ KnownIdentity(held[q]) = draft[q][asked[q]].api

\* A learner is done, or dead.
Ends(l) ==
  /\ rpc' = [rpc EXCEPT ![l] = "idle"]
  /\ held' = [held EXCEPT ![l] = NoSnapshot]
  /\ asked' = IF l \in Queries THEN [asked EXCEPT ![l] = NoQuery] ELSE asked
  /\ draft' = [draft EXCEPT ![l] = EmptyTable]

Identify(q) ==
  /\ rpc[q] = "identify"
  /\ IF memo # NoRoute /\ memo.stamp = held[q] THEN memo' = memo ELSE Remember(held[q])
  /\ IF Serves(q) THEN Ends(q)
     ELSE /\ rpc' = [rpc EXCEPT ![q] = "learn"]
          /\ draft' = [draft EXCEPT ![q] = EmptyTable]
          /\ UNCHANGED <<held, asked>>
  /\ UNCHANGED <<file, lock, current, spoils, refreshes>>

\* route_query on the miss, and learn_route up to the lock: the ranker's answer
\* is recorded if it is one public symbol.
Answer(q) ==
  /\ rpc[q] = "learn"
  /\ IF Rank[held[q]][asked[q]] = NoRoute
     THEN Ends(q) /\ memo' = memo
     ELSE /\ rpc' = [rpc EXCEPT ![q] = "wait"] /\ Remember(held[q])
          /\ UNCHANGED <<held, asked, draft>>
  /\ UNCHANGED <<file, lock, current, spoils, refreshes>>

----------------------------------------------------------------------------
(* update_routes, by a query or by a refresh.                              *)

\* Mutation: nobody waits.
LockFreeAlways == TRUE
LockFree == lock = NoQuery

\* What the learner wants the file to hold.
Edited(l) ==
  IF l = Refresher THEN Live(Load, held[l])
  ELSE LET answer == Rank[held[l]][asked[l]]
       IN  Insert(Load, asked[l], [anchor |-> answer.anchor, api |-> Api[held[l]],
                                   belief |-> answer.belief])

\* The lock is taken, the file read and the table edited.
TakeLock(l) ==
  /\ rpc[l] = "wait" /\ LockFree
  /\ lock' = l
  /\ draft' = [draft EXCEPT ![l] = Edited(l)]
  /\ rpc' = [rpc EXCEPT ![l] = "rename"]
  /\ UNCHANGED <<file, memo, current, held, asked, spoils, refreshes>>

\* write_routes: one rename.
Rename(l) ==
  /\ rpc[l] = "rename"
  /\ file' = [state |-> "good", table |-> draft[l]]
  /\ lock' = NoQuery /\ Ends(l)
  /\ UNCHANGED <<memo, current, spoils, refreshes>>

\* Nothing changed, or the write fails, and nobody is told.
Unwritten(l) ==
  /\ rpc[l] = "rename"
  /\ lock' = NoQuery /\ Ends(l)
  /\ UNCHANGED <<file, memo, current, spoils, refreshes>>

\* Mutation: the lock is a file, and outlives its holder.
LockStays(l) == lock
\* The kernel drops the lock of a process that ends.
LockAfter(l) == IF lock = l THEN NoQuery ELSE lock

\* A process dies: the kernel drops its lock, and the file is as it was.
Perish(l) ==
  /\ rpc[l] # "idle"
  /\ lock' = LockAfter(l) /\ Ends(l)
  /\ UNCHANGED <<file, memo, current, spoils, refreshes>>

----------------------------------------------------------------------------
(* A refresh, inside the publication guard; someone else with the file.    *)

\* The snapshot is published, the text written, the catalog remembered under
\* the digest of the file that holds it.
PublishSnapshot ==
  /\ rpc[Refresher] = "idle" /\ refreshes < MaxRefreshes
  /\ \E s \in Snapshots \ {current} :
       /\ current' = s
       /\ held' = [held EXCEPT ![Refresher] = s]
  /\ refreshes' = refreshes + 1
  /\ rpc' = [rpc EXCEPT ![Refresher] = "learn"]
  /\ UNCHANGED <<file, memo, lock, asked, draft, spoils>>

RememberPublished ==
  /\ rpc[Refresher] = "learn"
  /\ Remember(held[Refresher])
  /\ rpc' = [rpc EXCEPT ![Refresher] = "wait"]
  /\ UNCHANGED <<file, lock, current, held, asked, draft, spoils, refreshes>>

Spoil ==
  /\ spoils < MaxSpoils
  /\ spoils' = spoils + 1
  /\ file' = [state |-> "unusable", table |-> EmptyTable]
  /\ UNCHANGED <<memo, lock, current, rpc, held, asked, draft, refreshes>>

RoutesInit ==
  /\ file = [state |-> "unusable", table |-> EmptyTable]
  /\ memo = NoRoute /\ lock = NoQuery
  /\ current \in Snapshots
  /\ rpc = [l \in Learners |-> "idle"]
  /\ held = [l \in Learners |-> NoSnapshot]
  /\ asked = [q \in Queries |-> NoQuery]
  /\ draft = [l \in Learners |-> EmptyTable]
  /\ spoils = 0 /\ refreshes = 0

RoutesNext ==
  \/ \E q \in Queries : Ask(q) \/ Open(q) \/ Lookup(q) \/ Identify(q) \/ Answer(q)
  \/ \E l \in Learners : TakeLock(l) \/ Rename(l) \/ Unwritten(l) \/ Perish(l)
  \/ PublishSnapshot \/ RememberPublished \/ Spoil

RoutesSpec == RoutesInit /\ [][RoutesNext]_routesVars

----------------------------------------------------------------------------
(* Properties.                                                             *)

\* Every variable keeps its type, and the table its cap (MAX_ROUTES).
RoutesTypeOK ==
  /\ file \in [state : {"unusable", "good"}, table : Tables]
  /\ Cardinality(DOMAIN file.table) <= MaxRoutes
  /\ memo \in MemoEntries \cup {NoRoute}
  /\ lock \in Learners \cup {NoQuery} /\ current \in Snapshots
  /\ rpc \in [Learners -> QueryPC]
  /\ held \in [Learners -> Snapshots \cup {NoSnapshot}]
  /\ asked \in [Queries -> Keys \cup {NoQuery}]
  /\ draft \in [Learners -> Tables]

\* query.rs, route_lookup: an answer from the file is what the ranker said of
\* this question in a snapshot with the same public API, and what it points at
\* is there, whatever was published, learned, evicted or remembered meanwhile.
\* This is all that api_identity can vouch for.  The snapshot need not be the one
\* that is asked, and there the ranker may say otherwise: see RepliesCurrent.
RepliesVouched ==
  \A q \in Queries : Serves(q) =>
    LET served == draft[q][asked[q]] IN
      /\ served.anchor \in Resolves[held[q]]
      /\ \E s \in Snapshots :
           /\ Api[s] = Api[held[q]]
           /\ Rank[s][asked[q]] = [anchor |-> served.anchor, belief |-> served.belief]

\* The doc of RouteRecord, "Every field a record carries has to be one
\* `api_identity` covers, or the record can go wrong while still validating":
\* the answer from the file is the one the ranker would give now.  The identity
\* leaves out private definitions, which move the confidence, and the record has it.
RepliesCurrent ==
  \A q \in Queries : Serves(q) =>
    LET served == draft[q][asked[q]] IN
      Rank[held[q]][asked[q]] = [anchor |-> served.anchor, belief |-> served.belief]

\* routes.rs, update_routes: no learned route is lost to another writer.  One
\* that goes was damaged from outside, is not true of the snapshot a refresh
\* published, or was the least believed of a full table.
RoutesKept ==
  [][\A k \in DOMAIN Load \ DOMAIN Load' :
       \/ file'.state # "good"
       \/ rpc[Refresher] = "rename" /\ k \notin DOMAIN Live(Load, held[Refresher])
       \/ /\ Cardinality(DOMAIN Load) = MaxRoutes
          /\ \A j \in DOMAIN Load' : Load'[j].belief >= Load[k].belief]_routesVars

\* update_routes: the lock is never held by somebody who is not about to give it
\* back, so a learner that waits for it waits for one rename, whoever died.
LockIsLive == lock # NoQuery => lock \in Learners /\ rpc[lock] = "rename"
=============================================================================
