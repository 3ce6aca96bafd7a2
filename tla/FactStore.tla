------------------------------ MODULE FactStore ------------------------------
(***************************************************************************)
(* The fact cache, `.rr/local/facts`: what was extracted from a content,   *)
(* filed under the content, the language and the extractor's version.      *)
(* Processes of two releases share it, a process may die between any two   *)
(* steps, and a machine that stops may leave a renamed file cut short:     *)
(* nothing is synced, nothing is locked.                                   *)
(***************************************************************************)
EXTENDS FiniteSets, Naturals

CONSTANTS
  Workers,      \* threads of any process
  Release,      \* Release[w]: the extractor and schema version w was built with
  Contents,     \* Git object ids
  Uncacheable,  \* contents whose facts are degraded (ParseStatus::is_cacheable)
  Absent, Cut,  \* what a name holds when it holds no entry that reads back
  NoKey

Releases == {Release[w] : w \in Workers}

\* CacheKey, without the language.
CacheKeys == [content : Contents, release : Releases]
\* What an extractor of that version yields for those bytes.
FactsOf(key) == key
Entries == {Absent, Cut} \cup CacheKeys

ASSUME FactStoreAssumption ==
  /\ Uncacheable \subseteq Contents /\ NoKey \notin CacheKeys
  /\ Absent \notin CacheKeys /\ Cut \notin CacheKeys

VARIABLES
  entries,    \* the cache directory: what each name holds
  temp,       \* temp[w]: the temporary file of a worker
  job,        \* job[w]: the key it works on, or NoKey
  wpc,        \* where it is in Worker::process
  facts       \* facts[w]: what it will index the file with

factVars == <<entries, temp, job, wpc, facts>>

\* Mutation: CacheKey is filed by content alone.
NameByContent(w, c) == [content |-> c, release |-> CHOOSE r \in Releases : TRUE]
\* CacheKey::new and file_name.
KeyOf(w, c) == [content |-> c, release |-> Release[w]]

FactInit ==
  /\ entries = [k \in CacheKeys |-> Absent]
  /\ temp = [w \in Workers |-> Absent] /\ job = [w \in Workers |-> NoKey]
  /\ wpc = [w \in Workers |-> "idle"] /\ facts = [w \in Workers |-> NoKey]

\* The content is identified; a hit makes reading it needless.  A get that
\* fails is a miss.
Get(w) ==
  /\ wpc[w] = "idle"
  /\ \E c \in Contents, readable \in BOOLEAN :
       LET key == KeyOf(w, c) IN
         /\ job' = [job EXCEPT ![w] = c]
         /\ IF readable /\ entries[key] \in CacheKeys
            THEN /\ facts' = [facts EXCEPT ![w] = entries[key]]
                 /\ wpc' = [wpc EXCEPT ![w] = "done"]
            ELSE wpc' = [wpc EXCEPT ![w] = "extract"] /\ UNCHANGED facts
  /\ UNCHANGED <<entries, temp>>

Cacheable(c) == c \notin Uncacheable

Extract(w) ==
  /\ wpc[w] = "extract"
  /\ facts' = [facts EXCEPT ![w] = FactsOf([content |-> job[w], release |-> Release[w]])]
  /\ wpc' = [wpc EXCEPT ![w] = IF Cacheable(job[w]) THEN "create" ELSE "done"]
  /\ UNCHANGED <<entries, temp, job>>

\* put: a temporary file of its own, half written ...
Create(w) ==
  /\ wpc[w] = "create"
  /\ temp' = [temp EXCEPT ![w] = Cut]
  /\ wpc' = [wpc EXCEPT ![w] = "write"]
  /\ UNCHANGED <<entries, job, facts>>

\* ... then whole ...
WriteAll(w) ==
  /\ wpc[w] = "write"
  /\ temp' = [temp EXCEPT ![w] = facts[w]]
  /\ wpc' = [wpc EXCEPT ![w] = "persist"]
  /\ UNCHANGED <<entries, job, facts>>

\* ... then renamed over whatever was there.
Persist(w) ==
  /\ wpc[w] = "persist"
  /\ entries' = [entries EXCEPT ![KeyOf(w, job[w])] = temp[w]]
  /\ temp' = [temp EXCEPT ![w] = Absent]
  /\ wpc' = [wpc EXCEPT ![w] = "done"]
  /\ UNCHANGED <<job, facts>>

\* A put that fails costs a parse next time, not this answer.
PutFails(w) ==
  /\ wpc[w] \in {"create", "write", "persist"}
  /\ temp' = [temp EXCEPT ![w] = Absent]
  /\ wpc' = [wpc EXCEPT ![w] = "done"]
  /\ UNCHANGED <<entries, job, facts>>

\* The file is indexed and the worker takes the next one; or it is killed, and
\* its temporary file stays where nobody looks for it.
Leave(w) ==
  /\ wpc[w] # "idle"
  /\ wpc' = [wpc EXCEPT ![w] = "idle"] /\ job' = [job EXCEPT ![w] = NoKey]
  /\ facts' = [facts EXCEPT ![w] = NoKey] /\ temp' = [temp EXCEPT ![w] = Absent]
  /\ UNCHANGED entries

\* The machine stops, or somebody clears the cache.
Damage ==
  /\ \E k \in CacheKeys, e \in {Absent, Cut} :
       entries[k] # e /\ (e = Cut => entries[k] \in CacheKeys) /\ entries' = [entries EXCEPT ![k] = e]
  /\ UNCHANGED <<temp, job, wpc, facts>>

FactNext ==
  \/ \E w \in Workers :
       \/ Get(w) \/ Extract(w) \/ Create(w) \/ WriteAll(w)
       \/ Persist(w) \/ PutFails(w) \/ Leave(w)
  \/ Damage
FactSpec == FactInit /\ [][FactNext]_factVars

----------------------------------------------------------------------------
FactTypeOK ==
  /\ entries \in [CacheKeys -> Entries] /\ temp \in [Workers -> Entries]
  /\ job \in [Workers -> Contents \cup {NoKey}] /\ facts \in [Workers -> CacheKeys \cup {NoKey}]
  /\ wpc \in [Workers -> {"idle", "extract", "create", "write", "persist", "done"}]

\* pipeline.rs, input_from: "a new field cannot be filled differently on the
\* cached and parsed paths".  Whatever others put, clear or lose, a file is
\* indexed with what this release extracts from its content, and no entry that
\* reads back holds a degraded parse.
FactsAreOwn ==
  /\ \A w \in Workers : wpc[w] = "done" =>
       facts[w] = [content |-> job[w], release |-> Release[w]]
  /\ \A k \in CacheKeys : entries[k] \in CacheKeys => entries[k].content \notin Uncacheable
=============================================================================
