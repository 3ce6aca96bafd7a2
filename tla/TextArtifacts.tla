---------------------------- MODULE TextArtifacts ----------------------------
(***************************************************************************)
(* The text half of a refresh: text_artifacts.rs and the staging of        *)
(* rr-core/src/text that it calls.                                         *)
(*                                                                         *)
(* A generation is what one snapshot projects to: a set of routers         *)
(* (`MAP.md`, one per indexed directory and per directory above one) and   *)
(* the local symbol index.  A run stages first: it reads the purposes      *)
(* people wrote into the routers, renders every file with them, and        *)
(* compares the result with the disk.  Any conflict refuses the run.  Then *)
(* it publishes the snapshot, writes the files in place one after the      *)
(* other, removes the ones no longer planned, updates `.rr/.gitignore`,    *)
(* and stages once more to confirm.  People edit, delete and check out the *)
(* same files at any moment; a write may fail and a run may die.           *)
(*                                                                         *)
(* Runs do not overlap: they hold the publication guard (see Refresh).     *)
(***************************************************************************)
EXTENDS Naturals

CONSTANTS
  Maps,          \* the reserved paths a router or an old page may have
  RootMap,       \* the MAP.md of the repository root
  Symbols,       \* .rr/SYMBOLS.md
  Ignore,        \* .rr/.gitignore
  None,          \* no path
  Above,         \* the routers of the directories a map lies in, its own and
                 \* the root's left out
  Depth,         \* how deep the directory of a map is
  NameRank,      \* the place of a map in the order of their bytes
  Planned,       \* the routers each generation has
  Text,          \* the purposes people write
  Seed,          \* the purpose a router is given before anyone writes one
  MaxChanges     \* how often people touch the files

Generation == DOMAIN Planned
Paths == Maps \cup {Symbols}
Purpose == Text \cup {Seed}

ASSUME PathAssumption ==
  /\ RootMap \in Maps
  /\ Symbols # Ignore /\ Symbols # None /\ Ignore # None
  /\ {Symbols, Ignore, None} \cap Maps = {}
ASSUME OrderAssumption ==
  /\ Depth \in [Maps -> Nat] /\ NameRank \in [Maps -> Nat]
  /\ \A p, q \in Maps : NameRank[p] = NameRank[q] => p = q
  /\ \A m \in Maps \ {RootMap} : Depth[RootMap] < Depth[m]
  /\ Above \in [Maps -> SUBSET Maps]
ASSUME PlanAssumption ==
  /\ Planned \in [Generation -> SUBSET Maps]
  /\ \A g \in Generation :
       RootMap \in Planned[g] /\ \A m \in Planned[g] : Above[m] \subseteq Planned[g]
ASSUME TextAssumption == Seed \notin Text
ASSUME ChangeAssumption == MaxChanges \in Nat

VARIABLES
  disk,       \* what each reserved path holds
  ignore,     \* what .rr/.gitignore holds of the managed block
  published,  \* the generation of the published snapshot
  pc,         \* where the run is
  stage,      \* which of its stagings a run is in
  goal,       \* the generation the run writes
  purposes,   \* the purposes the staging read
  todo,       \* the files still to write
  doomed,     \* the files still to remove
  opened,     \* the file that is cut and not yet written out
  outcome,    \* how the last run ended
  changes,    \* how often people touched the files
  touched,    \* history: what they touched since the purposes were read
  told,       \* history: the purpose each map was last given by a person
  unseen,     \* history: the maps the staging's scan did not reach
  fault       \* history: whether a system call of this run failed

runVars == <<published, pc, stage, goal, purposes, todo, doomed, opened, outcome>>
history == <<touched, told, unseen, fault>>
vars == <<disk, ignore, runVars, changes, history>>

PC == {"idle", "read", "compare", "write", "remove", "ignore"}
Stage == {"look", "held", "confirm"}
Outcome == {"none", "unchanged", "refused", "failed", "broken", "died",
            "unconfirmed", "done"}

\* "whole" verifies against its own generated_hash; "damaged" declares itself
\* rr's and does not parse or verify; "foreign" does not declare itself, is
\* empty, or holds conflict markers (a symbolic link and a name that differs in
\* case only are conflicts of the same effect); "locked" cannot be read.
Kind == {"none", "whole", "damaged", "foreign", "locked"}
Whole(g, text) == [kind |-> "whole", gen |-> g, purpose |-> text]
Bare(k) == [kind |-> k, gen |-> 0, purpose |-> Seed]
Contents == [kind : Kind, gen : Generation \cup {0}, purpose : Purpose]

NoPurposes == [m \in Maps |-> Seed]

----------------------------------------------------------------------------
(* Staging: purpose.rs, render.rs and validate.rs.                         *)

\* is_file() of a router, or a directory entry.
Present(p) == disk[p].kind # "none"

\* owned_paths_on_disk descends from the root into the directories that hold
\* a MAP.md.
Reached(m) == \A above \in Above[m] : Present(above)

\* Mutation: only purposes of the generation that is being written survive.
PurposesOfGoal ==
  [m \in Maps |-> IF m \in Planned[goal] /\ disk[m].gen = goal
                  THEN disk[m].purpose ELSE Seed]
\* Mutation: a router without a purpose is given none.
PurposesUnseeded ==
  [m \in {m \in Planned[goal] : disk[m].kind = "whole"} |-> disk[m].purpose]
\* read_existing_purposes, and the seed where there is none.
ExistingPurposes ==
  [m \in Maps |-> IF m \in Planned[goal] /\ disk[m].kind = "whole"
                  THEN disk[m].purpose ELSE Seed]

\* render_map and render_symbols.
Rendered(p) == Whole(goal, IF p = Symbols THEN Seed ELSE purposes[p])

Files == Planned[goal] \cup {Symbols}

ByBytes(p, q) == NameRank[p] <= NameRank[q]

\* Mutation: from the root down.
ShallowFirst(p, q) ==
  \/ p = Symbols
  \/ /\ {p, q} \subseteq Maps
     /\ Depth[p] < Depth[q] \/ (Depth[p] = Depth[q] /\ ByBytes(p, q))
\* render_all: the symbol index, then the maps, deepest first, root last.
WrittenBefore(p, q) ==
  \/ p = Symbols
  \/ /\ {p, q} \subseteq Maps
     /\ Depth[p] > Depth[q] \/ (Depth[p] = Depth[q] /\ ByBytes(p, q))

Fresh == {p \in Files : disk[p] = Rendered(p)}

\* Mutation: maps are repaired like the symbol index.
RepairsAnything(p) == disk[p].kind = "damaged"
\* repairs_in_place: a damaged symbol index is rewritten.
Repairs(p) == p = Symbols /\ disk[p].kind = "damaged"

\* The planned files classify lets a run write over, or create.
Stale == {p \in Files \ Fresh : disk[p].kind = "whole" \/ Repairs(p)}
Missing == {p \in Files : ~Present(p)}

\* owned_paths_on_disk.
Unplanned == {m \in Maps \ Planned[goal] : Present(m) /\ Reached(m)}
Removable == {m \in Unplanned : disk[m].kind = "whole"}

\* Mutation: the managed block is left for the writer to discover.
IgnoreUnclassified == {}
\* classify_managed_ignore.
IgnoreConflict == IF ignore = "malformed" THEN {Ignore} ELSE {}

Conflicts ==
  (Files \ (Fresh \cup Stale \cup Missing)) \cup (Unplanned \ Removable)
    \cup IgnoreConflict

UpToDate == Stale \cup Missing \cup Removable \cup Conflicts = {}

----------------------------------------------------------------------------
(* A run.                                                                  *)

\* Leaves nothing of a run but its outcome.
Ends(result) ==
  /\ outcome' = result
  /\ pc' = "idle" /\ stage' = "look" /\ goal' = published'
  /\ purposes' = NoPurposes /\ todo' = {} /\ doomed' = {} /\ opened' = None

\* A run starts: prepare returned UpToDate, whose text is looked at without
\* the guard, or Prepared, with the snapshot of any generation.
Begin ==
  /\ pc = "idle"
  /\ pc' = "read"
  /\ outcome' = "none"
  /\ touched' = {} /\ unseen' = {} /\ fault' = FALSE
  /\ \/ stage' = "look" /\ goal' = published
     \/ stage' = "held" /\ goal' \in Generation
  /\ UNCHANGED <<disk, ignore, published, purposes, todo, doomed, opened, changes, told>>

\* read_existing_purposes gives up on a map that cannot be read.
ReadPurposes ==
  /\ pc = "read"
  /\ \A m \in Planned[goal] : disk[m].kind # "locked"
  /\ purposes' = ExistingPurposes
  /\ pc' = "compare"
  /\ touched' = IF stage = "confirm" THEN touched ELSE {}
  /\ UNCHANGED <<disk, ignore, published, stage, goal, todo, doomed, opened,
                 outcome, changes, told, unseen, fault>>

Unreadable ==
  /\ pc = "read"
  /\ \E m \in Planned[goal] : disk[m].kind = "locked"
  /\ published' = published
  /\ Ends(IF stage = "confirm" THEN "unconfirmed" ELSE "failed")
  /\ UNCHANGED <<disk, ignore, changes, history>>

\* The unguarded staging of an up-to-date run.
LookIsUpToDate ==
  /\ pc = "compare" /\ stage = "look" /\ UpToDate
  /\ published' = published
  /\ Ends("unchanged")
  /\ UNCHANGED <<disk, ignore, changes, history>>

\* republish_text: hold, and stage again.
LookIsStale ==
  /\ pc = "compare" /\ stage = "look" /\ ~UpToDate
  /\ pc' = "read" /\ stage' = "held"
  /\ purposes' = NoPurposes
  /\ UNCHANGED <<disk, ignore, published, goal, todo, doomed, opened, outcome,
                 changes, history>>

\* refusal.
Refuse ==
  /\ pc = "compare" /\ stage = "held" /\ Conflicts # {}
  /\ published' = published
  /\ Ends("refused")
  /\ UNCHANGED <<disk, ignore, changes, history>>

\* The staged text is publishable: the snapshot is published.
Publish ==
  /\ pc = "compare" /\ stage = "held" /\ Conflicts = {}
  /\ published' = goal
  /\ todo' = Stale \cup Missing
  /\ doomed' = Removable
  /\ unseen' = {m \in Maps : Present(m) /\ ~Reached(m)}
  /\ pc' = "write"
  /\ UNCHANGED <<disk, ignore, stage, goal, purposes, opened, outcome, changes,
                 touched, told, fault>>

\* write_file truncates the file in place, and writes.  What is there in
\* between is empty or a part of the text.
Open ==
  /\ pc = "write" /\ opened = None
  /\ \E p \in todo :
       /\ \A q \in todo : WrittenBefore(p, q)
       /\ disk[p].kind # "locked"
       /\ \E k \in {"foreign", "damaged"} : disk' = [disk EXCEPT ![p] = Bare(k)]
       /\ opened' = p
  /\ UNCHANGED <<ignore, published, pc, stage, goal, purposes, todo, doomed,
                 outcome, changes, history>>

Fill ==
  /\ pc = "write" /\ opened # None
  /\ disk' = [disk EXCEPT ![opened] = Rendered(opened)]
  /\ told' = IF opened \in touched \cap Maps
             THEN [told EXCEPT ![opened] = purposes[opened]] ELSE told
  /\ todo' = todo \ {opened}
  /\ opened' = None
  /\ UNCHANGED <<ignore, published, pc, stage, goal, purposes, doomed, outcome,
                 changes, touched, unseen, fault>>

Written ==
  /\ pc = "write" /\ todo = {}
  /\ pc' = "remove"
  /\ UNCHANGED <<disk, ignore, published, stage, goal, purposes, todo, doomed,
                 opened, outcome, changes, history>>

\* remove_file of one stale page.
Remove ==
  /\ pc = "remove"
  /\ \E m \in doomed :
       /\ \A q \in doomed : ByBytes(m, q)
       /\ Present(m)
       /\ disk' = [disk EXCEPT ![m] = Bare("none")]
       /\ told' = [told EXCEPT ![m] = Seed]
       /\ doomed' = doomed \ {m}
  /\ UNCHANGED <<ignore, published, pc, stage, goal, purposes, todo, opened,
                 outcome, changes, touched, unseen, fault>>

Removed ==
  /\ pc = "remove" /\ doomed = {}
  /\ pc' = "ignore"
  /\ UNCHANGED <<disk, ignore, published, stage, goal, purposes, todo, doomed,
                 opened, outcome, changes, history>>

\* write_managed_ignore: a block that is missing is appended, in place.
OpenIgnore ==
  /\ pc = "ignore" /\ opened = None /\ ignore = "plain"
  /\ ignore' \in {"plain", "malformed"}
  /\ opened' = Ignore
  /\ UNCHANGED <<disk, published, pc, stage, goal, purposes, todo, doomed,
                 outcome, changes, history>>

\* The block is there, and everything is read back.
StartConfirm ==
  /\ pc = "ignore"
  /\ opened = Ignore \/ ignore = "block"
  /\ ignore' = "block"
  /\ opened' = None
  /\ pc' = "read" /\ stage' = "confirm"
  /\ purposes' = NoPurposes
  /\ UNCHANGED <<disk, published, goal, todo, doomed, outcome, changes, history>>

\* confirm.
Confirm ==
  /\ pc = "compare" /\ stage = "confirm"
  /\ published' = published
  /\ Ends(IF UpToDate THEN "done" ELSE "unconfirmed")
  /\ UNCHANGED <<disk, ignore, changes, history>>

\* A step finds what staging did not, and the run stops where it is.
Stuck ==
  /\ \/ /\ pc = "write" /\ opened = None
        /\ \E p \in todo : disk[p].kind = "locked" /\ \A q \in todo : WrittenBefore(p, q)
     \/ /\ pc = "remove"
        /\ \E m \in doomed : ~Present(m) /\ \A q \in doomed : ByBytes(m, q)
     \/ pc = "ignore" /\ opened = None /\ ignore = "malformed"
  /\ published' = published
  /\ Ends("broken")
  /\ UNCHANGED <<disk, ignore, changes, history>>

\* A system call fails: no space, no permission.  What was cut stays cut.
Fail ==
  /\ pc \in {"write", "remove", "ignore"}
  /\ published' = published
  /\ Ends("broken")
  /\ fault' = TRUE
  /\ UNCHANGED <<disk, ignore, changes, touched, told, unseen>>

\* The process ends.
Die ==
  /\ pc # "idle"
  /\ published' = published
  /\ Ends("died")
  /\ UNCHANGED <<disk, ignore, changes, history>>

Run ==
  \/ Begin \/ ReadPurposes \/ Unreadable
  \/ LookIsUpToDate \/ LookIsStale \/ Refuse \/ Publish
  \/ Open \/ Fill \/ Written \/ Remove \/ Removed
  \/ OpenIgnore \/ StartConfirm \/ Confirm \/ Stuck \/ Fail \/ Die

----------------------------------------------------------------------------
(* People, editors and git.                                                *)

\* p is touched; between runs there is nothing to remember of the last one.
Touches(p) ==
  /\ changes < MaxChanges
  /\ changes' = changes + 1
  /\ IF pc = "idle"
     THEN outcome' = "none" /\ touched' = {} /\ unseen' = {} /\ fault' = FALSE
     ELSE touched' = touched \cup {p} /\ UNCHANGED <<outcome, unseen, fault>>
  /\ UNCHANGED <<published, pc, stage, goal, purposes, todo, doomed, opened>>

\* A router's purpose slot is written.
Describe(m, text) ==
  /\ disk[m].kind = "whole"
  /\ text # disk[m].purpose
  /\ Touches(m)
  /\ disk' = [disk EXCEPT ![m].purpose = text]
  /\ told' = [told EXCEPT ![m] = text]
  /\ UNCHANGED ignore

\* Git brings a router of some generation, with some purpose.
Checkout(m, g, text) ==
  /\ m \in Planned[g]
  /\ disk[m] # Whole(g, text)
  /\ Touches(m)
  /\ disk' = [disk EXCEPT ![m] = Whole(g, text)]
  /\ told' = [told EXCEPT ![m] = text]
  /\ UNCHANGED ignore

\* A file is deleted, edited outside its slot, replaced by another file or
\* left in conflict by a merge, or made unreadable.
Spoil(p, k) ==
  /\ disk[p].kind # k
  /\ k \in {"damaged", "locked"} => disk[p].kind = "whole"
  /\ Touches(p)
  /\ disk' = [disk EXCEPT ![p] = Bare(k)]
  /\ told' = IF p \in Maps THEN [told EXCEPT ![p] = Seed] ELSE told
  /\ UNCHANGED ignore

EditIgnore ==
  /\ Touches(Ignore)
  /\ ignore' \in {"plain", "block", "malformed"} \ {ignore}
  /\ UNCHANGED <<disk, told>>

People ==
  \/ \E m \in Maps, text \in Text : Describe(m, text)
  \/ \E m \in Maps, g \in Generation, text \in Purpose : Checkout(m, g, text)
  \/ \E p \in Paths, k \in Kind \ {"whole"} : Spoil(p, k)
  \/ EditIgnore

\* The first generation is published; nothing of its text is written yet.
Init ==
  /\ disk = [p \in Paths |-> Bare("none")]
  /\ ignore = "plain"
  /\ published \in Generation
  /\ pc = "idle" /\ stage = "look" /\ goal = published
  /\ purposes = NoPurposes /\ todo = {} /\ doomed = {} /\ opened = None
  /\ outcome = "none" /\ changes = 0
  /\ touched = {} /\ told = [m \in Maps |-> Seed] /\ unseen = {} /\ fault = FALSE

Next == Run \/ People
Spec == Init /\ [][Next]_vars

----------------------------------------------------------------------------
(* Properties.                                                             *)

\* Every variable keeps its type.
TypeOK ==
  /\ disk \in [Paths -> Contents]
  /\ ignore \in {"plain", "block", "malformed"}
  /\ published \in Generation /\ goal \in Generation
  /\ pc \in PC /\ stage \in Stage /\ outcome \in Outcome
  /\ purposes \in [Maps -> Purpose] /\ told \in [Maps -> Purpose]
  /\ todo \subseteq Paths /\ doomed \subseteq Maps
  /\ opened \in Paths \cup {Ignore, None}
  /\ changes \in 0..MaxChanges
  /\ touched \subseteq Paths \cup {Ignore} /\ unseen \subseteq Maps
  /\ fault \in BOOLEAN

\* purpose.rs: the one region a person owns is copied through.  Whatever
\* generations come and go, fail half-way or are written again, a router that
\* stands whole holds the purpose its directory was last given, unless someone
\* touched it while a run was between reading the purposes and writing.
PurposeKept ==
  \A m \in Maps : disk[m].kind = "whole" => disk[m].purpose = told[m]

\* What a run may write over or remove without asking.
Mine(p) ==
  \/ disk[p].kind \in {"none", "whole"}
  \/ p = Symbols /\ disk[p].kind = "damaged"
  \/ opened = p

\* validate.rs, "reported, never seized": from the staging to the last
\* removal, a run changes only files that are its own, however many steps
\* ago it classified them, and the ones touched since.
HandsOff ==
  [][\A p \in Paths :
       disk'[p] # disk[p] /\ changes' = changes => Mine(p) \/ p \in touched]_vars

\* text_artifacts.rs:6, "the root MAP.md last as the generation marker": when
\* a run writes the root map, every other file of the generation it names is
\* on disk already, whatever the runs before left there.
RootMarksGeneration ==
  [][opened = RootMap /\ opened' = None /\ pc' = "write" =>
       \A p \in Files \ touched : disk'[p] = Whole(goal, disk'[p].purpose)]_vars

\* text_artifacts.rs:3, "Staging decides everything before anything is
\* written": a run that passed staging is stopped half-way, or is not confirmed,
\* only by a failing system call, by something touched meanwhile, or by a
\* file that lay beyond the staging's scan and came within it.
StagingSuffices ==
  outcome \in {"broken", "unconfirmed"} =>
    \/ fault \/ touched # {}
    \/ \E m \in unseen \ Planned[published] : Reached(m)

\* The same without the last excuse.
StagingDecides ==
  outcome \in {"broken", "unconfirmed"} => fault \/ touched # {}
=============================================================================
