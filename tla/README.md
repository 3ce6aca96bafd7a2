# repo-router: specification and proofs

`rr` keeps an index (a *snapshot*) of a Git working tree and answers queries
from it. Its promise is stated at the top of `rr-git/src/refresh.rs`: a run may be
slow and may fail, but a wrong answer is never among its outcomes. This directory
models the parts of the program that promise depends on, model-checks them with TLC
and proves what can be proved with TLAPS. Paths below are relative to `src/crates/`.

## Inventory

| component | state it keeps | operations | talks to |
|---|---|---|---|
| Repository observation (`rr-git/src/repo/`) | none; reads HEAD, the index file, the working tree | `observe_state`, `committed_delta`, `head_oid` | Git |
| Discovery (`rr-core/src/walk.rs`) | a file counter shared by walker threads | `discover`, `collected_lang` | working tree, ignore rules |
| Rules digest (`rr-git/src/rules.rs`) | none | `discovery_digest`, `is_rule_path` | observation, working tree |
| Planner (`rr-git/src/plan.rs`, `rr-core/src/refresh/`) | a `PlanDraft` under construction | `plan_for`, `commits_left_index_true` | snapshot, observation, working tree |
| Build pipeline (`rr-git/src/pipeline.rs`, `map.rs`, `content.rs`) | one worker per thread | `run`, `process`, `retain`, `assemble`, `meta_for` | fact cache, content acquisition |
| Refresh (`rr-git/src/refresh.rs`, `rr-cli/src/refresh.rs`) | what a run remembers between its steps | `prepare`, `hold`, `publish`, `finish` | all of the above |
| Publication guard (`rr-git/src/guard.rs`, `rr-cli/src/main.rs`) | `.rr/local/publication.lock` | `acquire`, drop, `release_locks_signal_safe` | other processes, signals |
| Status (`rr-git/src/status.rs`) | none | `status` | planner |
| Snapshot store (`rr-core/src/snapshot.rs`) | the published envelope | `load_identified`, `publish`, `decode` | file system |
| Text artifacts (`rr-cli/src/text_artifacts.rs`, `rr-core/src/text/`) | committed `MAP.md` and `SYMBOLS.md` files | `stage`, `publish` | refresh, route cache |
| Route cache (`rr-core/src/text/routes.rs`, `rr-core/src/workspace.rs`) | learned routes, their lock, a memo | `learn`, `lookup`, `reconcile` | queries, text artifacts |
| Fact cache (`rr-core/src/cache.rs`) | facts by content id | `get`, `put` | pipeline of several processes |
| Query and verification (`rr-cli/src/query.rs`, `rr-core/src/query.rs`, `verify.rs`) | none | `query`, exact routing, source windows and source checks | snapshot, route cache, working tree |
| Quality gate and corpus (`rr-core/src/quality.rs`, `tests/corpus.rs`) | a manifest and what it locks | adjudicate, aggregate shards, gate, relock | release job |
| Index build (`rr-core/src/index/`) | none | `SnapshotBuilder::build`, validation on load | pipeline |
| Ranking, lexing (`rr-core/src/ranking.rs`, `lex/`) | none | scoring, ordering, candidate cap | query |
| Impact, diff (`rr-core/src/impact.rs`, `rr-git/src/diff.rs`) | none | reverse traversal, diff parsing | snapshot |
| Co-change (`rr-git/src/cochange.rs`) | a cached history summary | bounded history walk | Git |
| Check (`rr-core/src/check.rs`, `rr-cli/src/check.rs`) | none | consistency report | snapshot, artifacts |
| SIGPIPE containment (`rr-git/src/sigpipe.rs`) | a process-wide count and saved disposition | enter, leave | Git filters |
| Init (`rr-cli/src/init.rs`, `agent.rs`, `block.rs`) | agent files and a skill | `run`: marked regions, the stamped skill | file system |
| Extraction (`rr-core/src/parser/`, `facts.rs`) | none | parse to facts, validate them | pipeline |
| Command line and output (`rr-cli/src/main.rs`, `render`) | none | arguments, formats | everything |

What is hard here, and why a test rarely reaches it:

* **Nothing holds still.** A refresh reads the repository some dozens of times, path by
  path, while editors, `git` and other refreshes write it. Each decision is made from
  a read that may be stale when it is acted on.
* **A snapshot is believed by runs that did not make it.** What it remembers of the
  dirty and skipped files decides what a later run does *not* look at. A wrong memory
  is never corrected, because nothing will look again.
* **The lock is the existence of a file**, with signals, SIGKILL and people around it.
* **Publication is several files** written one after the other.

* **Small protocols share the process or the directory**: a reference-counted signal
  disposition, a learned-route file under a lock, a cache two releases write, a counter
  several walkers raise, a source read that is compared with an earlier one.
* **Long sequential algorithms decide on edges**: caps, margins, innermost owners, windows
  cut by two limits at once. A wrong one gives a confident answer, not a failure.

The hazards are listed one by one, each at its line, in `PROJECT.json`.

For each component, what makes it correct: the *observation* and *planner* must never
clear a path whose record is stale; the *pipeline* must record what it read; *refresh*
must publish only what was still true after it was built, and must converge; the *guard*
must be exclusive; *text artifacts* must describe the published snapshot, keep foreign
edits and survive a crash; the *route cache* must not lose learned routes, exceed its cap
or answer from a stale generation; the *fact cache* must never give a key the facts of
another; a *query* must abstain rather than answer from an index that is not true of
what it reads; the *index* must satisfy the invariants a load validates; *SIGPIPE
containment* must restore the disposition it found.

## Modules

| module | what it models |
|---|---|
| `Worktree` | The repository and the people around it: commits, HEAD, the index, the working tree, and what `git status`, the walk and a full rebuild say of it. |
| `Refresh` | The planner, one run of `rr refresh` as some twenty steps, any number of runs at once, crashes, lost snapshots and stale locks. |
| `RefreshWitness` | `Refresh` with a history variable saying what was true since a build ended. |
| `RefreshQuiet` | `RefreshWitness` in a world that eventually comes to rest, with fairness. |
| `Publication` | The abstract promise: one published value, runs that enter alone, replace it at most once, write its text and leave. No lock, no observation. |
| `RefreshPublication` | The refinement mapping from `Refresh` to `Publication`: `building` and `writing` are the runs at the steps before and after `publish`. |
| `RefreshProofs` | Theorems about `Refresh` and its refinement, about what a snapshot can be believed to say, and about what `prepare` has confirmed. |
| `TextArtifacts` | The text half of a run: staging, refusing, publishing, writing the files in place one by one, removing old ones, reading everything back; people, git, failing writes and crashes meanwhile. |
| `TextProofs` | Theorems about `TextArtifacts`. |
| `Routes` | `.rr/ROUTES.md`: queries that look up, answer and learn under a lock, refreshes that publish and drop what is no longer true, the memo of the API identity, damage. |
| `Sigpipe` | The SIGPIPE disposition, its counter and the guards of any number of threads. |
| `FactStore` | The fact cache: workers of several releases, half-written files, renames, loss. |
| `Discovery` | The parallel walk: the count, the limit, the channel, the stop. |
| `SourceCheck` | `rr query --source`: acquire, verify, acquire again, serve, while the path is edited, replaced or staged. |
| `SharedProofs` | Theorems about these five: routes, SIGPIPE, the fact cache, the walk, the served source. |
| `Ranking` | The merge of posting streams, the candidate cap, scoring, collapse and the decision, as a state machine. |
| `ExactRouting`, `SourceWindow` | The direct routes of a question; the lines that are served. |
| `Impact` | Two snapshots and a diff: which definitions changed, what they reach, cycles, counts. |
| `CoChange` | The window of history, bulk commits, co-change evidence, and its cache. |
| `IndexBuild` | `SnapshotBuilder`: ids, scopes, parents, imports, references, postings, routes, validation. |
| `Facts`, `Tags`, `RustFacts`, `Languages` | Owners and validation of facts; the tags extractor; the Rust extractor; visibility by language. |
| `PlanDraft` | What status items claim of a path, and the plan that is frozen from it. |
| `Check` | `rr check`: diagnostics, severities, the exit code. |
| `Quality`, `Corpus` | Findings, shards and the release gate; the corpus manifest and its lock. |
| `AgentContract` | `rr init`: regions in files people own, the stamped skill, refusals. |
| `Requests` | The eleven algorithms with a theorem, as a state machine: rr makes a request of a kind it can make, and the algorithm answers it in one step. |
| `RankingProofs`, `AlgorithmProofs`, `ReportProofs`, `ImpactProofs` | Theorems about ranking; about windows, owners, plans, `rr check`, exact routes, `rr init` and stated access; about the release gate, the corpus lock and co-change; about impact. |
| `FiniteOrders` | What the proofs need of finite sets: least elements, induction, recursion on subsets, sums. |
| `MCRefresh`, `MCRefreshQuiet`, `MCTextArtifacts` | Instances for TLC. |
| `MCShared` | One instance of the five shared protocols. They share no state, so a behaviour is one of theirs while the others rest. |
| `MCAlgorithms` | `Requests` and the other algorithms with every small input: a behaviour is one request to one algorithm and its answer, and each invariant compares the two. |

`Refresh` holds the whole of writing text in its one step `Finish`; `TextArtifacts` is that
step in detail, from the moment `prepare` has returned. The two meet at the guard:
`Refresh` shows that one run at a time is inside it (`GuardExclusive`) and that the text is
about the published snapshot (`TextDescribesPublished`), and `TextArtifacts` assumes just that:
one run at a time, and `published' = goal` when writing begins.

### State

A file's content is a version number; `0` is absence. New bytes get a new version, and
the only old bytes that come back are the ones the index holds (`git restore`, undo).
Commits are trees. `indexStamp` stands for the index file's checksum. A snapshot is
reduced to what later runs believe of it: a version per source (`files`), the commit it
names, the rule digest, `dirty_paths` and `skipped_paths`. `disk` says whether a load
gives `Ready`, `Missing` or `NeedsRebuild`. The field `gone` is not in the file: it is a
ghost that records which deletions a build saw without writing them down (see the first
finding), it is read by no action, and the properties use it to keep saying
everything else while that finding stands.

A run's variables are the locals of `prepare`: `loaded` (`published`), `seen` (the
observation being made), `believed` (the one planned from), `plan`, `built`, `vanished`,
`next` (the snapshot to publish), and `todo`, what is left of the loop it is in.

### Steps

| code | action | `pc` after |
|---|---|---|
| `prepare`: load, start `observe_state` | `Start` | look |
| one path of a status scan | `Scan` | |
| `is_no_op` holds, text up to date | `UpToDate` | idle |
| `is_no_op` holds, text stale | `TextStale` | stale |
| `hold`: guard, load again | `Hold`, `HoldNothing` | published, idle |
| `is_no_op` fails | `Decide` | acquire |
| `RepositoryWriteGuard::acquire` | `Acquire`, `Locked` | relook, idle |
| second plan | `Replan` | walk, or build for an empty delta |
| `discover` | `Walk` | build |
| `Worker::retain` and `Worker::process` of one file | `Retain`, `Process` | |
| `assemble` with `meta_for`, encode | `Assemble` | confirm |
| `confirm_unchanged` | `Scan`, then `Confirm` or `Moved` | verify, idle |
| `confirm_content` of one file | `Reread`, `Differs` | , idle |
| `publish` | `Publish` | published |
| `text_artifacts::publish`, `finish` | `Finish` | idle |
| text conflict | `Refuse` | idle |
| `check_cancelled` | `Cancel` | idle |
| a signal the handler sees | `Die` | idle, lock removed |
| SIGKILL | `KillHard` | idle, lock left |

The guard is held at `relook`, `walk`, `build`, `confirm`, `verify` and `published`.
Between any two of these steps anything else may happen: another run's step, a save, a
deletion, `git add`, a commit, `git reset --soft`, loss of the snapshot, or the removal
of an orphaned lock.

### Text artifacts

A generation is what one snapshot projects to: a set of maps and `.rr/SYMBOLS.md`. Two
snapshots with the same projection are the same generation. Of a file the model keeps what
`classify` tells apart (`whole`, `damaged`, `foreign`, `locked`, absent), the generation that
rendered it and the one region a person owns, its purpose. `Above` says which routers
must stand for the scan of old pages to reach a map; `Depth` and `NameRank` give the order
of writing and of removing. `touched`, `told`, `unseen` and `fault` are history: no action
is guarded by them.

| code | action | `pc` after |
|---|---|---|
| `prepare` returned, `stage` begins | `Begin` | read |
| `read_existing_purposes` | `ReadPurposes`, `Unreadable` | compare, idle |
| `compare` without the guard: nothing to do, or `republish_text` | `LookIsUpToDate`, `LookIsStale` | idle, read |
| `compare` under the guard: `refusal` | `Refuse` | idle |
| `compare` under the guard: snapshot published | `Publish` | write |
| `write_file`: truncate, then write | `Open`, `Fill` | |
| loop ends | `Written` | remove |
| `remove_file` | `Remove` | |
| loop ends | `Removed` | ignore |
| `write_managed_ignore` | `OpenIgnore`, `StartConfirm` | , read |
| `confirm` | `ReadPurposes`, `Confirm` | compare, idle |
| a step meets what staging did not | `Stuck` | idle |
| a system call fails | `Fail` | idle |
| a signal or SIGKILL | `Die` | idle |

People write a purpose (`Describe`), bring back a router of another generation (`Checkout`),
delete or damage a file (`Spoil`) and edit `.rr/.gitignore` (`EditIgnore`), between any two of
these steps.

Abstracted: symbolic links and names that differ in case are conflicts, as a foreign file is;
overflow pages and files of an older layout are maps that a generation does not plan; a file
is read in one step. `reconcile_routes`, between the writing and the confirmation, belongs to
the route cache. The unguarded staging of an up-to-date run, `LookIsUpToDate`, is never
overtaken by another run here; it changes nothing, so what is left out is only that its
answer may be old.

### The shared protocols

| code | action |
|---|---|
| `Workspace::open` in a query | `Routes!Open` |
| `route_lookup`: the record, then the identity | `Lookup`, `Identify` |
| the ranker's answer, `learn_route` | `Answer` |
| `update_routes`: lock and edit; rename, or nothing to write | `TakeLock`, `Rename`, `Unwritten` |
| a refresh: publish, remember the catalog, reconcile | `PublishSnapshot`, `RememberPublished`, then as above |
| `acquire`, `release` of `sigpipe.rs` | `Sigpipe!Ignore`, `DropGuard` |
| `Worker::process` around the cache: `get`, extraction, `put` in three system calls | `FactStore!Get`, `Extract`, `Create`, `WriteAll`, `Persist`, `PutFails` |
| `VisitorCollector::visit`: the first look, the send and count; the walker's own stop | `Discovery!Visit`, `Send`, `Spread` |
| `open_regular_file`, `verify_source`, `revalidate_source` with `finish_source` | `SourceCheck!OpenSource`, `VerifySource`, `FinishSource` |

A crash is `Perish` (Routes) or `Leave` (FactStore): the kernel drops a lock, a temporary
file stays where nobody looks for it. Outside hands are `Spoil`, `Damage`, `Edit` and
`Stage`. A handle that was opened keeps the file it was opened on: `SourceCheck` tells an
edit in place, which the handle sees, from a replacement, which it does not.

### The algorithms

Each is one operator, `RouteExact`, `ImpactReport`, `BuildSnapshot`, `CheckReport`,
`Released`, `Relock`, `Lookup`, `Extract`, `RustExtract`, `Refine`, `Freeze`, `CoChanged`,
`InitRun`, `Window`, built from one operator for each function of the source, in the order the
source runs them; loops whose order matters are recursive functions over the iteration
(`TarjanStep`, the walk of `Traverse`, the stack of `Ancestors`). Names, words and contents are
members of small sets, a text is a sequence of tokens, a BM25 gain is an integer. The
property of each is stated without the code's way of getting there: by
reachability rather than by the queue, by nearest enclosing span rather than by the
running maximum, by what a person wrote rather than by the regions rr found.

### What the model assumes of the world

These are stated in the module, at `Flicker` and `HeadReturns`, because dropping them
gives counterexamples that a check of bytes and status cannot see from inside:

* While a run relies on the tree holding still, no absent file appears and the rule file
  does not go back to the bytes it had; and the rules do not change in the middle of
  the observation a plan is made from. `refresh_flicker` lifts this for one source and
  shows what then happens.
* HEAD does not leave and come back to the same commit inside one build.
* Planning is one step, and so is the walk; the status scan is not, and neither is
  building or confirming.
* What Git's stat cache calls clean is equal in content.
* A damaged or lost file is missing or unreadable, never an older intact snapshot.
* A lock file is removed by hand only when no live run holds it.

Left out of the model: renames, conflicts, type changes, symlinks, submodules, external
rule files, roots without Git, the content representation and generated flags, and
failing system calls other than those above (they end a run as `Cancel` does).

## Runs

Two cores, under five minutes each.

| run | instance | asks |
|---|---|---|
| `refresh_single` | one process, two sources (symmetric) and a rule file, 3 changes, 2 commits, versions to 3, three initial trees (empty; sources without rules; sources that the rules hide) | `TypeOK`; `SnapshotTrustworthy`: whatever happened, planning now from the published snapshot, or from the one a run loaded, leaves no stale record untouched, also where a run rebuilds one source and retains the other, from a fact cache that may have lost either; `MovedHeadTrusted`: a snapshot a query accepts across commits is right about every path that is as HEAD has it |
| `refresh_race` | two processes (symmetric), one tree, 2 changes | `GuardExclusive`; `SnapshotTrustworthy` with a second run publishing between a run's load and its guard; `TextDescribesPublished`: text is written of the published snapshot; `ImplementsPublication`: every step is a step of `Publication` or invisible to it |
| `refresh_settles` | one process, one source and a rule file, 3 changes from any of the three trees, then rest | `PreparedIsCurrent`: each record `prepare` returns was the bytes on disk at some moment after the build, and was let through by the rules at some moment after it; `Settles`: at rest, refreshes converge to the truth and stay |
| `refresh_restored` | one process, 3 changes | finding: `NothingToDoIsTrue` fails |
| `refresh_fresh` | one process, 3 changes | finding: `FreshMeansNoOp` fails |
| `refresh_flicker` | one process, the source may flicker | finding: `SnapshotTrustworthy` fails |
| `text_publish` | maps of the root, `a` and `a/b`; three generations; people touch files twice | `TypeOK`; `PurposeKept`: a purpose survives every rewrite, crash and change of generation; `HandsOff`: what a run overwrites or removes is its own, or was touched since it looked; `RootMarksGeneration`: the root map is written when all the rest is there; `StagingSuffices`: after a clean staging only a failing call, someone's touch or a file out of the scan's sight stops a run |
| `text_unseen` | the same, one touch | finding: `StagingDecides` fails |
| `shared` | two queries (symmetric), three questions, a cap of two, a refresh that may change the API, one damage; three threads nesting twice; three workers of two releases; three walkers and a limit of two in four files; three contents of two canonical ones, three edits | `RoutesTypeOK` with the cap; `RepliesVouched`: an answer from the file is what the ranker said of some snapshot with the same API, its confidence included, and points at something that is there; `RoutesKept`: no learned route is lost to another writer; `LockIsLive`: who waits waits for one rename; `SigpipeContained`; `FactsAreOwn`; `WalkKeepsLimit`; `ServedIsCurrent` |
| `routes_current` | the same with one query, so the steps come one after the other | finding: `RepliesCurrent` fails |
| `algorithms` | small inputs of fifteen algorithms, 134 thousand requests | `CapKeepsBest`, `DecisionIsSupported` (ranking); `WindowServed`; `RouteServed` (exact routing); `ReachServed`, `ChangesServed` (impact); `BuildIsSound`; `VerdictServed` (`rr check`); `ReleaseServed`, `LockServed` (release gate, corpus); `OwnerServed`, `ExtractionIsSound`, `SpansAreNested`, `AccessServed` (extraction); `PlanServed`; `CoChangeServed`; `InitServed` |
| `tags_shared` | one text with code behind a block comment | finding: `OnlyCommentsAbsorbed` fails |

**Bounds.** `MaxChanges`, `MaxVersion` and `MaxCommits` bound what the world does; runs are
not bounded, so a behaviour has any number of refreshes between changes. One source is
enough for most questions because the planner and the confirmations treat sources one by
one and share only HEAD, the index identity and the rules, which the instance has; the rule
file is a second path that is scanned at its own moment, so non-atomic observations occur.
It is not enough for retention: with one source a plan either touches it or is an empty
delta, and nothing is ever retained by a build. `refresh_single` has two for that reason.
`PreparedIsCurrent` is checked beside `Settles`, on one source: a retained record is confirmed like any other, and
`PreparedWasConfirmed` is about any number of them.
Three changes hold an edit, its undo and a commit, with refreshes before, between and after them. What takes more
(an edit that is staged as well, say) is left to `TrustIsKept` and `PreparedWasConfirmed`, which hold for all bounds. `Hides` makes version 1 of the rule file hide every source and other versions none,
and one of the initial trees begins with it.
Two touches let someone edit a file that was classified and then undo it, or prepare a
tree before a run and disturb it during the run. Three maps on one path are enough for the
order of writing and for the scan, which depend on a map only through those above it; three
generations have a map that stays while another goes. Runs are not bounded here either.
Deadlock checking is on in these runs: a refresh can always be started or go on. In `shared`,
`routes_current`, `algorithms` and `tags_shared` it is off, because a walk, a served source and an answered
request are an end.

In `shared`, a cap of two with three questions makes eviction happen at the first conflict
and leaves a tie to break; of the three snapshots two have one public API and different
confidences, which is what separates a record that is vouched for (`RepliesVouched`) from one that is
current (`RepliesCurrent`, the sixth finding). Three walkers against
a limit of two overshoot; a third worker of another release is needed for a key
collision, and two of the same release for a race on one key. Three guard-holding threads
let one leave between two others. Three edits allow a replacement, a write and a return to the old bytes.

In `algorithms` the inputs are the smallest that hold each case the code distinguishes:
files of five lines with short and long ones; five symbols in three files with overloads and
homonyms; graphs of four definitions with any subset of nine calls, and layouts of up to three
nested definitions around one or two hunks; two files and four kinds of contents, references
and imports; any three definitions over five places for the owner of a span; three
texts, every pair of declarations in them that nest or are apart, and every tag order the
grammar can give; a Rust tree of nine nodes with errors across them; every plan of up to
three items over three paths; histories of four commits asked at two tips, with and without
the cache of the first; agent files of up to four lines in two newline styles. The number of
requests is what bounds them, not a search depth: an algorithm is answered in one step.

**Fairness.** `FairSpec` gives weak fairness to a run's own steps (the operating system
schedules it), to starting another run (users and hooks keep asking), and to removing an
orphaned lock (the code leaves that to a person, and says so at `guard.rs:60-69`). No
fairness is given to the changes. Convergence is asked only after the world is at
rest, `<>quiet => <>[]Current`: the code promises nothing to a tree that changes
under every confirmation. `SourceCheck` states weak fairness for the query's own steps, which
no property needs so far: it ends because each step leads to a later one.

Every property of a passing run is also broken by a plausible bug in the code:
confirming the rules but not the observation,
skipping the content confirmation, confirming only what no
record could stand in for, removing a lock one failed to take or does
not own, writing text of
the snapshot loaded before the guard; for text, keeping only the purposes of the
generation being written, leaving a router no one described without any purpose, writing from the root down, repairing damaged maps as if
they were the symbol index, not classifying `.rr/.gitignore`. For the shared protocols: forgetting the cap, believing a memo of
another snapshot, a lock that outlives its holder, no lock, saving the
disposition at every nesting, keys without the release, a count that is one behind, a second
reading that is not compared. For the algorithms: one order, guard, reset or bound of each.
`PROJECT.json` lists them as
mutants, and the mutated operators stand beside the originals.

## What the runs found

1. **A restored file can stay out of the index** (`refresh_restored`, `rr-git/src/map.rs:72`).
   `rm f; rr refresh; git restore f`: the deletion entered neither `dirty_paths` nor
   `skipped_paths`, status is clean again, and the plan is empty. Every later incremental
   refresh takes the no-op path with `f` missing, until `f` or HEAD changes.
2. **`Fresh` is not the no-op path** (`refresh_fresh`, `rr-git/src/status.rs:112`). After a
   commit of what was already indexed the label is `Fresh`, but a refresh republishes,
   because `is_no_op` also asks whether the snapshot names HEAD.
3. **A file absent during the walk can be declined for good** (`refresh_flicker`,
   `rr-git/src/map.rs:306`). `skipped_paths` is filtered by what is on disk after the build,
   not by what the walk saw.
4. **Staging does not decide everything** (`text_unseen`, `rr-core/src/text/validate.rs:662`).
   The scan for old pages descends only where a `MAP.md` stands. With `a/b/MAP.md` on disk,
   unplanned, and no `a/MAP.md`, staging sees no conflict; the run publishes the snapshot,
   writes `a/MAP.md`, and its own confirmation then sees `a/b/MAP.md` and fails. If that
   file is rr's the next run removes it; if a person wrote it, every later run refuses.
5. **Code behind a comment is absorbed** (`tags_shared`, `rr-core/src/parser/tags.rs:831`).
   After the line `/* a */ int b;` the definition on the next line takes the whole of that line
   into its span, and `b` becomes nested in it: the end of the comment is looked for
   with `rfind`, anywhere in the line, and what follows it is not looked at.
6. **A learned route replays an old confidence** (`routes_current`, `rr-core/src/text/routes.rs:160`).
   A question is answered and learned; a refresh publishes a snapshot with one more private
   definition, which comes second to the answer and narrows its margin (`ranking.rs:704-710`); the
   same question is then answered from the file with the confidence of the snapshot before. The record still
   validates, because `api_identity` covers public definitions only (`model.rs:174-176`, `275`), while the doc of
   `RouteRecord` says that every field a record carries has to be one it covers (`routes.rs:128-129`).
   What does hold is `RepliesVouched`: the anchor resolves, and anchor and confidence were the ranker's of some snapshot
   with that API.

Smaller disagreements met on the way, in the model but without a run of their own:

* A write that stops after truncation leaves an empty map. It declares nothing, so the next
  run reports a file that "rr did not write" (`validate.rs:41`) and refuses until a person deletes it. An empty
  `SYMBOLS.md` is refused the same way, though a damaged one is repaired.
* `validate_text_artifacts` says that a file that cannot be read becomes a conflict
  (`validate.rs:286`); a planned map that cannot be read ends the staging with an error
  instead (`purpose.rs:84`, action `Unreadable`).
* `confirm` is said to catch a concurrent editor (`text_artifacts.rs:137`). It catches an edit
  after the write of that file. An edit between staging and that write is overwritten and
  leaves no trace, which is why `HandsOff` and `PurposeKept` except what was touched.

* The files the planner read in `already_recorded` are not read again before publication
  (`rr-git/src/refresh.rs:390-448`). The snapshot is then briefly untrue; `SnapshotTrustworthy`
  shows that it is corrected, because the path stays in `dirty_paths`.
* A run that stops after writing `d/e/MAP.md` and before `d/MAP.md` leaves a map that no later
  scan reaches if the sources under `d` then go (`text_artifacts.rs:106`).
* The three candidates exact routing keeps are not always the best three: a twin is removed
  after the list was truncated (`rr-core/src/query.rs`). No answer called direct is wrong for it.
* `super::` is resolved against the module of the file also inside an inline module
  (`IndexBuild!ModulePrefix` and its users follow the code in this).
* Performance evidence with a zero denominator passes the gate; evidence that could not be
  aggregated is modelled as missing, and blocks.
* `strip_leading_decorations` counts brackets inside strings (`tags.rs:1364-1396`), which
  `csharp_strip_attributes` says a scan must not do (`tags.rs:1839-1843`). A decoration that quotes a
  bracket may then end in the wrong place: of `@Pattern(regexp = "[^)]*") private String x` no modifier is read,
  and the access is the language's default instead of `private`. Such declarations are among the requests of
  `algorithms`, and `AccessServed` and its theorems except them (`QuotesBracket`): without the exception TLC finds one.
* `initializer_is_a_function` accepts a word that begins with `function`.
* Two tags definitions of one and the same span both count its words as body; `ExtractionIsSound`
  excepts them.
* A definition that moved to another file does not seed what called it at the old place.
* `ensure_private` looks for `.rr/.gitignore` in that spelling only, `resolve_existing_name` in any: on
  a file system that tells them apart a second spelling can appear. Git reads only the one rr makes.
* `apply_block` adds a final newline to a file that had none behind its region, though the
  contract says everything outside is preserved exactly; `rr init` reads and then renames
  without a lock against an editor.

## Proofs

`RefreshProofs` proves, for every set of sources and runners and all
bounds; `TextProofs`, for every tree of maps and every sequence of generations;
`SharedProofs`, for any number of processes, threads, keys and contents;
`RankingProofs`, `AlgorithmProofs`, `ReportProofs` and `ImpactProofs`, for inputs of any size:

| theorem | states |
|---|---|
| `TypeCorrect` | `Spec => []TypeOK` |
| `GuardIsExclusive` | `Spec => []GuardExclusive` |
| `TextIsAboutPublished` | `Spec => []TextDescribesPublished` |
| `RefreshImplementsPublication` | `Spec => ImplementsPublication`, the refinement |
| `TrustIsKept`, `SnapshotIsTrustworthy`, `MovedHeadIsTrusted` | with `Flickers = {}`: `Spec => []TrustInv`, and from it `[]SnapshotTrustworthy` and `[]MovedHeadTrusted` |
| `PreparedWasConfirmed` | with `Flickers = {}`: `WitnessSpec => []PreparedIsCurrent` |
| `TextProofs!TypeCorrect` | `Spec => []TypeOK` of `TextArtifacts` |
| `PurposesSurvive` | `Spec => []PurposeKept` |
| `RunsKeepTheirHandsOff` | `Spec => HandsOff` |
| `RootComesLast` | `Spec => RootMarksGeneration` |
| `StagingIsEnough` | `Spec => []StagingSuffices` |
| `LockStaysLive`, `RepliesStayVouched` | `RoutesSpec => []LockIsLive`, `RoutesSpec => []RepliesVouched` |
| `RoutesTyped`, `NoRouteIsLost` | `RoutesSpec => []RoutesTypeOK`, the cap included; `RoutesSpec => RoutesKept` |
| `SigpipeStaysContained` | `SigpipeSpec => []SigpipeContained` |
| `FactsAreAlwaysOwn` | `FactSpec => []FactsAreOwn` |
| `WalkAlwaysKeepsLimit` | `WalkSpec => []WalkKeepsLimit` |
| `ServedIsAlwaysCurrent` | `SourceSpec => []ServedIsCurrent` |
| `TheCapKeepsTheBest`, `DecisionsAreSupported` | `RankSpec => []CapKeepsBest`, `RankSpec => []DecisionIsSupported` |
| `WindowsAreRight`, `WindowsAreServed` | `WindowIsRight` for any text and any anchor in it; `RequestSpec => []WindowServed` |
| `OwnersAreNearest`, `OwnersAreServed` | `OwnerIsNearest` for any validated list of definitions and any span; `RequestSpec => []OwnerServed` |
| `PlansIgnoreOrder`, `PlansAreServed` | `PlanIgnoresOrder` for any status; `RequestSpec => []PlanServed` |
| `CheckNeverHidesAFinding`, `VerdictsAreServed` | `GreenIsClean` for any finite answers of the owners; `RequestSpec => []VerdictServed` |
| `ReachesAreExact`, `ReachesAreServed` | `ReachIsExact` for any two overlays, any changes and any depth; `RequestSpec => []ReachServed` |
| `ComponentsAreRings` | `Components(adj)`, Tarjan's algorithm on any adjacency list, is the set of maximal sets of nodes that reach one another |
| `ChangesAreAllFound`, `CyclesAreAllWhole`, `ChangesAreServed` | `ChangesAreFound` and `CyclesAreWhole` for any two overlays, any changes and any depth; `RequestSpec => []ChangesServed` |
| `ReleasesAreEarned`, `ReleasesAreServed` | `ReleaseIsEarned` for any corpus, shards and evidence; `RequestSpec => []ReleaseServed` |
| `LocksHold`, `LocksAreServed` | `LockHolds` for any corpus and any later disk; `RequestSpec => []LockServed` |
| `RoutesAreHonest`, `RoutesAreServed` | `RouteIsHonest` for any snapshot and any question; `RequestSpec => []RouteServed` |
| `CoChangesAreEarned`, `CoChangesAreServed` | `CoChangeIsEarned` of the last of any series of asks; `RequestSpec => []CoChangeServed` |
| `InitsAreCareful`, `InitsAreServed` | `InitKeepsWhatIsYours` for any disk and any names that cannot be written; `RequestSpec => []InitServed` |
| `DeclaredAccessWins`, `AccessesAreServed` | `StatedAccessWins` for any declaration in a language that states access in words, but for C# namespaces and, outside C#, decorations that quote a bracket; `RequestSpec => []AccessServed` |

They use the assumptions named in the modules (`RuleFileAssumption`, `BoundAssumption`,
`HidesAssumption`, `TreeAssumption`, `FlickersAssumption`), which TLC evaluates in every
run. `TypeCorrect` is inductive; its lemmas type the planner's operators once (`StatusType`,
`DigestType`, `PlanType`, `MetaType`, `RetainedType`) and then take the steps in groups.
`GuardExclusive` is inductive because it carries the lock file along: mutual exclusion
alone is not preserved by a removal of the lock, while "a holder implies a lock" needs
exclusion when one run ends. `SameHolders` covers all steps that move no run in or out
of the guard; the others are done one by one, and the case that matters is `RemoveStaleLock`,
which needs that no run is inside. `TextDescribesPublished` rests on exclusion: only a
holder publishes (`OneMoves`), so no other run can be writing text when one does. The refinement maps every step: an acquired
lock is an entry because no lock means no holder; a run that ends inside the guard leaves an
empty room because there is no other; and what is published is a usable snapshot, for which
`Assembled` is one more invariant. The lock file that SIGKILL leaves is invisible in the
abstract, which is why a crash needs no case of its own there.

**Trust.** `SnapshotTrustworthy` says what a plan made *now* would leave untouched, so its
invariant has to say what every record will be worth in every state of the tree to
come. `TrustInv` does it with one notion: a version is `Lost` when it is neither in the
working tree nor in the index, because then nothing in the repository brings it back. A
snapshot is `Faithful` if each path it does not call dirty is recorded as its commit has it,
or that version of the path is lost, or its deletion is unrecorded (the first finding); or if the rules it
was built under are lost, for then no plan believes it. `Lost` is kept by every step
(`Drifts` lists what the world keeps), so `Faithful` is too, as long as the snapshot stands; what
remains is that a run makes a faithful one. `LookHolds`, `RulesHold`, `PlanHolds` and
`CleanHolds` say what the observation, the rules and the plan of a run are worth while HEAD and
the index stand as observed; `RecordsHold`, `BuildHolds` and `NextIsBuilt` carry it through the
build; `ConfirmHolds` and `VerifyHolds` say of each path that either it has been found as
recorded or the record will be read again. If HEAD has moved, nothing is claimed of the paths
and the next plan hears of the commit instead. Mutual exclusion is not used: a run that
publishes over another replaces one faithful snapshot by another.

The theorems have the hypothesis `Flickers = {}`: the first of the assumptions on the world
above, without exception. Every run but `refresh_flicker` has it too;
there `SnapshotTrustworthy` fails, so the hypothesis cannot be dropped. People remain free to edit, stage,
commit, check out and restore at every other step.

`PreparedIsCurrent` rests on `TrustInv` and on `WitnessInv`, which relates the witnesses to
what is left to confirm: a vouched record needs none (`VouchedHolds`), in `confirm` a path the scan calls
clean is as its commit has it, and in `verify` each path has been read, is waiting, or was
vouched for. The rules of the plan never come back once they have left, so a
confirmation that finds them finds them unmoved since the build. Trying to prove that bytes
and rules were right at *one* moment showed that they need not be: the rules are confirmed
before the content is read, and from the fifth change on they may hide a path in between and
the content still be found. The property says so: each at some moment after the build.

The theorems about text rest on two inductive invariants. `Survival` is `PurposeKept` with
what a staging knows: outside `touched`, the purposes it read are those people gave
(`StagedTold`), a file that waits to be written has them (`PendingTold`), and an absent map
was told nothing (`AbsentUntold`). `Order` says of a run that is writing that every file
of its generation is waiting, touched or written (`WrittenSoFar`), that the open file
comes before all that wait (`OpenedFirst`), and that what it is about to overwrite or remove is
its own or was touched (`WritesMine`, `RemovesMine`). `OpenedFirst` needs what
`OrderAssumption` says, that the root is shallower than all else: with it, an open root means
nothing else waits. `StagingSuffices` has an invariant of its own, `Staged`, of a run past its
staging that nobody has touched: each file of the generation stands or waits to be written
(`FilesStand`), every other map is to be removed or lay out of sight (`OthersGo`), the ignore block can be
written or was (`IgnoreStands`), and the loops behind the run are over (`LoopsAreOver`). The assumptions are `PathAssumption`, `OrderAssumption`, `PlanAssumption`,
`TextAssumption` and `ChangeAssumption`.

The shared protocols each have one invariant that is more than their property.

* `Routes`: `VouchedTable`, that a table holds only what the ranker said under the identity of the
  record, of the file and of the table in every learner's hands, since one becomes the
  other; with `MemoTrue` and what each point of a query knows (`LearnerOK`). Eviction and reconciliation
  keep it because they only take away (`PartVouched`), insertion because a learner that
  waits has an answer (`InsertVouched`). `FitInv` adds that every table in anybody's hands is typed
  and within the cap, and that the draft of whoever holds the lock was made of the file as it
  is (`DraftIsCurrent`): that is what makes its rename lose nothing (`NoRouteIsLost`).
* `Sigpipe`: `depth` is the number of guards. A sum over threads cannot be unfolded without
  induction, so the guards are a set of pairs, taking one adds an element and dropping one
  removes it, and the library's facts on cardinalities do the rest.
* `FactStore`: a name of the cache holds its own entry or none (`EntriesAreOwn`), and what a worker
  is about to rename is what it extracted (`FilesWhatItExtracted`).
* `Discovery`: below the limit nothing was dropped (`NothingDropped`); files sent and files in
  hand together stay below the limit and one per thread (`Bounded`). Either alone is not
  inductive: the limit bounds who may take, not who may send. That sorting and truncating to
  the limit leaves that many files (`CutSize`) is an induction on the set of files: the
  last one is cut off or not, and the cut of the others stays.
* `SourceCheck`: an attached handle is the path (`HandleFollowsPath`), and what the handle of the
  second reading holds was yielded since the first (`YieldedIsKnown`), also when it was
  detached meanwhile.

Their assumptions are `RoutesAssumption`, `SigpipeAssumption`, `FactStoreAssumption`,
`DiscoveryAssumption` and `SourceAssumption`; they say that the markers for "nothing" are no
values, that the sets the code has finitely many of are finite, that there is a walker, and
that files are numbered in the order of their names.

**Algorithms.** `TheCapKeepsTheBest` rests on `RankInv`: the cursors move together (`InStep`), everything
kept beats everything lost and nothing is lost before the heap is full (`CutIsClean`), and the best of
what was lost is remembered (`BestIsRemembered`); the order is total, so a heap has one worst
member. `DecisionsAreSupported` adds that the ranked list is the sorted best of each anchor
(`DecideInv`): the place of a symbol is the number of symbols ahead of it, so every place is
taken once and the second speaks for all other anchors. The proof found a gap in the property
as it was first stated: a first score of zero has a margin of zero by definition
(`MarginPpm::between`), so a profile that lets zeros be offered offers them with no rival; the property names that
case now. `RankingAssumption` says that
symbols are finitely many numbers, streams are finitely many, gains are naturals and the profile is valid.

`WindowsAreRight` follows from laws of sums (`BytesLaws`, `AffordableShrinks`): a part of what fits
fits, so the greedy scans stop where nothing more would fit. It is about anchors inside the text,
which is what the index holds. `OwnersAreNearest` is about lists as `validate_facts` accepts them
(`WellOrdered`): sorted by `def_key`, spans that do not end before they start. There, every definition
before the one whose running maximum of ends is too small ends too soon as well. `PlansIgnoreOrder` is an induction on
the items: after each, the draft says of every path, source and conflict what the set of the items so far says,
or has failed and that set holds a contradiction (`Follows`). `CheckNeverHidesAFinding` is about owners that
answer with finitely many findings of the three severities (`Answerable`).

`ReachesAreExact` has three parts. The graph: after absorbing any prefix of the references, its keys are
the edges resolved so far, each with the endpoints that saw it (`GraphIsMerged`), by induction on the prefix.
The traversal: `Reached` after `n` rounds is `Started` after `n` applications of `Further`, and the
invariant of the rounds is that the nodes at distance `l` are those of `Chains` of length `l` and no shorter
one. The report: both directions are one lemma, with the arrows turned round. The endpoint of a direct edge
comes from the first part.

`ChangesAreAllFound` is about overlays as `decode` accepts them (`IsOverlay`: ids are distinct, spans do not end
before they start) and one change per path (`IsChangeset`). Of the definitions a hunk meets, those that enclose no
other of them are touched (`TouchedByLines`); the enclosed are shorter, so each definition it meets is an innermost one or encloses
one (`InnermostInside`). A key that both versions declare pairs its first definitions, so only a renamed file with no such
key pairs by place (`PairByName`), and elsewhere what one side alone declares has no partner.

`ComponentsAreRings` proves Tarjan's algorithm with its explicit work stack. `Core` is the invariant on the
sets the stacks stand for: whatever is on the stack leads back to a node of the work stack entered no later, which leads to all
that was entered after it (`Back`, `Forth`); a low number is that of a node it leads to (`LowIsSeen`), and no edge that was
looked at leads below every low from there on (`LowIsLow`); no edge leads out of what left the stack, and that is a union of
whole rings (`DoneIsShut`, `RingsFound`). Entering, looking, closing and returning each keep it (`CoreEnters`,
`CoreLooks` and the rest). `Ready` says how the records of the run stand for these sets, and `Running` counts the turns to go,
two for each node that was not entered and one for each on the work stack: so three turns per node are more than
enough. `CyclesAreAllWhole` adds that the numbering of the nodes is one to one, that a node is in a cycle if and only if it leads to
itself over an edge, and that what leads somewhere leads there in a chain no longer than the number of
nodes (`ChainsAreShort`), since a round of chains that reaches nothing new is the last.

`ReleasesAreEarned` starts from what the gate refuses: a passed gate has no aggregation fault, so no
shard is of another candidate, no case is missing and none is filed twice or by another's shard
(`NoFaultsMeansClean`); hence filings and cases of a kind correspond one to one, and counts over filings
are counts over cases (`CountsOfFinite`). Reversing the shards turns the first of two equal filings into the
second, and since there are no equal filings nothing changes (`BackwardsIsClean`, `SaidBackwards`).

`LocksHold` says of each declared file that `relock` recorded it as it was on disk (`LockIs`), so that verifying it finds
nothing (`LockedFileVerifies`), and that what verification can still say is for a person (`LockSaysLittle`).
If it says nothing of the later disk, each declared file is as locked and no other file is there
(`LockCovers`), on the first disk as on the later one; so the two agree.

`RoutesAreHonest` rests on an invariant of the three held candidates (`HoldsBest`): each candidate seen is
outdone or equalled by the one held for its anchor, or by all of them if the list is full. It survives a
twin that is displaced after the list was cut (`RetainHolds`), which is why a direct answer is the only best one
although the three offered need not be the best three. The rest is that the first atom with an outcome
decides (`FirstHitIsAHit`, `FirstOfThree`).

`CoChangesAreEarned` is about series of asks (`IsSeries`): a tip has one history, and each ask finds a
cache that is gone, or what the ask before left, or what that could not write over. So a cache is an entry some ask of
the series made (`CachesAreTrue`, by induction), and an entry whose key is this ask's is this
history's. The commits read are those that speak (`HistoryIsRead`: the loop's counter is the number of commits
that are no merges, up to the window), numbering is one to one (`NumberLaws`), so counts by number are counts
by path (`CountsAreTrue`), and truncation gives nothing away at the floor (`FloorIsReached`).

`InitsAreCareful` is about four targets that no reader takes for one another (`ContractAssumption`), on a disk of
files (`IsDisk`). A text with a block is lines around it (`Around`), and to apply the block to that again
changes nothing (`AroundIsSettled`), so what a target is left with is wanted of it for good, or is
refused again (`ConclusionIsSettled`). Where a target is found is not moved by the work on any of them
(`NamesStay`): the disk after a run is then known name by name (`RunIsKnown`), and a second run does
nothing to it (`DoneIsDone`). The property is stated with the lines on either side of the region, but for the
one blank line `append_block` may put before it; and it excepts `.rr/.gitignore`, which `ensure_private`
makes also where a `.gitignore` of another spelling is.

`DeclaredAccessWins` is about declarations as people write them (`IsDeclaration`): decorations of any length, each closed by its
brackets outside strings and followed by a blank, then modifiers, then anything. `StatedAccessWins` excepts two of them: a C#
namespace, which is public whatever is written before it, and outside C# a decoration with a bracket in a string, which
`strip_leading_decorations` counts. All other decorations are read whole (`PlainReadsWhole`). Where a decoration ends is decided by what is in it and
not by what is around it (`DecorationEnds`, `AttributeEnds`), since the brackets and quotes behind a place are as many
wherever the text holds it (`KindsMove`). So two turns of the loop go past each decoration, and none past the first modifier
(`PastAllStops`); the modifiers read are those written and perhaps more (`ModifiersLead`), and the first
access word stays the first (`FirstOfLonger`). Then each language is a case: no promotion and no surroundings undo it. The proof asked for disjoint guards: in TLA+ a `CASE` whose
arms overlap does not take the first. Where the code tries one condition after another the modules now say
`IF ... ELSE IF`.

Each statement is proved of the operator for any input, and then of `RequestSpec`, whose invariant
`RequestInvariant` says that a request is one rr makes (`Requested`) and an answer is what the
algorithm says of it. `Requested` is what the theorems assume: windows are anchored in the file, definitions are validated,
items name paths, owners answer with finite sets, overlays are as `decode` accepts them, shards and references are lists, manifests are of the
shape `decode_manifest` accepts, asks are of one clone, declarations are as people write them, a disk holds files. In `Quality` a verdict is named by its place in the shards, and in `Corpus` a list of
files is a function, from places if a person wrote it and from paths if `relock` walked it: the order of either
list decides nothing the properties speak of. For the same reason `ExactRouting` offers candidates as a set, and
`CoChange` leaves the commits it keeps at their places in the walk. `algorithms` checks these properties on small requests that meet `Requested`. The
assumptions on constants are `WindowAssumption` (the budgets are naturals), `PlanAssumption` (the mark
for no source is no path), `ImpactAssumption` (`DepthLimit` is a natural), `RoutingAssumption` (more than one
candidate is offered), `CoChangeAssumption` (the window and the floors are naturals, and files must have changed together
at least once) and `ContractAssumption`.

None of these needs an induction theorem over an operator. `FiniteOrders` derives what is needed from the
library's fact that inclusion of finite sets is well founded, with a set where the theorem would take a predicate:
induction (`FiniteInduction`), and that recursion on the subsets of a finite set has a solution
(`RecursionExists`). The sums and folds of the community modules choose a function that unfolds; they
then unfold, because there is one.

Only model-checked: `Settles`, since liveness under fairness is beyond the prover; and of the algorithms
`BuildIsSound`, `ExtractionIsSound` and `SpansAreNested`. They
filter and sort sequences (`SelectSeq`, `SetToSortSeq`), which the library defines by
recursion on lengths or overrides in TLC, so each would first need its own theory of those operators. The
six findings are violations, and nothing is to be proved there.

## Plan

1. *(done)* `Worktree`, `Refresh` and their runs; guard and type proofs.
2. *(done)* `Publication`: what a refresh promises in the abstract; `Refresh` refines it, as
   a `PROPERTY` and as a theorem.
3. *(done, but for liveness)* `TextArtifacts` and its proofs. Left: that runs converge once people
   rest.
4. *(done)* `Routes`, `FactStore`, `Sigpipe`, `Discovery`, `SourceCheck`, and a theorem for each of their properties.
5. *(done)* The sequential algorithms, from `PlanDraft` to `AgentContract`.
6. Left: the fields of the snapshot envelope that `decode` checks one after another; page
   planning of the text artifacts; renames, conflicts and type changes in `Worktree`; a query that reads
   HEAD, snapshot and routes while a whole `Refresh` runs, rather than `Routes`' one step of it.
7. *(done)* What a snapshot may be trusted for: `TrustInv`, and `PreparedIsCurrent` from it.
8. *(done for ranking, windows, owners, plans, `rr check`, impact, the release gate, the lock, exact routes, co-change, `rr init` and stated access)* The
   algorithms for inputs of any size. Left: lemmas on `SelectSeq`, for the extractors and the index.

## Not modelled

* **Command line and output**: arguments, formats, wording and rendering. Nothing is kept there,
  and no property is about it. The cancellation flag is the `Cancel` step.
* **Tree-sitter and its queries, Git's status, diff and rename detection, the walker
  library**: external. They appear as what the code receives: nodes, tags, status items, hunks.
* **Tokenising, stemming and stop words; BM25 in floating point**: a term is a value and a gain an
  integer. The order and the thresholds are modelled, not the numbers.
* **Byte formats**: the envelope, the maps, `ROUTES.md` and JSON are read back as what was
  written, or not at all.
* What a component marked *partly* leaves out is said in its note in `PROJECT.json`.
