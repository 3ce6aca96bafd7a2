------------------------------- MODULE Refresh -------------------------------
(***************************************************************************)
(* `rr refresh`: rr-git's `prepare`, the planner it calls, and the         *)
(* publication that follows, run by several processes at once over a       *)
(* repository that keeps changing.                                         *)
(*                                                                         *)
(* A run loads the published snapshot without the lock, observes the       *)
(* repository path by path, and stops when the plan has nothing to do.     *)
(* Otherwise it takes the publication guard, observes and plans again      *)
(* (against the snapshot it loaded before the guard), walks and reads the  *)
(* files the plan does not let it retain, and before it publishes observes *)
(* a third time and reads again what it had read.                          *)
(*                                                                         *)
(* A snapshot is reduced to what a later run believes of it: the version   *)
(* recorded for each source, and the metadata the planner consults.  Its   *)
(* field `gone` is not in the file and no action reads it: it lets the     *)
(* properties name the deletions a build observed and did not write down.  *)
(***************************************************************************)
EXTENDS Worktree

CONSTANTS
  Runner,    \* the processes that may run a refresh
  Flickers   \* the paths whose presence or rules may come and go mid-build

ASSUME FlickersAssumption == Flickers \subseteq Path

VARIABLES
  snapshot,   \* what a load of the published file yields
  locked,     \* whether publication.lock exists
  pc,         \* where each run is
  mode,       \* the mode each run was asked for
  loaded,     \* the snapshot each run loaded at its start
  seen,       \* the observation a run is making: head, index, kinds by path
  believed,   \* the observation the run planned from
  plan,       \* the plan the run follows
  todo,       \* the paths still to visit in the loop the run is in
  built,      \* the records the run assembled
  vanished,   \* paths the walk collected that were gone when read
  next        \* the snapshot the run publishes and derives the text from

runVars == <<pc, mode, loaded, seen, believed, plan, todo, built, vanished, next>>
vars == <<worldVars, snapshot, locked, runVars>>

Mode == {"Incremental", "Full"}
PC == {"idle", "look", "stale", "acquire", "relook", "walk", "build", "confirm",
       "verify", "published"}

\* Where a run holds the publication guard.  At "stale" a run that has nothing
\* to build found text artifacts to write; at "published" it writes them.
Holding == {"relook", "walk", "build", "confirm", "verify", "published"}

\* Where a run has begun to rely on the working tree holding still.
MidBuild == {"relook", "walk", "build", "confirm"}

Records == [Source -> Version]
NoRecords == [p \in Source |-> Absent]
NoSnapshot == [files |-> NoRecords, disk |-> "missing", head |-> Unborn,
               digest |-> 0, dirty |-> {}, skipped |-> {}, gone |-> {}]
DamagedSnapshot == [NoSnapshot EXCEPT !.disk = "damaged"]
Snapshots == [files : Records, disk : {"missing", "damaged", "ready"},
              head : Nat, digest : Nat, dirty : SUBSET Source,
              skipped : SUBSET Source, gone : SUBSET Source]
Observations == [head : Nat, index : Nat, kinds : [Path -> SUBSET Kind]]
Plans == [mode : Mode, touched : SUBSET Source, vouched : SUBSET Source,
          digest : Nat]

NoKinds == [p \in Path |-> {}]
NoObservation == [head |-> Unborn, index |-> 0, kinds |-> NoKinds]
NoPlan == [mode |-> "Full", touched |-> {}, vouched |-> {}, digest |-> 0]

----------------------------------------------------------------------------
(* The planner: rules.rs and plan.rs.                                      *)

\* discovery_digest: a rule file counts only while a status reports it, and
\* is read at this moment.  0 stands for "no dirty rule file".
Digest(kinds) == IF kinds[RuleFile] = {} THEN 0 ELSE work[RuleFile] + 1

Holds(s, p) == s.files[p] # Absent

\* Evidence::declined.  The name half is `p \in Source`.
Declined(s, p) ==
  /\ ~Holds(s, p)
  /\ p \in s.skipped \/ work[p] = Absent

\* Mutation: trusts the record of a dirty path without reading the file.
AlreadyRecordedUnread(s, p) == p \in s.dirty /\ Holds(s, p)

\* Evidence::already_recorded: reads p now.
AlreadyRecorded(s, p) ==
  /\ p \in s.dirty
  /\ Holds(s, p)
  /\ work[p] = s.files[p]

\* The paths the commits named by the snapshot and by HEAD disagree about.
CommittedDelta(before, after) ==
  {p \in Path : TreeOf(before)[p] # TreeOf(after)[p]}

\* The paths draft_from reconsiders, before the evidence is heard, and among
\* them the ones the observation or the commit says are gone.
Gone(s, o, p) ==
  IF o.kinds[p] # {} THEN "Deleted" \in o.kinds[p]
  ELSE /\ p \notin s.dirty
       /\ p \in CommittedDelta(s.head, o.head)
       /\ TreeOf(o.head)[p] = Absent
Present(s, o, p) ==
  IF o.kinds[p] # {} THEN o.kinds[p] # {"Deleted"}
  ELSE \/ p \in s.dirty
       \/ /\ p \in CommittedDelta(s.head, o.head)
          /\ TreeOf(o.head)[p] # Absent

\* Mutation: also plans for paths discovery never collects.
TouchedAnyName(s, o) ==
  {p \in Path : o.kinds[p] # {}}

\* draft_from, Evidence::recheck and Evidence::remove.
Touched(s, o) ==
  {p \in Source :
     \/ Gone(s, o, p) /\ Holds(s, p)
     \/ Present(s, o, p) /\ ~Declined(s, p) /\ ~AlreadyRecorded(s, p)}

\* The paths the planner read and cleared: nothing else of the run reads them.
Vouched(s, o) ==
  {p \in Source : Present(s, o, p) /\ ~Declined(s, p) /\ AlreadyRecorded(s, p)}

\* Whether the commits can be compared and touched no rule file.
Comparable(s, o) ==
  \/ s.head = o.head
  \/ /\ s.head # Unborn
     /\ o.head # Unborn
     /\ RuleFile \notin CommittedDelta(s.head, o.head)

\* plan_for.
PlanFor(m, s, o) ==
  IF /\ m = "Incremental"
     /\ s.disk = "ready"
     /\ Comparable(s, o)
     /\ s.digest = Digest(o.kinds)
  THEN [mode |-> "Incremental", touched |-> Touched(s, o),
        vouched |-> Vouched(s, o), digest |-> Digest(o.kinds)]
  ELSE [mode |-> "Full", touched |-> {}, vouched |-> {},
        digest |-> Digest(o.kinds)]

\* RefreshPlan::is_empty_delta.
EmptyDelta(pl) == pl.mode = "Incremental" /\ pl.touched = {}

\* prepare's head_settled and is_no_op: nothing to build, lock or write.
IsNoOp(s, o, pl) ==
  /\ s.disk = "ready"
  /\ EmptyDelta(pl)
  /\ s.head = o.head
  /\ snapshot.disk # "missing"

\* Mutation: ignores the files a commit removed.
CommitsLeftIndexTrueUnlessTouched(s, after) ==
  /\ s.head # Unborn
  /\ after # Unborn
  /\ RuleFile \notin CommittedDelta(s.head, after)
  /\ \A p \in CommittedDelta(s.head, after) :
       TreeOf(after)[p] = Absent \/ Declined(s, p) \/ AlreadyRecorded(s, p)

\* commits_left_index_true: what a query asks of a snapshot when HEAD has
\* moved, from the commits alone.
CommitsLeftIndexTrue(s, after) ==
  /\ s.head # Unborn
  /\ after # Unborn
  /\ \/ s.head = after
     \/ /\ RuleFile \notin CommittedDelta(s.head, after)
        /\ \A p \in CommittedDelta(s.head, after) :
             IF TreeOf(after)[p] = Absent
             THEN ~Holds(s, p)
             ELSE Declined(s, p) \/ AlreadyRecorded(s, p)

\* retained: the version the previous snapshot vouches for, or Absent.
Retained(pl, s, p) ==
  IF pl.mode = "Incremental" /\ p \notin pl.touched THEN s.files[p] ELSE Absent

\* Mutation: the existence of a record to retain, not what came out.
AcquiredUnlessRetainable(r) ==
  {p \in Source : /\ built[r][p] # Absent
                  /\ Retained(plan[r], loaded[r], p) = Absent}

\* acquired: what was read, judged by the record that came out.
Acquired(r) ==
  {p \in Source : /\ built[r][p] # Absent
                  /\ Retained(plan[r], loaded[r], p) # built[r][p]}

\* meta_for and dirty_paths: HEAD, the rules and the skipped files are asked
\* again now; the dirty paths come from the observation.
MetaFor(records, lost, inherited, o) ==
  [files   |-> records,
   disk    |-> "ready",
   head    |-> head,
   digest  |-> Digest(o.kinds),
   dirty   |-> {p \in Source : o.kinds[p] # {} /\ records[p] # Absent},
   skipped |-> {p \in Source : /\ o.kinds[p] \ {"Deleted"} # {}
                               /\ records[p] = Absent
                               /\ p \notin lost
                               /\ work[p] # Absent},
   gone    |-> {p \in Source : /\ records[p] = Absent
                               /\ "Deleted" \in o.kinds[p] \/ p \in inherited}]

----------------------------------------------------------------------------
(* The steps of one run.                                                   *)

\* observe_state begins: HEAD and the index file are read, the scan is to do.
BeginLook(r) ==
  /\ seen' = [seen EXCEPT ![r] = [head |-> head, index |-> indexStamp,
                                  kinds |-> NoKinds]]
  /\ todo' = [todo EXCEPT ![r] = Path]

\* A run ends and forgets everything; `held` says what becomes of the lock.
End(r, held) ==
  /\ pc' = [pc EXCEPT ![r] = "idle"]
  /\ mode' = [mode EXCEPT ![r] = "Full"]
  /\ loaded' = [loaded EXCEPT ![r] = NoSnapshot]
  /\ seen' = [seen EXCEPT ![r] = NoObservation]
  /\ believed' = [believed EXCEPT ![r] = NoObservation]
  /\ plan' = [plan EXCEPT ![r] = NoPlan]
  /\ todo' = [todo EXCEPT ![r] = {}]
  /\ built' = [built EXCEPT ![r] = NoRecords]
  /\ vanished' = [vanished EXCEPT ![r] = {}]
  /\ next' = [next EXCEPT ![r] = NoSnapshot]
  /\ locked' = held
  /\ UNCHANGED <<worldVars, snapshot>>

\* Mutation: a run that failed to take the lock removes it as well.
ReturnUnlocks(r) == End(r, FALSE)

\* Returning from prepare drops the guard, if the run has it.
Return(r) == End(r, IF pc[r] \in Holding THEN FALSE ELSE locked)

\* prepare: load the published snapshot, start the first observation.
Start(r) ==
  /\ pc[r] = "idle"
  /\ \E m \in Mode : mode' = [mode EXCEPT ![r] = m]
  /\ loaded' = [loaded EXCEPT ![r] = snapshot]
  /\ BeginLook(r)
  /\ pc' = [pc EXCEPT ![r] = "look"]
  /\ UNCHANGED <<worldVars, snapshot, locked, believed, plan, built, vanished, next>>

\* One path of a status scan.
Scan(r, p) ==
  /\ pc[r] \in {"look", "relook", "confirm"}
  /\ p \in todo[r]
  /\ seen' = [seen EXCEPT ![r].kinds[p] = Status(p)]
  /\ todo' = [todo EXCEPT ![r] = @ \ {p}]
  /\ UNCHANGED <<worldVars, snapshot, locked, pc, mode, loaded, believed, plan,
                 built, vanished, next>>

\* The unlocked decision finds nothing to do.
UpToDate(r) ==
  /\ pc[r] = "look"
  /\ todo[r] = {}
  /\ IsNoOp(loaded[r], seen[r], PlanFor(mode[r], loaded[r], seen[r]))
  /\ Return(r)

\* Nothing to build, but the text artifacts do not match the snapshot.
TextStale(r) ==
  /\ pc[r] = "look"
  /\ todo[r] = {}
  /\ IsNoOp(loaded[r], seen[r], PlanFor(mode[r], loaded[r], seen[r]))
  /\ pc' = [pc EXCEPT ![r] = "stale"]
  /\ UNCHANGED <<worldVars, snapshot, locked, mode, loaded, seen, believed, plan,
                 todo, built, vanished, next>>

\* Mutation: writes the text of the snapshot loaded before the guard.
HoldUnread(r) ==
  /\ pc[r] = "stale"
  /\ ~locked
  /\ snapshot.disk = "ready"
  /\ locked' = TRUE
  /\ next' = [next EXCEPT ![r] = loaded[r]]
  /\ pc' = [pc EXCEPT ![r] = "published"]
  /\ UNCHANGED <<worldVars, snapshot, mode, loaded, seen, believed, plan, todo,
                 built, vanished>>

\* hold: the guard, and whatever snapshot is published by now.
Hold(r) ==
  /\ pc[r] = "stale"
  /\ ~locked
  /\ snapshot.disk = "ready"
  /\ locked' = TRUE
  /\ next' = [next EXCEPT ![r] = snapshot]
  /\ pc' = [pc EXCEPT ![r] = "published"]
  /\ UNCHANGED <<worldVars, snapshot, mode, loaded, seen, believed, plan, todo,
                 built, vanished>>

\* hold fails on the lock, or finds no snapshot and lets go of the guard.
HoldNothing(r) ==
  /\ pc[r] = "stale"
  /\ locked \/ snapshot.disk # "ready"
  /\ Return(r)

\* The unlocked decision finds work: the guard is next.
Decide(r) ==
  /\ pc[r] = "look"
  /\ todo[r] = {}
  /\ ~IsNoOp(loaded[r], seen[r], PlanFor(mode[r], loaded[r], seen[r]))
  /\ pc' = [pc EXCEPT ![r] = "acquire"]
  /\ seen' = [seen EXCEPT ![r] = NoObservation]
  /\ UNCHANGED <<worldVars, snapshot, locked, mode, loaded, believed, plan,
                 todo, built, vanished, next>>

\* RepositoryWriteGuard::acquire, then the second observation begins.
Acquire(r) ==
  /\ pc[r] = "acquire"
  /\ ~locked
  /\ locked' = TRUE
  /\ BeginLook(r)
  /\ pc' = [pc EXCEPT ![r] = "relook"]
  /\ UNCHANGED <<worldVars, snapshot, mode, loaded, believed, plan, built,
                 vanished, next>>

\* Error::PublicationLocked: the run fails at once.
Locked(r) ==
  /\ pc[r] = "acquire"
  /\ locked
  /\ Return(r)

\* The plan made under the guard, against the snapshot loaded before it.  An
\* empty delta keeps every record and goes straight to the metadata.
Replan(r) ==
  /\ pc[r] = "relook"
  /\ todo[r] = {}
  /\ believed' = [believed EXCEPT ![r] = seen[r]]
  /\ plan' = [plan EXCEPT ![r] = PlanFor(mode[r], loaded[r], seen[r])]
  /\ IF EmptyDelta(PlanFor(mode[r], loaded[r], seen[r]))
     THEN /\ pc' = [pc EXCEPT ![r] = "build"]
          /\ built' = [built EXCEPT ![r] = loaded[r].files]
     ELSE /\ pc' = [pc EXCEPT ![r] = "walk"]
          /\ UNCHANGED built
  /\ UNCHANGED <<worldVars, snapshot, locked, mode, loaded, seen, todo,
                 vanished, next>>

\* discover: which files there are, at one instant.
Walk(r) ==
  /\ pc[r] = "walk"
  /\ todo' = [todo EXCEPT ![r] = {p \in Source : Collected(p)}]
  /\ pc' = [pc EXCEPT ![r] = "build"]
  /\ UNCHANGED <<worldVars, snapshot, locked, mode, loaded, seen, believed, plan,
                 built, vanished, next>>

\* Worker::retain with a warm fact cache: the old record, nothing read.
Retain(r, p) ==
  /\ pc[r] = "build"
  /\ p \in todo[r]
  /\ Retained(plan[r], loaded[r], p) # Absent
  /\ built' = [built EXCEPT ![r][p] = Retained(plan[r], loaded[r], p)]
  /\ todo' = [todo EXCEPT ![r] = @ \ {p}]
  /\ UNCHANGED <<worldVars, snapshot, locked, pc, mode, loaded, seen, believed,
                 plan, vanished, next>>

\* Worker::process, also what retain falls back to when the cache has no
\* facts: the file is read as it is now, unless it vanished.
Process(r, p) ==
  /\ pc[r] = "build"
  /\ p \in todo[r]
  /\ IF work[p] = Absent
     THEN /\ vanished' = [vanished EXCEPT ![r] = @ \cup {p}]
          /\ UNCHANGED built
     ELSE /\ built' = [built EXCEPT ![r][p] = work[p]]
          /\ UNCHANGED vanished
  /\ todo' = [todo EXCEPT ![r] = @ \ {p}]
  /\ UNCHANGED <<worldVars, snapshot, locked, pc, mode, loaded, seen, believed,
                 plan, next>>

\* assemble (or the republication of an empty delta): the metadata is made,
\* the envelope encoded, and confirm_unchanged starts the third observation.
Assemble(r) ==
  /\ pc[r] = "build"
  /\ todo[r] = {}
  /\ next' = [next EXCEPT ![r] = MetaFor(built[r], vanished[r],
         IF EmptyDelta(plan[r]) THEN loaded[r].gone ELSE {}, believed[r])]
  /\ BeginLook(r)
  /\ pc' = [pc EXCEPT ![r] = "confirm"]
  /\ UNCHANGED <<worldVars, snapshot, locked, mode, loaded, believed, plan, built,
                 vanished>>

\* Mutation: compares the rules and not the observations.
UnchangedRules(r) == Digest(seen[r].kinds) = plan[r].digest

Unchanged(r) ==
  /\ seen[r] = believed[r]
  /\ Digest(seen[r].kinds) = plan[r].digest

\* Mutation: confirms the observation and none of the content.
ConfirmUnread(r) ==
  /\ pc[r] = "confirm"
  /\ todo[r] = {}
  /\ Unchanged(r)
  /\ pc' = [pc EXCEPT ![r] = "verify"]
  /\ UNCHANGED <<worldVars, snapshot, locked, mode, loaded, seen, believed, plan,
                 todo, built, vanished, next>>

\* confirm_unchanged passes; confirm_content has its list.
Confirm(r) ==
  /\ pc[r] = "confirm"
  /\ todo[r] = {}
  /\ Unchanged(r)
  /\ todo' = [todo EXCEPT ![r] = Acquired(r)]
  /\ pc' = [pc EXCEPT ![r] = "verify"]
  /\ UNCHANGED <<worldVars, snapshot, locked, mode, loaded, seen, believed, plan,
                 built, vanished, next>>

\* confirm_unchanged fails: Error::RepositoryChanged.
Moved(r) ==
  /\ pc[r] = "confirm"
  /\ todo[r] = {}
  /\ ~Unchanged(r)
  /\ Return(r)

\* confirm_content on one path: still the bytes that were read.
Reread(r, p) ==
  /\ pc[r] = "verify"
  /\ p \in todo[r]
  /\ work[p] = built[r][p]
  /\ todo' = [todo EXCEPT ![r] = @ \ {p}]
  /\ UNCHANGED <<worldVars, snapshot, locked, pc, mode, loaded, seen, believed,
                 plan, built, vanished, next>>

\* confirm_content on one path: other bytes, or none.
Differs(r, p) ==
  /\ pc[r] = "verify"
  /\ p \in todo[r]
  /\ work[p] # built[r][p]
  /\ Return(r)

\* prepare has returned Prepared.
Prepared(r) == pc[r] = "verify" /\ todo[r] = {}

\* PreparedRefresh::publish: an atomic replacement under the guard.
Publish(r) ==
  /\ Prepared(r)
  /\ snapshot' = next[r]
  /\ pc' = [pc EXCEPT ![r] = "published"]
  /\ UNCHANGED <<worldVars, locked, mode, loaded, seen, believed, plan, todo, built,
                 vanished, next>>

\* The text artifacts conflict: the prepared snapshot is dropped unpublished.
Refuse(r) == Prepared(r) /\ Return(r)

\* PreparedRefresh::finish, after the text artifacts are written.
Finish(r) == pc[r] = "published" /\ Return(r)

\* check_cancelled, and the cancellation polls inside an observation.
Cancel(r) ==
  /\ pc[r] \in {"look", "relook", "walk", "build", "confirm", "verify"}
  /\ Return(r)

\* Mutation: the signal handler removes the lock file whoever made it.
DieUnlocks(r) == pc[r] # "idle" /\ End(r, FALSE)

\* A terminating signal the handler sees: release_and_die removes the lock.
Die(r) == pc[r] # "idle" /\ Return(r)

\* SIGKILL: no handler, no destructor.  The lock file stays.
KillHard(r) == pc[r] # "idle" /\ End(r, locked)

Step(r) ==
  \/ UpToDate(r) \/ TextStale(r) \/ Hold(r) \/ HoldNothing(r)
  \/ Decide(r) \/ Acquire(r) \/ Locked(r) \/ Replan(r) \/ Walk(r)
  \/ Assemble(r) \/ Confirm(r) \/ Moved(r) \/ Publish(r) \/ Finish(r)
  \/ \E p \in Path : Scan(r, p)
  \/ \E p \in Source : Retain(r, p) \/ Process(r, p) \/ Reread(r, p) \/ Differs(r, p)

Interrupt(r) == Refuse(r) \/ Cancel(r) \/ Die(r) \/ KillHard(r)

----------------------------------------------------------------------------
(* The world around the runs.                                              *)

\* A file that comes back, or rules that revert, while a run relies on the
\* tree holding still; and rules that change in the middle of the observation
\* a plan is made from, which says "clean" of what they hid a moment ago.
Flicker(p) ==
  \E r \in Runner :
    \/ pc[r] \in MidBuild /\ work[p] = Absent
    \/ pc[r] \in MidBuild /\ p = RuleFile /\ work'[p] = index[p]
    \/ pc[r] = "relook" /\ p = RuleFile

\* HEAD goes back to the commit a build under way has observed.
HeadReturns(c) ==
  \E r \in Runner : pc[r] \in MidBuild /\ c \in {seen[r].head, believed[r].head}

\* The repository changes, with no flicker but at the paths that may.
Change ==
  /\ \/ \E p \in Path : (Save(p) \/ Delete(p)) /\ (Flicker(p) => p \in Flickers)
     \/ \E p \in Path : Stage(p)
     \/ Commit
     \/ \E c \in 0..Len(commits) : MoveHead(c) /\ ~HeadReturns(c)
  /\ UNCHANGED <<snapshot, locked, runVars>>

\* The published file is deleted, damaged, or of another version.
LoseSnapshot ==
  /\ Changing
  /\ snapshot.disk = "ready"
  /\ snapshot' \in {NoSnapshot, DamagedSnapshot}
  /\ UNCHANGED <<commits, head, index, indexStamp, work, newest, locked, runVars>>

\* Somebody deletes a lock file no live run owns.
RemoveStaleLock ==
  /\ locked
  /\ \A r \in Runner : pc[r] \notin Holding
  /\ locked' = FALSE
  /\ UNCHANGED <<worldVars, snapshot, runVars>>

RunInit ==
  /\ snapshot = NoSnapshot
  /\ locked = FALSE
  /\ pc = [r \in Runner |-> "idle"]
  /\ mode = [r \in Runner |-> "Full"]
  /\ loaded = [r \in Runner |-> NoSnapshot]
  /\ seen = [r \in Runner |-> NoObservation]
  /\ believed = [r \in Runner |-> NoObservation]
  /\ plan = [r \in Runner |-> NoPlan]
  /\ todo = [r \in Runner |-> {}]
  /\ built = [r \in Runner |-> NoRecords]
  /\ vanished = [r \in Runner |-> {}]
  /\ next = [r \in Runner |-> NoSnapshot]

RefreshInit == Init /\ RunInit

RefreshNext ==
  \/ \E r \in Runner : Start(r) \/ Step(r) \/ Interrupt(r)
  \/ Change
  \/ LoseSnapshot
  \/ RemoveStaleLock

Spec == RefreshInit /\ [][RefreshNext]_vars

----------------------------------------------------------------------------
(* Properties.                                                             *)

TypeOK ==
  /\ WorldType
  /\ snapshot \in Snapshots
  /\ locked \in BOOLEAN
  /\ pc \in [Runner -> PC]
  /\ mode \in [Runner -> Mode]
  /\ loaded \in [Runner -> Snapshots]
  /\ seen \in [Runner -> Observations]
  /\ believed \in [Runner -> Observations]
  /\ plan \in [Runner -> Plans]
  /\ todo \in [Runner -> SUBSET Path]
  /\ built \in [Runner -> Records]
  /\ vanished \in [Runner -> SUBSET Source]
  /\ next \in [Runner -> Snapshots]

\* The guard is exclusive, and while a run holds it the lock file exists:
\* the claim survives every crash, cleanup and stale-lock removal of others.
GuardExclusive ==
  /\ \A r, q \in Runner : pc[r] \in Holding /\ pc[q] \in Holding => r = q
  /\ (\E r \in Runner : pc[r] \in Holding) => locked

\* refresh.rs:61, text is written "under the guard that published the snapshot"
\* it describes: "two locks would let a second run publish between them".
\* While a run writes text, the published snapshot is the one it writes of,
\* unless the file was lost.
TextDescribesPublished ==
  \A r \in Runner :
    pc[r] = "published" => next[r] = snapshot \/ snapshot.disk # "ready"

\* What a status of this very moment would observe.
Now == [head |-> head, index |-> indexStamp, kinds |-> [p \in Path |-> Status(p)]]

\* Whether the planner, asked now about s, would leave no stale record
\* behind: every source it does not touch is recorded as a rebuild would.
Trustworthy(s) ==
  LET pl == PlanFor("Incremental", s, Now)
  IN  pl.mode = "Incremental" =>
        \A p \in Source \ pl.touched :
          \/ s.files[p] = Rebuilt(p)
          \/ s.files[p] = Absent /\ p \in s.gone

\* refresh.rs: "a wrong answer is never among the outcomes".  At every
\* moment, whatever happened since it was published, the snapshot on disk
\* and every snapshot a run is working from can be brought up to date.
SnapshotTrustworthy ==
  /\ Trustworthy(snapshot)
  /\ \A r \in Runner : Trustworthy(loaded[r])

\* plan.rs: it "grants a moved HEAD exactly the trust an unmoved one already
\* had".  A snapshot a query accepts across commits is right about every
\* source the working tree leaves as HEAD has it, under the rules of the
\* build; what was dirty when it was built is status's business.
MovedHeadTrusted ==
  /\ snapshot.disk = "ready"
  /\ CommitsLeftIndexTrue(snapshot, head)
  /\ snapshot.digest = Digest(Now.kinds)
  => \A p \in Source \ snapshot.dirty :
       Status(p) = {} =>
         \/ snapshot.files[p] = Rebuilt(p)
         \/ snapshot.files[p] = Absent /\ p \in snapshot.gone

\* index/mod.rs:123, "a path that was dirty then and is not dirty now must be
\* reconsidered, whatever the current delta happens to contain"; and the
\* oracle of tests/differential.rs: an incremental result and a full rebuild
\* must never disagree.  With nothing to do, the snapshot is a full rebuild.
NothingToDoIsTrue ==
  EmptyDelta(PlanFor("Incremental", snapshot, Now)) =>
    \A p \in Source : snapshot.files[p] = Rebuilt(p)

\* status.rs:4: "`fresh` means precisely `a refresh right now would take the
\* no-op path`".  The label is Fresh when the plan is an empty delta.
FreshMeansNoOp ==
  EmptyDelta(PlanFor("Incremental", snapshot, Now)) =>
    IsNoOp(snapshot, Now, PlanFor("Incremental", snapshot, Now))
=============================================================================
