---------------------------- MODULE RefreshProofs ----------------------------
(***************************************************************************)
(* Proofs about Refresh, for any number of runs, sources, versions and     *)
(* changes.  First what one refresh does: its state keeps its type, the    *)
(* publication guard excludes, text is written of the snapshot that is     *)
(* published, and what happens to the published file is what the abstract  *)
(* Publication allows.  Then what a snapshot may be believed to say:       *)
(* however runs, crashes and people interleave, the planner brings every   *)
(* snapshot it trusts up to date, and so does a query that follows HEAD.   *)
(*                                                                         *)
(* The second argument rests on one observation about bytes.  A version    *)
(* that is neither in the working tree nor in the index never comes back,  *)
(* so what a snapshot says of a path is either true whenever the path      *)
(* looks clean, or the path can never look clean again.  What prepare      *)
(* hands over rests on the same, with a witness of what the disk and the   *)
(* rules have shown.                                                       *)
(***************************************************************************)
EXTENDS RefreshWitness, RefreshPublication, TLAPS

----------------------------------------------------------------------------
(* The operators of the planner return what their names say.               *)

\* A status names kinds of change.
LEMMA StatusType == \A p \in Path : Status(p) \in SUBSET Kind
  BY DEF Status, TreeIndex, IndexWorktree

\* The digest of a configuration is a number.
LEMMA DigestType ==
  ASSUME TypeOK, NEW kinds
  PROVE  Digest(kinds) \in Nat
<1>1. work[RuleFile] \in Nat
  BY BoundAssumption DEF TypeOK, WorldType, Tree, Path, Version
<1> QED
  BY <1>1 DEF Digest

\* What a plan touches and vouches for are sources.
LEMMA PlanType ==
  ASSUME TypeOK, NEW m \in Mode, NEW s, NEW o
  PROVE  PlanFor(m, s, o) \in Plans
<1>1. Digest(o.kinds) \in Nat
  BY DigestType
<1>2. Touched(s, o) \in SUBSET Source /\ Vouched(s, o) \in SUBSET Source
  BY DEF Touched, Vouched
<1> QED
  BY <1>1, <1>2 DEF PlanFor, Plans, Mode

\* The metadata made for typed records is typed.
LEMMA MetaType ==
  ASSUME TypeOK, NEW records \in Records, NEW lost, NEW inherited, NEW o
  PROVE  MetaFor(records, lost, inherited, o) \in Snapshots
<1>1. Digest(o.kinds) \in Nat
  BY DigestType
<1>2. head \in Nat
  BY DEF TypeOK, WorldType
<1> QED
  BY <1>1, <1>2 DEF MetaFor, Snapshots

\* What a plan lets a build retain is a version.
LEMMA RetainedType ==
  ASSUME NEW s \in Snapshots, NEW pl, NEW p \in Source
  PROVE  Retained(pl, s, p) \in Version
<1>1. s.files[p] \in Version
  BY DEF Snapshots, Records
<1>2. Absent \in Version
  BY BoundAssumption DEF Absent, Version
<1> QED
  BY <1>1, <1>2 DEF Retained

\* The values a run has before it starts are typed.
LEMMA NothingType ==
  /\ NoRecords \in Records
  /\ NoSnapshot \in Snapshots
  /\ DamagedSnapshot \in Snapshots
  /\ NoObservation \in Observations
  /\ NoPlan \in Plans
<1>1. Absent \in Version
  BY BoundAssumption DEF Absent, Version
<1>2. NoRecords \in Records
  BY <1>1 DEF NoRecords, Records
<1>3. NoSnapshot \in Snapshots
  BY <1>2 DEF NoSnapshot, Snapshots, Unborn
<1>4. DamagedSnapshot \in Snapshots
  BY <1>3 DEF DamagedSnapshot, Snapshots
<1>5. NoObservation \in Observations
  BY DEF NoObservation, NoKinds, Observations, Unborn
<1>6. NoPlan \in Plans
  BY DEF NoPlan, Plans, Mode
<1> QED
  BY <1>2, <1>3, <1>4, <1>5, <1>6

----------------------------------------------------------------------------
(* Type correctness.                                                       *)

\* The initial states are typed.
LEMMA InitTypeOK == RefreshInit => TypeOK
<1> SUFFICES ASSUME RefreshInit PROVE TypeOK
  OBVIOUS
<1>1. WorldType
  <2>1. PICK tree \in InitialTrees :
          commits = <<tree>> /\ index = tree /\ work = tree /\ newest = tree
    BY DEF RefreshInit, Init
  <2>2. tree \in Tree
    BY TreeAssumption
  <2>3. commits \in Seq(Tree) /\ Len(commits) = 1
    BY <2>1, <2>2
  <2>4. head = 1 /\ indexStamp = 0 /\ changes = 0
    BY DEF RefreshInit, Init
  <2> QED
    BY <2>1, <2>2, <2>3, <2>4, BoundAssumption DEF WorldType
<1>2. /\ snapshot \in Snapshots
      /\ loaded \in [Runner -> Snapshots]
      /\ next \in [Runner -> Snapshots]
  BY NothingType DEF RefreshInit, RunInit
<1>3. /\ seen \in [Runner -> Observations]
      /\ believed \in [Runner -> Observations]
  BY NothingType DEF RefreshInit, RunInit
<1>4. /\ plan \in [Runner -> Plans]
      /\ built \in [Runner -> Records]
  BY NothingType DEF RefreshInit, RunInit
<1>5. /\ locked \in BOOLEAN
      /\ pc \in [Runner -> PC]
      /\ mode \in [Runner -> Mode]
      /\ todo \in [Runner -> SUBSET Path]
      /\ vanished \in [Runner -> SUBSET Source]
  BY DEF RefreshInit, RunInit, PC, Mode
<1> QED
  BY <1>1, <1>2, <1>3, <1>4, <1>5 DEF TypeOK

\* A run that ends, however it ends and whatever becomes of the lock.
LEMMA EndTypeOK ==
  ASSUME TypeOK, NEW r \in Runner, NEW held \in BOOLEAN, End(r, held)
  PROVE  TypeOK'
<1>1. WorldType'
  BY DEF TypeOK, WorldType, End, worldVars
<1>2. /\ snapshot' \in Snapshots
      /\ loaded' \in [Runner -> Snapshots]
      /\ next' \in [Runner -> Snapshots]
  BY NothingType DEF TypeOK, End
<1>3. /\ seen' \in [Runner -> Observations]
      /\ believed' \in [Runner -> Observations]
  BY NothingType DEF TypeOK, End
<1>4. /\ plan' \in [Runner -> Plans]
      /\ built' \in [Runner -> Records]
  BY NothingType DEF TypeOK, End
<1>5. /\ locked' \in BOOLEAN
      /\ pc' \in [Runner -> PC]
      /\ mode' \in [Runner -> Mode]
      /\ todo' \in [Runner -> SUBSET Path]
      /\ vanished' \in [Runner -> SUBSET Source]
  BY DEF TypeOK, End, PC, Mode
<1> QED
  BY <1>1, <1>2, <1>3, <1>4, <1>5 DEF TypeOK

\* A run that returns from prepare.
LEMMA ReturnTypeOK ==
  ASSUME TypeOK, NEW r \in Runner, Return(r)
  PROVE  TypeOK'
<1>1. (IF pc[r] \in Holding THEN FALSE ELSE locked) \in BOOLEAN
  BY DEF TypeOK
<1> QED
  BY <1>1, EndTypeOK DEF Return

\* The first reads of an observation, and the paths left to scan.
LEMMA LookType ==
  ASSUME TypeOK, NEW r \in Runner, BeginLook(r)
  PROVE  seen' \in [Runner -> Observations] /\ todo' \in [Runner -> SUBSET Path]
<1>1. [head |-> head, index |-> indexStamp, kinds |-> NoKinds] \in Observations
  BY DEF TypeOK, WorldType, Observations, NoKinds
<1> QED
  BY <1>1 DEF TypeOK, BeginLook

\* Every change somebody makes to the repository.
LEMMA ChangeTypeOK ==
  ASSUME TypeOK, Change
  PROVE  TypeOK'
<1>1. WorldType'
  <2> USE BoundAssumption DEF TypeOK, WorldType, Changing
  <2>1. CASE \E p \in Path : Save(p) \/ Delete(p)
    <3>1. PICK p \in Path : Save(p) \/ Delete(p)
      BY <2>1
    <3>2. CASE Save(p)
      <4>1. newest[p] \in Version /\ index[p] \in Version
        BY DEF Tree
      <4>2. CASE newest[p] < MaxVersion /\ newest' = [newest EXCEPT ![p] = @ + 1]
                   /\ work' = [work EXCEPT ![p] = newest[p] + 1]
        <5>1. newest[p] + 1 \in Version
          BY <4>1, <4>2 DEF Version
        <5> QED
          BY <3>2, <4>2, <5>1 DEF Save, Tree
      <4>3. CASE work' = [work EXCEPT ![p] = index[p]] /\ UNCHANGED newest
        BY <3>2, <4>1, <4>3 DEF Save, Tree
      <4> QED
        BY <3>2, <4>2, <4>3 DEF Save
    <3>3. CASE Delete(p)
      <4>1. Absent \in Version
        BY DEF Absent, Version
      <4> QED
        BY <3>3, <4>1 DEF Delete, Tree
    <3> QED
      BY <3>1, <3>2, <3>3
  <2>2. CASE \E p \in Path : Stage(p)
    <3>1. PICK p \in Path : Stage(p)
      BY <2>2
    <3>2. work[p] \in Version
      BY DEF Tree
    <3> QED
      BY <3>1, <3>2 DEF Stage, Tree
  <2>3. CASE Commit
    <3>1. commits' \in Seq(Tree) /\ Len(commits') = Len(commits) + 1
      BY <2>3 DEF Commit
    <3> QED
      BY <2>3, <3>1 DEF Commit
  <2>4. CASE \E c \in 0..Len(commits) : MoveHead(c)
    BY <2>4 DEF MoveHead
  <2> QED
    BY <2>1, <2>2, <2>3, <2>4 DEF Change
<1>2. UNCHANGED <<snapshot, locked, runVars>>
  BY DEF Change
<1> QED
  BY <1>1, <1>2 DEF TypeOK, runVars

\* Every step of the specification keeps the types.
LEMMA NextTypeOK == TypeOK /\ [RefreshNext]_vars => TypeOK'
<1> SUFFICES ASSUME TypeOK, [RefreshNext]_vars PROVE TypeOK'
  OBVIOUS
<1>1. ASSUME NEW r \in Runner, Start(r) PROVE TypeOK'
  <2>1. seen' \in [Runner -> Observations] /\ todo' \in [Runner -> SUBSET Path]
    BY <1>1, LookType DEF Start
  <2>2. /\ pc' \in [Runner -> PC]
        /\ mode' \in [Runner -> Mode]
        /\ loaded' \in [Runner -> Snapshots]
    BY <1>1 DEF Start, TypeOK, PC
  <2> QED
    BY <1>1, <2>1, <2>2 DEF Start, TypeOK, WorldType, worldVars
<1>2. ASSUME NEW r \in Runner, NEW p \in Path, Scan(r, p) PROVE TypeOK'
  <2>1. seen' \in [Runner -> Observations]
    <3>1. Status(p) \in SUBSET Kind
      BY StatusType
    <3>2. seen[r] \in Observations /\ seen[r].kinds \in [Path -> SUBSET Kind]
      BY DEF TypeOK, Observations
    <3>3. [seen[r].kinds EXCEPT ![p] = Status(p)] \in [Path -> SUBSET Kind]
      BY <3>1, <3>2
    <3>4. [seen[r] EXCEPT !.kinds = [seen[r].kinds EXCEPT ![p] = Status(p)]]
            \in Observations
      BY <3>2, <3>3 DEF Observations
    <3>5. seen' = [seen EXCEPT ![r] = [seen[r] EXCEPT !.kinds =
                     [seen[r].kinds EXCEPT ![p] = Status(p)]]]
      BY <1>2, Zenon DEF Scan
    <3> QED
      BY <3>4, <3>5 DEF TypeOK
  <2>2. todo' \in [Runner -> SUBSET Path]
    BY <1>2 DEF Scan, TypeOK
  <2> QED
    BY <1>2, <2>1, <2>2 DEF Scan, TypeOK, WorldType, worldVars
<1>3. ASSUME NEW r \in Runner, UpToDate(r) PROVE TypeOK'
  BY <1>3, ReturnTypeOK DEF UpToDate
<1>4. ASSUME NEW r \in Runner, Decide(r) PROVE TypeOK'
  <2>1. pc' \in [Runner -> PC] /\ seen' \in [Runner -> Observations]
    BY <1>4, NothingType DEF Decide, TypeOK, PC
  <2> QED
    BY <1>4, <2>1 DEF Decide, TypeOK, WorldType, worldVars
<1>5. ASSUME NEW r \in Runner, Acquire(r) PROVE TypeOK'
  <2>1. seen' \in [Runner -> Observations] /\ todo' \in [Runner -> SUBSET Path]
    BY <1>5, LookType DEF Acquire
  <2>2. pc' \in [Runner -> PC] /\ locked' \in BOOLEAN
    BY <1>5 DEF Acquire, TypeOK, PC
  <2> QED
    BY <1>5, <2>1, <2>2 DEF Acquire, TypeOK, WorldType, worldVars
<1>6. ASSUME NEW r \in Runner, Locked(r) PROVE TypeOK'
  BY <1>6, ReturnTypeOK DEF Locked
<1>7. ASSUME NEW r \in Runner, Replan(r) PROVE TypeOK'
  <2>1. plan' \in [Runner -> Plans]
    <3>1. PlanFor(mode[r], loaded[r], seen[r]) \in Plans
      BY PlanType DEF TypeOK
    <3> QED
      BY <1>7, <3>1 DEF Replan, TypeOK
  <2>2. built' \in [Runner -> Records] /\ pc' \in [Runner -> PC]
    <3>1. loaded[r].files \in Records
      BY DEF TypeOK, Snapshots
    <3> QED
      BY <1>7, <3>1 DEF Replan, TypeOK, PC
  <2>3. believed' \in [Runner -> Observations]
    BY <1>7 DEF Replan, TypeOK
  <2> QED
    BY <1>7, <2>1, <2>2, <2>3 DEF Replan, TypeOK, WorldType, worldVars
<1>8. ASSUME NEW r \in Runner, Walk(r) PROVE TypeOK'
  <2>1. {p \in Source : Collected(p)} \in SUBSET Path
    BY DEF Path
  <2>2. todo' \in [Runner -> SUBSET Path] /\ pc' \in [Runner -> PC]
    BY <1>8, <2>1 DEF Walk, TypeOK, PC
  <2> QED
    BY <1>8, <2>2 DEF Walk, TypeOK, WorldType, worldVars
<1>9. ASSUME NEW r \in Runner, NEW p \in Source, Retain(r, p) PROVE TypeOK'
  <2>1. Retained(plan[r], loaded[r], p) \in Version
    BY RetainedType DEF TypeOK
  <2>2. built' \in [Runner -> Records] /\ todo' \in [Runner -> SUBSET Path]
    BY <1>9, <2>1 DEF Retain, TypeOK, Records
  <2> QED
    BY <1>9, <2>2 DEF Retain, TypeOK, WorldType, worldVars
<1>10. ASSUME NEW r \in Runner, NEW p \in Source, Process(r, p) PROVE TypeOK'
  <2>1. work[p] \in Version
    BY DEF TypeOK, WorldType, Tree, Path
  <2>2. built' \in [Runner -> Records] /\ vanished' \in [Runner -> SUBSET Source]
    <3>1. CASE work[p] = Absent
      BY <1>10, <3>1 DEF Process, TypeOK
    <3>2. CASE work[p] # Absent
      <4>1. [built[r] EXCEPT ![p] = work[p]] \in Records
        BY <2>1 DEF TypeOK, Records
      <4>2. /\ built' = [built EXCEPT ![r] = [built[r] EXCEPT ![p] = work[p]]]
            /\ UNCHANGED vanished
        BY <1>10, <3>2 DEF Process
      <4> QED
        BY <4>1, <4>2 DEF TypeOK
    <3> QED
      BY <3>1, <3>2
  <2>3. todo' \in [Runner -> SUBSET Path]
    BY <1>10 DEF Process, TypeOK
  <2> QED
    BY <1>10, <2>2, <2>3 DEF Process, TypeOK, WorldType, worldVars
<1>11. ASSUME NEW r \in Runner, Assemble(r) PROVE TypeOK'
  <2>1. seen' \in [Runner -> Observations] /\ todo' \in [Runner -> SUBSET Path]
    BY <1>11, LookType DEF Assemble
  <2>2. next' \in [Runner -> Snapshots]
    <3>1. built[r] \in Records
      BY DEF TypeOK
    <3>2. MetaFor(built[r], vanished[r],
            IF EmptyDelta(plan[r]) THEN loaded[r].gone ELSE {}, believed[r])
              \in Snapshots
      BY <3>1, MetaType
    <3> QED
      BY <1>11, <3>2 DEF Assemble, TypeOK
  <2>3. pc' \in [Runner -> PC]
    BY <1>11 DEF Assemble, TypeOK, PC
  <2> QED
    BY <1>11, <2>1, <2>2, <2>3 DEF Assemble, TypeOK, WorldType, worldVars
<1>12. ASSUME NEW r \in Runner, Confirm(r) PROVE TypeOK'
  <2>1. Acquired(r) \in SUBSET Path
    BY DEF Acquired, Path
  <2>2. todo' \in [Runner -> SUBSET Path] /\ pc' \in [Runner -> PC]
    BY <1>12, <2>1 DEF Confirm, TypeOK, PC
  <2> QED
    BY <1>12, <2>2 DEF Confirm, TypeOK, WorldType, worldVars
<1>13. ASSUME NEW r \in Runner, Moved(r) PROVE TypeOK'
  BY <1>13, ReturnTypeOK DEF Moved
<1>14. ASSUME NEW r \in Runner, NEW p \in Source, Reread(r, p) PROVE TypeOK'
  BY <1>14 DEF Reread, TypeOK, WorldType, worldVars
<1>15. ASSUME NEW r \in Runner, NEW p \in Source, Differs(r, p) PROVE TypeOK'
  BY <1>15, ReturnTypeOK DEF Differs
<1>16. ASSUME NEW r \in Runner, Publish(r) PROVE TypeOK'
  BY <1>16 DEF Publish, TypeOK, PC, WorldType, worldVars
<1>17. ASSUME NEW r \in Runner, Finish(r) PROVE TypeOK'
  BY <1>17, ReturnTypeOK DEF Finish
<1>18. ASSUME NEW r \in Runner, Interrupt(r) PROVE TypeOK'
  <2>1. locked \in BOOLEAN
    BY DEF TypeOK
  <2> QED
    BY <1>18, <2>1, ReturnTypeOK, EndTypeOK
       DEF Interrupt, Refuse, Cancel, Die, KillHard
<1>19. ASSUME Change PROVE TypeOK'
  BY <1>19, ChangeTypeOK
<1>20. ASSUME LoseSnapshot PROVE TypeOK'
  BY <1>20, NothingType, BoundAssumption
     DEF LoseSnapshot, Changing, TypeOK, WorldType, runVars
<1>21. ASSUME RemoveStaleLock PROVE TypeOK'
  BY <1>21 DEF RemoveStaleLock, TypeOK, WorldType, worldVars, runVars
<1>22. ASSUME NEW r \in Runner, TextStale(r) PROVE TypeOK'
  BY <1>22 DEF TextStale, TypeOK, PC, WorldType, worldVars
<1>23. ASSUME NEW r \in Runner, Hold(r) PROVE TypeOK'
  BY <1>23 DEF Hold, TypeOK, PC, WorldType, worldVars
<1>24. ASSUME NEW r \in Runner, HoldNothing(r) PROVE TypeOK'
  BY <1>24, ReturnTypeOK DEF HoldNothing
<1>25. ASSUME UNCHANGED vars PROVE TypeOK'
  BY <1>25 DEF vars, worldVars, runVars, TypeOK, WorldType
<1> QED
  BY <1>1, <1>2, <1>3, <1>4, <1>5, <1>6, <1>7, <1>8, <1>9, <1>10, <1>11, <1>12,
     <1>13, <1>14, <1>15, <1>16, <1>17, <1>18, <1>19, <1>20, <1>21, <1>22, <1>23,
     <1>24, <1>25
     DEF RefreshNext, Step

\* The state of the runs, of the snapshots and of the repository is always
\* of the type TypeOK states, whatever the interleaving.
THEOREM TypeCorrect == Spec => []TypeOK
<1> QED
  BY InitTypeOK, NextTypeOK, PTL DEF Spec

----------------------------------------------------------------------------
(* The publication guard.                                                  *)

\* Where runs are and what becomes of the lock is all that matters here: a
\* step that moves no run in or out of Holding, and leaves the lock, is safe.
LEMMA SameHolders ==
  ASSUME TypeOK, GuardExclusive, UNCHANGED locked,
         NEW r \in Runner, NEW to \in PC,
         pc' = [pc EXCEPT ![r] = to],
         to \in Holding <=> pc[r] \in Holding
  PROVE  GuardExclusive'
  BY DEF TypeOK, GuardExclusive

\* A run that takes a free lock becomes the only holder.
LEMMA TakeExclusive ==
  ASSUME TypeOK, GuardExclusive, NEW r \in Runner, NEW to,
         ~locked, locked' = TRUE, pc' = [pc EXCEPT ![r] = to]
  PROVE  GuardExclusive'
<1>1. \A q \in Runner : pc[q] \notin Holding
  BY DEF GuardExclusive
<1>2. \A q \in Runner : pc'[q] \in Holding => q = r
  BY <1>1 DEF TypeOK
<1> QED
  BY <1>2 DEF GuardExclusive

\* A run that ends leaves the guard to whoever has it.
LEMMA EndExclusive ==
  ASSUME TypeOK, GuardExclusive, NEW r \in Runner, NEW held,
         End(r, held), pc[r] \notin Holding => held = locked
  PROVE  GuardExclusive'
<1>1. pc' = [pc EXCEPT ![r] = "idle"] /\ locked' = held
  BY DEF End
<1>2. "idle" \notin Holding
  BY DEF Holding
<1>3. \A q \in Runner : pc'[q] \in Holding => q # r /\ pc[q] \in Holding
  BY <1>1, <1>2 DEF TypeOK
<1>4. CASE pc[r] \in Holding
  <2>1. \A q \in Runner : pc'[q] \notin Holding
    BY <1>3, <1>4 DEF GuardExclusive
  <2> QED
    BY <2>1 DEF GuardExclusive
<1>5. CASE pc[r] \notin Holding
  BY <1>1, <1>3, <1>5 DEF GuardExclusive
<1> QED
  BY <1>4, <1>5

\* A run that returns drops the guard if it is the holder.
LEMMA ReturnExclusive ==
  ASSUME TypeOK, GuardExclusive, NEW r \in Runner, Return(r)
  PROVE  GuardExclusive'
  BY EndExclusive DEF Return

\* The guard is exclusive at the start and every step leaves it so.
LEMMA NextExclusive ==
  TypeOK /\ GuardExclusive /\ [RefreshNext]_vars => GuardExclusive'
<1> SUFFICES ASSUME TypeOK, GuardExclusive, [RefreshNext]_vars
             PROVE  GuardExclusive'
  OBVIOUS
<1> USE DEF PC, Holding
<1>1. ASSUME NEW r \in Runner, Start(r) PROVE GuardExclusive'
  BY <1>1, SameHolders DEF Start
<1>2. ASSUME NEW r \in Runner, NEW p \in Path, Scan(r, p) PROVE GuardExclusive'
  BY <1>2 DEF Scan, GuardExclusive
<1>3. ASSUME NEW r \in Runner, UpToDate(r) PROVE GuardExclusive'
  BY <1>3, ReturnExclusive DEF UpToDate
<1>4. ASSUME NEW r \in Runner, Decide(r) PROVE GuardExclusive'
  BY <1>4, SameHolders DEF Decide
<1>5. ASSUME NEW r \in Runner, Acquire(r) PROVE GuardExclusive'
  BY <1>5, TakeExclusive DEF Acquire
<1>6. ASSUME NEW r \in Runner, Locked(r) PROVE GuardExclusive'
  BY <1>6, ReturnExclusive DEF Locked
<1>7. ASSUME NEW r \in Runner, Replan(r) PROVE GuardExclusive'
  <2>1. \/ pc' = [pc EXCEPT ![r] = "build"]
        \/ pc' = [pc EXCEPT ![r] = "walk"]
    BY <1>7 DEF Replan
  <2> QED
    BY <1>7, <2>1, SameHolders DEF Replan
<1>8. ASSUME NEW r \in Runner, Walk(r) PROVE GuardExclusive'
  BY <1>8, SameHolders DEF Walk
<1>9. ASSUME NEW r \in Runner, NEW p \in Source, Retain(r, p) PROVE GuardExclusive'
  BY <1>9 DEF Retain, GuardExclusive
<1>10. ASSUME NEW r \in Runner, NEW p \in Source, Process(r, p) PROVE GuardExclusive'
  BY <1>10 DEF Process, GuardExclusive
<1>11. ASSUME NEW r \in Runner, Assemble(r) PROVE GuardExclusive'
  BY <1>11, SameHolders DEF Assemble
<1>12. ASSUME NEW r \in Runner, Confirm(r) PROVE GuardExclusive'
  BY <1>12, SameHolders DEF Confirm
<1>13. ASSUME NEW r \in Runner, Moved(r) PROVE GuardExclusive'
  BY <1>13, ReturnExclusive DEF Moved
<1>14. ASSUME NEW r \in Runner, NEW p \in Source, Reread(r, p) PROVE GuardExclusive'
  BY <1>14 DEF Reread, GuardExclusive
<1>15. ASSUME NEW r \in Runner, NEW p \in Source, Differs(r, p) PROVE GuardExclusive'
  BY <1>15, ReturnExclusive DEF Differs
<1>16. ASSUME NEW r \in Runner, Publish(r) PROVE GuardExclusive'
  BY <1>16, SameHolders DEF Publish, Prepared
<1>17. ASSUME NEW r \in Runner, Finish(r) PROVE GuardExclusive'
  BY <1>17, ReturnExclusive DEF Finish
<1>18. ASSUME NEW r \in Runner, Interrupt(r) PROVE GuardExclusive'
  BY <1>18, ReturnExclusive, EndExclusive DEF Interrupt, Refuse, Cancel, Die, KillHard
<1>19. ASSUME Change PROVE GuardExclusive'
  BY <1>19 DEF Change, runVars, GuardExclusive
<1>20. ASSUME LoseSnapshot PROVE GuardExclusive'
  BY <1>20 DEF LoseSnapshot, runVars, GuardExclusive
<1>21. ASSUME RemoveStaleLock PROVE GuardExclusive'
  BY <1>21 DEF RemoveStaleLock, runVars, GuardExclusive
<1>22. ASSUME NEW r \in Runner, TextStale(r) PROVE GuardExclusive'
  BY <1>22, SameHolders DEF TextStale
<1>23. ASSUME NEW r \in Runner, Hold(r) PROVE GuardExclusive'
  BY <1>23, TakeExclusive DEF Hold
<1>24. ASSUME NEW r \in Runner, HoldNothing(r) PROVE GuardExclusive'
  BY <1>24, ReturnExclusive DEF HoldNothing
<1>25. ASSUME UNCHANGED vars PROVE GuardExclusive'
  BY <1>25 DEF vars, runVars, GuardExclusive
<1> QED
  BY <1>1, <1>2, <1>3, <1>4, <1>5, <1>6, <1>7, <1>8, <1>9, <1>10, <1>11, <1>12,
     <1>13, <1>14, <1>15, <1>16, <1>17, <1>18, <1>19, <1>20, <1>21, <1>22, <1>23,
     <1>24, <1>25
     DEF RefreshNext, Step

\* guard.rs: at most one run holds the publication guard, and while it does
\* the lock file is there, whatever cancels, dies or is killed meanwhile.
THEOREM GuardIsExclusive == Spec => []GuardExclusive
<1>1. RefreshInit => GuardExclusive
  BY DEF RefreshInit, RunInit, GuardExclusive, Holding
<1> QED
  BY <1>1, InitTypeOK, NextTypeOK, NextExclusive, PTL DEF Spec

----------------------------------------------------------------------------
(* The text artifacts and the snapshot they describe.                      *)

\* A step that leaves the snapshot, and that lets no run begin to write text.
LEMMA SameWriters ==
  ASSUME TextDescribesPublished, UNCHANGED snapshot,
         \A q \in Runner : pc'[q] = "published" =>
           pc[q] = "published" /\ next'[q] = next[q]
  PROVE  TextDescribesPublished'
  BY DEF TextDescribesPublished

\* A step of one run that leaves the snapshot and does not begin to write.
LEMMA OneMoves ==
  ASSUME TypeOK, TextDescribesPublished, UNCHANGED snapshot,
         NEW r \in Runner, NEW to, to # "published", pc' = [pc EXCEPT ![r] = to],
         \A q \in Runner \ {r} : next'[q] = next[q]
  PROVE  TextDescribesPublished'
<1>1. \A q \in Runner : pc'[q] = "published" => q # r /\ pc[q] = "published"
  BY DEF TypeOK
<1> QED
  BY <1>1, SameWriters

\* A run that ends.
LEMMA EndDescribes ==
  ASSUME TypeOK, TextDescribesPublished, NEW r \in Runner, NEW held, End(r, held)
  PROVE  TextDescribesPublished'
<1>1. \A q \in Runner \ {r} : next'[q] = next[q]
  BY DEF End, TypeOK
<1> QED
  BY <1>1, OneMoves DEF End

\* Publishing, losing the file and taking over a snapshot under the guard are
\* the steps that matter; exclusion is what keeps the others' text true.
LEMMA NextDescribes ==
  TypeOK /\ GuardExclusive /\ TextDescribesPublished /\ [RefreshNext]_vars
    => TextDescribesPublished'
<1> SUFFICES ASSUME TypeOK, GuardExclusive, TextDescribesPublished,
                    [RefreshNext]_vars
             PROVE  TextDescribesPublished'
  OBVIOUS
<1>1. ASSUME NEW r \in Runner, Publish(r) PROVE TextDescribesPublished'
  <2>1. pc[r] \in Holding
    BY <1>1 DEF Publish, Prepared, Holding
  <2>2. \A q \in Runner : pc[q] = "published" => q = r
    BY <2>1 DEF GuardExclusive, Holding
  <2>3. \A q \in Runner : pc'[q] = "published" => q = r
    BY <1>1, <2>2 DEF Publish, TypeOK
  <2> QED
    BY <1>1, <2>3 DEF Publish, TextDescribesPublished
<1>2. ASSUME NEW r \in Runner, Hold(r) PROVE TextDescribesPublished'
  <2>1. next'[r] = snapshot' /\ \A q \in Runner \ {r} : next'[q] = next[q]
    BY <1>2 DEF Hold, TypeOK
  <2>2. \A q \in Runner \ {r} : pc'[q] = pc[q]
    BY <1>2 DEF Hold, TypeOK
  <2>3. UNCHANGED snapshot
    BY <1>2 DEF Hold
  <2> QED
    BY <2>1, <2>2, <2>3 DEF TextDescribesPublished
<1>3. ASSUME LoseSnapshot PROVE TextDescribesPublished'
  BY <1>3 DEF LoseSnapshot, NoSnapshot, DamagedSnapshot, TextDescribesPublished
<1>4. ASSUME NEW r \in Runner, NEW held, End(r, held) PROVE TextDescribesPublished'
  BY <1>4, EndDescribes
<1>5. ASSUME NEW r \in Runner,
             \/ UpToDate(r) \/ HoldNothing(r) \/ Locked(r) \/ Moved(r) \/ Finish(r)
             \/ Interrupt(r) \/ \E p \in Source : Differs(r, p)
      PROVE  TextDescribesPublished'
  BY <1>5, <1>4 DEF UpToDate, HoldNothing, Locked, Moved, Finish, Interrupt,
     Refuse, Cancel, Die, KillHard, Differs, Return
<1>6. ASSUME NEW r \in Runner, Start(r) PROVE TextDescribesPublished'
  BY <1>6, OneMoves DEF Start
<1>7. ASSUME NEW r \in Runner, TextStale(r) PROVE TextDescribesPublished'
  BY <1>7, OneMoves DEF TextStale
<1>8. ASSUME NEW r \in Runner, Decide(r) PROVE TextDescribesPublished'
  BY <1>8, OneMoves DEF Decide
<1>9. ASSUME NEW r \in Runner, Acquire(r) PROVE TextDescribesPublished'
  BY <1>9, OneMoves DEF Acquire
<1>10. ASSUME NEW r \in Runner, Replan(r) PROVE TextDescribesPublished'
  <2>1. \/ pc' = [pc EXCEPT ![r] = "build"]
        \/ pc' = [pc EXCEPT ![r] = "walk"]
    BY <1>10 DEF Replan
  <2> QED
    BY <1>10, <2>1, OneMoves DEF Replan
<1>11. ASSUME NEW r \in Runner, Walk(r) PROVE TextDescribesPublished'
  BY <1>11, OneMoves DEF Walk
<1>12. ASSUME NEW r \in Runner, Assemble(r) PROVE TextDescribesPublished'
  <2>1. \A q \in Runner \ {r} : next'[q] = next[q]
    BY <1>12 DEF Assemble, TypeOK
  <2> QED
    BY <1>12, <2>1, OneMoves DEF Assemble
<1>13. ASSUME NEW r \in Runner, Confirm(r) PROVE TextDescribesPublished'
  BY <1>13, OneMoves DEF Confirm
<1>14. ASSUME UNCHANGED <<snapshot, pc, next>> PROVE TextDescribesPublished'
  BY <1>14, SameWriters
<1>15. ASSUME NEW r \in Runner,
              \/ \E p \in Path : Scan(r, p)
              \/ \E p \in Source : Retain(r, p) \/ Process(r, p) \/ Reread(r, p)
       PROVE  TextDescribesPublished'
  BY <1>15, <1>14 DEF Scan, Retain, Process, Reread
<1>16. ASSUME Change \/ RemoveStaleLock \/ UNCHANGED vars
       PROVE  TextDescribesPublished'
  BY <1>16, <1>14 DEF Change, RemoveStaleLock, vars, runVars
<1> QED
  BY <1>1, <1>2, <1>3, <1>5, <1>6, <1>7, <1>8, <1>9, <1>10, <1>11, <1>12, <1>13,
     <1>15, <1>16 DEF RefreshNext, Step

\* refresh.rs: the text a run writes is about the snapshot on disk for as long
\* as it writes, whatever other runs do; a lost file is the only exception.
THEOREM TextIsAboutPublished == Spec => []TextDescribesPublished
<1>1. RefreshInit => TextDescribesPublished
  BY DEF RefreshInit, RunInit, TextDescribesPublished
<1> QED
  BY <1>1, NextDescribes, TypeCorrect, GuardIsExclusive, PTL DEF Spec

----------------------------------------------------------------------------
(***************************************************************************)
(* Refresh implements Publication, for any number of runs.  Exclusion does *)
(* most of the work: a run that enters finds the abstract file free        *)
(* because no lock means no holder, and one that leaves empties it because *)
(* there is no other.  What is left to show is that a run publishes only   *)
(* what it has assembled, which is always a usable snapshot.               *)
(***************************************************************************)

\* A run past its build has a snapshot to publish.
Assembled ==
  \A r \in Runner : pc[r] \in {"confirm", "verify"} => next[r].disk = "ready"

\* A step of one run that does not assemble leaves Assembled true.
LEMMA MoveAssembled ==
  ASSUME TypeOK, Assembled, NEW r \in Runner, NEW to,
         pc' = [pc EXCEPT ![r] = to],
         \A q \in Runner \ {r} : next'[q] = next[q],
         to \in {"confirm", "verify"} =>
           next'[r] = next[r] /\ pc[r] \in {"confirm", "verify"}
  PROVE  Assembled'
  BY DEF TypeOK, Assembled

\* A run that ends has nothing to publish, and the others are not concerned.
LEMMA EndAssembled ==
  ASSUME TypeOK, Assembled, NEW r \in Runner, NEW held, End(r, held)
  PROVE  Assembled'
<1>1. \A q \in Runner \ {r} : next'[q] = next[q]
  BY DEF End, TypeOK
<1> QED
  BY <1>1, MoveAssembled DEF End

\* Only assemble makes a snapshot to publish, and it makes a usable one.
LEMMA NextAssembled == TypeOK /\ Assembled /\ [RefreshNext]_vars => Assembled'
<1> SUFFICES ASSUME TypeOK, Assembled, [RefreshNext]_vars
             PROVE  Assembled'
  OBVIOUS
<1>1. ASSUME NEW r \in Runner, Assemble(r) PROVE Assembled'
  <2>1. next'[r].disk = "ready"
    BY <1>1 DEF Assemble, MetaFor, TypeOK
  <2>2. \A q \in Runner \ {r} : next'[q] = next[q] /\ pc'[q] = pc[q]
    BY <1>1 DEF Assemble, TypeOK
  <2> QED
    BY <2>1, <2>2 DEF Assembled
<1>2. ASSUME NEW r \in Runner, Hold(r) PROVE Assembled'
  <2>1. \A q \in Runner \ {r} : next'[q] = next[q]
    BY <1>2 DEF Hold, TypeOK
  <2> QED
    BY <1>2, <2>1, MoveAssembled DEF Hold
<1>3. ASSUME NEW r \in Runner, NEW held, End(r, held) PROVE Assembled'
  BY <1>3, EndAssembled
<1>4. ASSUME NEW r \in Runner,
             \/ UpToDate(r) \/ HoldNothing(r) \/ Locked(r) \/ Moved(r) \/ Finish(r)
             \/ Interrupt(r) \/ \E p \in Source : Differs(r, p)
      PROVE  Assembled'
  BY <1>4, <1>3 DEF UpToDate, HoldNothing, Locked, Moved, Finish, Interrupt,
     Refuse, Cancel, Die, KillHard, Differs, Return
<1>5. ASSUME NEW r \in Runner, Start(r) PROVE Assembled'
  BY <1>5, MoveAssembled DEF Start
<1>6. ASSUME NEW r \in Runner, TextStale(r) PROVE Assembled'
  BY <1>6, MoveAssembled DEF TextStale
<1>7. ASSUME NEW r \in Runner, Decide(r) PROVE Assembled'
  BY <1>7, MoveAssembled DEF Decide
<1>8. ASSUME NEW r \in Runner, Acquire(r) PROVE Assembled'
  BY <1>8, MoveAssembled DEF Acquire
<1>9. ASSUME NEW r \in Runner, Replan(r) PROVE Assembled'
  <2>1. \/ pc' = [pc EXCEPT ![r] = "build"]
        \/ pc' = [pc EXCEPT ![r] = "walk"]
    BY <1>9 DEF Replan
  <2> QED
    BY <1>9, <2>1, MoveAssembled DEF Replan
<1>10. ASSUME NEW r \in Runner, Walk(r) PROVE Assembled'
  BY <1>10, MoveAssembled DEF Walk
<1>11. ASSUME NEW r \in Runner, Confirm(r) PROVE Assembled'
  BY <1>11, MoveAssembled DEF Confirm
<1>12. ASSUME NEW r \in Runner, Publish(r) PROVE Assembled'
  BY <1>12, MoveAssembled DEF Publish
<1>13. ASSUME UNCHANGED <<pc, next>> PROVE Assembled'
  BY <1>13 DEF Assembled
<1>14. ASSUME NEW r \in Runner,
              \/ \E p \in Path : Scan(r, p)
              \/ \E p \in Source : Retain(r, p) \/ Process(r, p) \/ Reread(r, p)
       PROVE  Assembled'
  BY <1>14, <1>13 DEF Scan, Retain, Process, Reread
<1>15. ASSUME Change \/ LoseSnapshot \/ RemoveStaleLock \/ UNCHANGED vars
       PROVE  Assembled'
  BY <1>15, <1>13 DEF Change, LoseSnapshot, RemoveStaleLock, vars, runVars
<1> QED
  BY <1>1, <1>2, <1>4, <1>5, <1>6, <1>7, <1>8, <1>9, <1>10, <1>11, <1>12,
     <1>14, <1>15 DEF RefreshNext, Step

----------------------------------------------------------------------------
(* Every step is a step of Publication or changes nothing it can see.      *)

\* What an observer of the published file can see.
Visible == <<snapshot, Building, Writing>>

\* A step of one run outside the guard, or inside it, that stays there.
LEMMA MoveHidden ==
  ASSUME TypeOK, UNCHANGED snapshot, NEW r \in Runner, NEW to,
         pc' = [pc EXCEPT ![r] = to],
         pc[r] \in Holding \ {"published"} <=> to \in Holding \ {"published"},
         pc[r] = "published" <=> to = "published"
  PROVE  UNCHANGED Visible
  BY DEF TypeOK, Visible, Building, Writing

\* A run that ends leaves, if it was inside.
LEMMA EndLeaves ==
  ASSUME TypeOK, GuardExclusive, NEW r \in Runner, NEW held, End(r, held)
  PROVE  P!Leave \/ UNCHANGED Visible
<1>1. pc' = [pc EXCEPT ![r] = "idle"] /\ UNCHANGED snapshot
  BY DEF End
<1>2. CASE pc[r] \in Holding
  <2>1. \A q \in Runner : pc'[q] \notin Holding
    BY <1>1, <1>2 DEF GuardExclusive, Holding, TypeOK
  <2>2. Building' = {} /\ Writing' = {}
    BY <2>1 DEF Building, Writing, Holding
  <2>3. ~(Building = {} /\ Writing = {})
    BY <1>2 DEF Building, Writing
  <2> QED
    BY <1>1, <2>2, <2>3 DEF P!Leave, P!Free
<1>3. CASE pc[r] \notin Holding
  BY <1>1, <1>3, MoveHidden DEF Holding
<1> QED
  BY <1>2, <1>3

\* The heart of the refinement.
LEMMA StepSimulation ==
  TypeOK /\ TypeOK' /\ GuardExclusive /\ Assembled /\ [RefreshNext]_vars
    => [P!Next]_Visible
<1> SUFFICES ASSUME TypeOK, TypeOK', GuardExclusive, Assembled, [RefreshNext]_vars
             PROVE  P!Next \/ UNCHANGED Visible
  OBVIOUS
<1>1. ASSUME NEW r \in Runner, Acquire(r) PROVE P!Enter(r)
  <2>1. Building = {} /\ Writing = {}
    BY <1>1 DEF Acquire, GuardExclusive, Building, Writing, Holding
  <2>2. Building' = {r} /\ Writing' = {}
    BY <1>1, <2>1 DEF Acquire, Building, Writing, Holding, TypeOK
  <2> QED
    BY <1>1, <2>1, <2>2 DEF Acquire, P!Enter, P!Free
<1>2. ASSUME NEW r \in Runner, Hold(r) PROVE P!Resume(r)
  <2>1. Building = {} /\ Writing = {}
    BY <1>2 DEF Hold, GuardExclusive, Building, Writing, Holding
  <2>2. Building' = {} /\ Writing' = {r}
    BY <1>2, <2>1 DEF Hold, Building, Writing, Holding, TypeOK
  <2>3. snapshot \in {s \in Snapshots : s.disk = "ready"}
    BY <1>2 DEF Hold, TypeOK
  <2> QED
    BY <1>2, <2>1, <2>2, <2>3 DEF Hold, P!Resume, P!Free
<1>3. ASSUME NEW r \in Runner, Publish(r) PROVE P!Replace(r)
  <2>1. pc[r] = "verify" /\ pc' = [pc EXCEPT ![r] = "published"] /\ snapshot' = next[r]
    BY <1>3 DEF Publish, Prepared
  <2>2. \A q \in Runner : pc[q] \in Holding <=> q = r
    BY <2>1 DEF GuardExclusive, Holding
  <2>3. Building = {r} /\ Writing = {}
    BY <2>1, <2>2 DEF Building, Writing, Holding
  <2>4. Building' = {} /\ Writing' = {r}
    BY <2>1, <2>2 DEF Building, Writing, Holding, TypeOK
  <2>5. snapshot' \in {s \in Snapshots : s.disk = "ready"}
    BY <2>1 DEF Assembled, TypeOK
  <2> QED
    BY <2>3, <2>4, <2>5 DEF P!Replace
<1>4. ASSUME LoseSnapshot PROVE P!Damage
  <2>1. snapshot \in {s \in Snapshots : s.disk = "ready"}
    BY <1>4 DEF LoseSnapshot, TypeOK
  <2>2. snapshot' \in Snapshots \ {s \in Snapshots : s.disk = "ready"}
    BY <1>4, NothingType DEF LoseSnapshot, NoSnapshot, DamagedSnapshot, TypeOK
  <2>3. UNCHANGED <<Building, Writing>>
    BY <1>4 DEF LoseSnapshot, runVars, Building, Writing
  <2> QED
    BY <2>1, <2>2, <2>3 DEF P!Damage
<1>5. ASSUME NEW r \in Runner, NEW held, End(r, held)
      PROVE  P!Leave \/ UNCHANGED Visible
  BY <1>5, EndLeaves
<1>6. ASSUME NEW r \in Runner,
             \/ UpToDate(r) \/ HoldNothing(r) \/ Locked(r) \/ Moved(r) \/ Finish(r)
             \/ Interrupt(r) \/ \E p \in Source : Differs(r, p)
      PROVE  P!Leave \/ UNCHANGED Visible
  BY <1>6, <1>5 DEF UpToDate, HoldNothing, Locked, Moved, Finish, Interrupt,
     Refuse, Cancel, Die, KillHard, Differs, Return
<1>7. ASSUME NEW r \in Runner, Start(r) \/ TextStale(r) \/ Decide(r)
      PROVE  UNCHANGED Visible
  BY <1>7, MoveHidden DEF Start, TextStale, Decide, Holding
<1>8. ASSUME NEW r \in Runner,
             Replan(r) \/ Walk(r) \/ Assemble(r) \/ Confirm(r)
      PROVE  UNCHANGED Visible
  <2>1. ASSUME Replan(r) PROVE UNCHANGED Visible
    <3>1. \/ pc' = [pc EXCEPT ![r] = "build"]
          \/ pc' = [pc EXCEPT ![r] = "walk"]
      BY <2>1 DEF Replan
    <3> QED
      BY <2>1, <3>1, MoveHidden DEF Replan, Holding
  <2>2. ASSUME Walk(r) PROVE UNCHANGED Visible
    BY <2>2, MoveHidden DEF Walk, Holding
  <2>3. ASSUME Assemble(r) PROVE UNCHANGED Visible
    BY <2>3, MoveHidden DEF Assemble, Holding
  <2>4. ASSUME Confirm(r) PROVE UNCHANGED Visible
    BY <2>4, MoveHidden DEF Confirm, Holding
  <2> QED
    BY <1>8, <2>1, <2>2, <2>3, <2>4
<1>9. ASSUME UNCHANGED <<snapshot, pc>> PROVE UNCHANGED Visible
  BY <1>9 DEF Visible, Building, Writing
<1>10. ASSUME NEW r \in Runner,
              \/ \E p \in Path : Scan(r, p)
              \/ \E p \in Source : Retain(r, p) \/ Process(r, p) \/ Reread(r, p)
       PROVE  UNCHANGED Visible
  BY <1>10, <1>9 DEF Scan, Retain, Process, Reread
<1>11. ASSUME Change \/ RemoveStaleLock \/ UNCHANGED vars
       PROVE  UNCHANGED Visible
  BY <1>11, <1>9 DEF Change, RemoveStaleLock, vars, runVars
<1> QED
  BY <1>1, <1>2, <1>3, <1>4, <1>6, <1>7, <1>8, <1>10, <1>11
     DEF RefreshNext, Step, P!Next

\* refresh.rs and guard.rs: whatever the runs observe and however they end,
\* what happens to the published snapshot is what Publication allows.
THEOREM RefreshImplementsPublication == Spec => ImplementsPublication
<1>1. RefreshInit => P!Init
  <2>1. SUFFICES ASSUME RefreshInit PROVE P!Init
    OBVIOUS
  <2>2. Building = {} /\ Writing = {}
    BY <2>1 DEF RefreshInit, RunInit, Building, Writing, Holding
  <2>3. snapshot \in Snapshots /\ snapshot.disk = "missing"
    BY <2>1, NothingType DEF RefreshInit, RunInit, NoSnapshot
  <2> QED
    BY <2>2, <2>3 DEF P!Init, P!Free
<1>2. RefreshInit => Assembled
  BY DEF RefreshInit, RunInit, Assembled
<1>3. Spec => []Assembled
  BY <1>2, NextAssembled, TypeCorrect, PTL DEF Spec
<1>4. [P!Next]_Visible => [P!Next]_<<snapshot, Building, Writing>>
  BY DEF Visible
<1> QED
  BY <1>1, <1>3, <1>4, StepSimulation, TypeCorrect, GuardIsExclusive, PTL
     DEF Spec, ImplementsPublication, P!Spec

----------------------------------------------------------------------------
(* What a snapshot says.                                                   *)

\* Version v of p is gone for good: nothing in the repository restores it.
Lost(p, v) == v # Absent /\ v <= newest[p] /\ work[p] # v /\ index[p] # v

\* The version of the rule file a snapshot was built under, and what it hid.
RulesOf(s) == IF s.digest = 0 THEN TreeOf(s.head)[RuleFile] ELSE s.digest - 1
HiddenBy(s) == Hides[RulesOf(s)]

\* The record of p if p was as the commit of s has it.
CleanRecord(s, p) == IF p \in HiddenBy(s) THEN Absent ELSE TreeOf(s.head)[p]

\* Either p is recorded as its commit has it, or its deletion is known to be
\* unrecorded, or it can never be as that commit has it again.
RecordHolds(s, p) ==
  \/ s.files[p] = CleanRecord(s, p)
  \/ s.files[p] = Absent /\ p \in s.gone
  \/ Lost(p, TreeOf(s.head)[p])

\* A snapshot says nothing false of a path it does not call dirty, under its
\* rules; a snapshot whose rules can never be clean again is not believed.
Faithful(s) ==
  s.disk = "ready" =>
    \/ s.digest = 0 /\ Lost(RuleFile, RulesOf(s))
    \/ /\ s.skipped \subseteq HiddenBy(s)
       /\ \A p \in Source :
            /\ s.files[p] # Absent => p \notin HiddenBy(s)
            /\ p \notin s.dirty => RecordHolds(s, p)

----------------------------------------------------------------------------
(* What bounds versions, commits and observations.                         *)

\* No version is newer than the newest.
WorldBounded ==
  \A p \in Path :
    /\ work[p] <= newest[p] /\ index[p] <= newest[p]
    /\ \A c \in 1..Len(commits) : commits[c][p] <= newest[p]

SnapshotBounded(s) ==
  s.head \in 0..Len(commits) /\ \A p \in Source : s.files[p] <= newest[p]

LookBounded(o) == o.head \in 0..Len(commits) /\ o.index <= indexStamp

RunBounded(r) ==
  /\ SnapshotBounded(loaded[r]) /\ SnapshotBounded(next[r])
  /\ LookBounded(seen[r]) /\ LookBounded(believed[r])
  /\ \A p \in Source : built[r][p] <= newest[p]

----------------------------------------------------------------------------
(* What a run knows at each of its steps.                                  *)

\* A clean path, scanned for the plan: the index has what HEAD has; the working
\* tree has it too, or lost it, or has bytes the loaded snapshot cannot name.
CleanSince(r, p) ==
  /\ index[p] = TreeOf(head)[p]
  /\ \/ work[p] \in {Absent, index[p]}
     \/ index[p] = Absent /\ p \in Hidden
     \/ index[p] # Absent /\ work[p] # loaded[r].files[p]

LookHolds(r) ==
  pc[r] = "relook" /\ head = seen[r].head /\ indexStamp = seen[r].index =>
    /\ \A p \in Source \ todo[r] : seen[r].kinds[p] = {} => CleanSince(r, p)
    /\ RuleFile \notin todo[r] /\ seen[r].kinds[RuleFile] = {} =>
         index[RuleFile] = TreeOf(head)[RuleFile] /\ work[RuleFile] = index[RuleFile]

\* The rules, and the clean version of p, that run r planned from.
PlannedRules(r) ==
  IF plan[r].digest = 0 THEN TreeOf(believed[r].head)[RuleFile] ELSE plan[r].digest - 1
PlannedHidden(r) == Hides[PlannedRules(r)]
Clean(r, p) == TreeOf(believed[r].head)[p]
SameRules(r) == work[RuleFile] = PlannedRules(r)

\* HEAD and the index are where the plan saw them: now, or when the
\* confirming observation began.
Standing(r) == head = believed[r].head /\ indexStamp = believed[r].index
Steady(r) == seen[r].head = believed[r].head /\ seen[r].index = believed[r].index

\* The planned rules are no newer than the newest, and if there were none then
\* there are none.
RulesHold(r) ==
  /\ pc[r] \in {"walk", "build", "confirm"} =>
       (plan[r].digest = 0 <=> believed[r].kinds[RuleFile] = {})
  /\ \/ pc[r] \in {"walk", "build"} /\ Standing(r)
     \/ pc[r] = "confirm" /\ Steady(r)
     => /\ PlannedRules(r) <= newest[RuleFile]
        /\ PlannedRules(r) = Absent => work[RuleFile] = Absent

\* What the plan was right about, path by path.
PlanHolds(r) ==
  \A p \in Source : plan[r].mode = "Incremental" /\ p \notin plan[r].touched =>
    /\ loaded[r].files[p] # Absent =>
         /\ p \notin PlannedHidden(r)
         /\ believed[r].kinds[p] = {} => loaded[r].files[p] = Clean(r, p)
    /\ loaded[r].files[p] = Absent =>
         \/ p \in PlannedHidden(r) \/ work[p] = Absent
         \/ believed[r].kinds[p] = {} /\ (Clean(r, p) = Absent \/ p \in loaded[r].gone)
         \/ believed[r].kinds[p] = {"Deleted"}

CleanHolds(r) ==
  \A p \in Source : believed[r].kinds[p] = {} =>
    /\ index[p] = Clean(r, p)
    /\ index[p] = Absent => work[p] = Absent \/ p \in PlannedHidden(r)

\* What is built, and why the rest is not.
RecordsHold(r) ==
  \A p \in Source :
    /\ p \in todo[r] \/ built[r][p] # Absent => p \notin PlannedHidden(r)
    /\ p \notin todo[r] /\ built[r][p] = Absent =>
         \/ p \in PlannedHidden(r) \/ work[p] = Absent
         \/ EmptyDelta(plan[r]) /\ loaded[r].files[p] = Absent
    /\ built[r][p] # Absent /\ believed[r].kinds[p] = {} => Clean(r, p) # Absent

BuildHolds(r) ==
  pc[r] \in {"walk", "build"} /\ Standing(r) /\ SameRules(r) =>
    PlanHolds(r) /\ CleanHolds(r) /\ (pc[r] = "build" => RecordsHold(r))

\* Nothing is built before the walk.
NothingBuilt(r) ==
  pc[r] \notin {"build", "confirm", "verify", "published"} => built[r] = NoRecords

\* What the prepared snapshot is made of.
NextIsBuilt(r) ==
  pc[r] \in {"confirm", "verify"} =>
    /\ next[r].files = built[r]
    /\ pc[r] = "confirm" =>
         /\ next[r].head = seen[r].head
         /\ next[r].digest = 0 <=> believed[r].kinds[RuleFile] = {}
         /\ next[r].dirty = {p \in Source : believed[r].kinds[p] # {} /\ built[r][p] # Absent}
         /\ {p \in Source : "Deleted" \in believed[r].kinds[p] /\ built[r][p] = Absent}
              \subseteq next[r].gone

\* The prepared snapshot before its paths are confirmed.
AsBuilt(r) ==
  \A p \in Source :
    /\ built[r][p] # Absent => p \notin PlannedHidden(r)
    /\ p \in next[r].skipped => p \in PlannedHidden(r)
    /\ built[r][p] = Absent =>
         \/ p \in next[r].gone \/ p \in PlannedHidden(r) \/ work[p] = Absent
         \/ believed[r].kinds[p] = {} /\ Clean(r, p) = Absent
    /\ built[r][p] # Absent /\ believed[r].kinds[p] = {} =>
         Clean(r, p) # Absent /\ (p \notin Acquired(r) => built[r][p] = Clean(r, p))

\* A confirmed path: what is recorded holds, or will not be there to be reread.
PathConfirmed(r, p) ==
  p \notin next[r].dirty => RecordHolds(next[r], p) \/ Lost(p, built[r][p])

ConfirmHolds(r) ==
  pc[r] = "confirm" /\ Steady(r) =>
    \/ /\ ~SameRules(r)
       /\ ~(plan[r].digest = 0 /\ RuleFile \notin todo[r] /\ seen[r].kinds[RuleFile] = {})
    \/ plan[r].digest = 0 /\ Lost(RuleFile, PlannedRules(r))
    \/ /\ RulesOf(next[r]) = PlannedRules(r)
       /\ AsBuilt(r)
       /\ \A p \in Source \ todo[r] :
            seen[r].kinds[p] = believed[r].kinds[p] => PathConfirmed(r, p)

\* The prepared snapshot while its content is reread.
VerifyHolds(r) ==
  pc[r] = "verify" =>
    \/ next[r].digest = 0 /\ Lost(RuleFile, RulesOf(next[r]))
    \/ /\ next[r].skipped \subseteq HiddenBy(next[r])
       /\ \A p \in Source :
            /\ next[r].files[p] # Absent => p \notin HiddenBy(next[r])
            /\ p \notin next[r].dirty =>
                 RecordHolds(next[r], p) \/ (p \in todo[r] /\ Lost(p, next[r].files[p]))

RunHolds(r) ==
  /\ LookHolds(r) /\ RulesHold(r) /\ BuildHolds(r) /\ NothingBuilt(r)
  /\ NextIsBuilt(r) /\ ConfirmHolds(r) /\ VerifyHolds(r)

RunInv(r) == RunBounded(r) /\ Faithful(loaded[r]) /\ RunHolds(r)

TrustInv ==
  /\ WorldBounded
  /\ SnapshotBounded(snapshot) /\ Faithful(snapshot)
  /\ \A r \in Runner : RunInv(r)

----------------------------------------------------------------------------
(* How the repository drifts under a run, and what survives it.            *)

\* What any step leaves true of the repository: commits stay, versions only
\* grow, and what is dropped by the working tree and the index is gone; under a
\* build HEAD does not return, and neither do files or rules.
Drifts ==
  /\ Len(commits) <= Len(commits')
  /\ \A c \in 0..Len(commits) : TreeOf(c)' = TreeOf(c)
  /\ indexStamp <= indexStamp'
  /\ indexStamp' = indexStamp => index' = index
  /\ \A r \in Runner : pc[r] \in MidBuild =>
       head' = head \/ head' \notin {seen[r].head, believed[r].head}
  /\ \A p \in Path :
       /\ work'[p] \in Nat /\ newest'[p] \in Nat /\ newest[p] <= newest'[p]
       /\ work'[p] \in {work[p], Absent, index[p]} \/ newest[p] < work'[p]
       /\ index'[p] \in {index[p], work[p]}
  /\ \A r \in Runner : pc[r] \in MidBuild =>
       /\ \A p \in Path : work[p] = Absent => work'[p] = Absent
       /\ work'[RuleFile] \in {work[RuleFile], Absent} \/ newest[RuleFile] < work'[RuleFile]
       /\ pc[r] = "relook" => work'[RuleFile] = work[RuleFile]

\* The versions of the repository are numbers.
LEMMA WorldNumbers ==
  ASSUME TypeOK
  PROVE  /\ \A p \in Path : work[p] \in Nat /\ index[p] \in Nat /\ newest[p] \in Nat
         /\ \A c \in 0..Len(commits), p \in Path : TreeOf(c)[p] \in Nat
         /\ Len(commits) \in Nat /\ head \in 0..Len(commits) /\ indexStamp \in Nat
<1>1. Version \subseteq Nat /\ Absent \in Nat
  BY BoundAssumption DEF Version, Absent
<1>2. ASSUME NEW c \in 0..Len(commits), NEW p \in Path PROVE TreeOf(c)[p] \in Nat
  <2>1. CASE c = Unborn
    BY <1>1, <2>1 DEF TreeOf, EmptyTree
  <2>2. CASE c # Unborn
    <3>1. c \in 1..Len(commits)
      BY <2>2 DEF Unborn, TypeOK, WorldType
    <3>2. commits[c] \in Tree
      BY <3>1 DEF TypeOK, WorldType
    <3> QED
      BY <1>1, <2>2, <3>2 DEF TreeOf, Tree
  <2> QED
    BY <2>1, <2>2
<1>4. \A p \in Path : work[p] \in Nat /\ index[p] \in Nat /\ newest[p] \in Nat
  BY <1>1 DEF TypeOK, WorldType, Tree
<1>5. Len(commits) \in Nat /\ head \in 0..Len(commits) /\ indexStamp \in Nat
  BY DEF TypeOK, WorldType
<1> QED
  BY <1>2, <1>4, <1>5

\* The trees of the commits are bounded, the empty one included.
LEMMA TreesBounded ==
  ASSUME TypeOK, WorldBounded
  PROVE  \A c \in 0..Len(commits), p \in Path : TreeOf(c)[p] <= newest[p]
<1>1. \A p \in Path : newest[p] \in Nat
  BY WorldNumbers
<1> QED
  BY <1>1 DEF WorldBounded, TreeOf, Unborn, EmptyTree, Absent

\* A repository that stands still drifts.
LEMMA StillDrifts ==
  ASSUME TypeOK, UNCHANGED worldVars
  PROVE  Drifts
<1>1. UNCHANGED <<commits, head, index, indexStamp, work, newest>>
  BY DEF worldVars
<1>2. \A c \in 0..Len(commits) : TreeOf(c)' = TreeOf(c)
  BY <1>1 DEF TreeOf
<1> QED
  BY <1>1, <1>2, WorldNumbers DEF Drifts

\* Whatever somebody does to the repository, it only drifts: this is where the
\* build relies on nothing flickering.
LEMMA ChangeDrifts ==
  ASSUME TypeOK, WorldBounded, \A r \in Runner : RunBounded(r), Flickers = {}, Change
  PROVE  Drifts /\ WorldBounded'
<1> USE WorldNumbers
<1>a. Path = Source \cup {RuleFile}
  BY DEF Path
<1>b. index \in Tree /\ work \in Tree /\ newest \in Tree
  BY DEF TypeOK, WorldType
<1>1. ASSUME NEW p \in Path, Save(p) \/ Delete(p), ~Flicker(p)
      PROVE  Drifts /\ WorldBounded'
  <2>1. UNCHANGED <<commits, head, index, indexStamp>>
    BY <1>1 DEF Save, Delete
  <2>2. \A c \in 0..Len(commits) : TreeOf(c)' = TreeOf(c)
    BY <2>1 DEF TreeOf
  <2>3. \A q \in Path \ {p} : work'[q] = work[q] /\ newest'[q] = newest[q]
    BY <1>1, <1>b DEF Save, Delete, Tree
  <2>4. \/ work'[p] = newest[p] + 1 /\ newest'[p] = newest[p] + 1
        \/ work'[p] \in {index[p], Absent} /\ newest'[p] = newest[p]
    BY <1>1, <1>b DEF Save, Delete, Tree
  <2>5. \A r \in Runner : pc[r] \in MidBuild =>
          /\ \A q \in Path : work[q] = Absent => work'[q] = Absent
          /\ work'[RuleFile] \in {work[RuleFile], Absent} \/ newest[RuleFile] < work'[RuleFile]
          /\ pc[r] = "relook" => work'[RuleFile] = work[RuleFile]
    BY <1>1, <1>a, <2>3, <2>4, SMTT(30) DEF Flicker
  <2>6. Drifts
    <3>1. \A q \in Path :
            /\ work'[q] \in Nat /\ newest'[q] \in Nat /\ newest[q] <= newest'[q]
            /\ work'[q] \in {work[q], Absent, index[q]} \/ newest[q] < work'[q]
      BY <2>3, <2>4, SMTT(30) DEF Absent
    <3>2. Len(commits) <= Len(commits') /\ indexStamp <= indexStamp' /\ index' = index
      BY <2>1
    <3>3. \A r \in Runner : pc[r] \in MidBuild =>
            head' = head \/ head' \notin {seen[r].head, believed[r].head}
      BY <2>1
    <3> HIDE WorldNumbers
    <3> QED
      BY <2>2, <2>5, <3>1, <3>2, <3>3 DEF Drifts
  <2>7. WorldBounded'
    <3>1. \A q \in Path : newest[q] <= newest'[q] /\ work'[q] <= newest'[q]
      BY <2>3, <2>4 DEF WorldBounded, Absent
    <3>2. \A q \in Path : newest'[q] \in Nat
      BY <2>3, <2>4
    <3>3. \A c \in 1..Len(commits), q \in Path : commits[c][q] \in Nat
      BY DEF TypeOK, WorldType, Tree, Version
    <3>4. \A q \in Path : index[q] <= newest'[q]
      BY <3>1, <3>2, SMTT(30) DEF WorldBounded
    <3>5. ASSUME NEW c \in 1..Len(commits), NEW q \in Path
          PROVE  commits[c][q] <= newest'[q]
      <4>1. commits[c][q] <= newest[q] /\ newest[q] \in Nat
        BY DEF WorldBounded
      <4> QED
        BY <3>1, <3>2, <3>3, <4>1
    <3> QED
      BY <2>1, <3>1, <3>4, <3>5 DEF WorldBounded
  <2> QED
    BY <2>6, <2>7
<1>2. ASSUME NEW p \in Path, Stage(p) PROVE Drifts /\ WorldBounded'
  <2>1. UNCHANGED <<commits, head, work, newest>> /\ indexStamp' = indexStamp + 1
    BY <1>2 DEF Stage
  <2>2. \A c \in 0..Len(commits) : TreeOf(c)' = TreeOf(c)
    BY <2>1 DEF TreeOf
  <2>3. \A q \in Path : index'[q] \in {index[q], work[q]}
    BY <1>2, <1>b DEF Stage, Tree
  <2> QED
    BY <2>1, <2>2, <2>3, SMTT(30) DEF Drifts, WorldBounded
<1>3. ASSUME Commit PROVE Drifts /\ WorldBounded'
  <2>1. UNCHANGED <<index, indexStamp, work, newest>> /\ head' = Len(commits) + 1
    BY <1>3 DEF Commit
  <2>2. /\ Len(commits') = Len(commits) + 1
        /\ \A c \in 1..Len(commits) : commits'[c] = commits[c]
        /\ commits'[Len(commits) + 1] = index
    BY <1>3, <1>b DEF Commit, TypeOK, WorldType
  <2>3. \A c \in 0..Len(commits) : TreeOf(c)' = TreeOf(c)
    BY <2>2 DEF TreeOf, Unborn
  <2>4. \A r \in Runner : head' \notin {seen[r].head, believed[r].head}
    BY <2>1 DEF RunBounded, LookBounded
  <2>5. Drifts
    BY <2>1, <2>2, <2>3, <2>4 DEF Drifts
  <2>6. WorldBounded'
    BY <2>1, <2>2 DEF WorldBounded
  <2> QED
    BY <2>5, <2>6
<1>4. ASSUME NEW c \in 0..Len(commits), MoveHead(c), ~HeadReturns(c)
      PROVE  Drifts /\ WorldBounded'
  <2>1. UNCHANGED <<commits, index, indexStamp, work, newest>> /\ head' = c
    BY <1>4 DEF MoveHead
  <2>2. \A d \in 0..Len(commits) : TreeOf(d)' = TreeOf(d)
    BY <2>1 DEF TreeOf
  <2>3. \A r \in Runner : pc[r] \in MidBuild => head' \notin {seen[r].head, believed[r].head}
    BY <1>4, <2>1 DEF HeadReturns
  <2> QED
    BY <2>1, <2>2, <2>3 DEF Drifts, WorldBounded
<1> QED
  BY <1>1, <1>2, <1>3, <1>4 DEF Change

\* What is lost stays lost, and what is so bounded stays so.
LEMMA LostStays ==
  ASSUME TypeOK, Drifts
  PROVE  \A p \in Path, v \in Nat : Lost(p, v) => Lost(p, v)'
  BY WorldNumbers, SMTT(30) DEF Drifts, Lost, Absent

\* Commits stay, so a snapshot goes on meaning the same rules and records.
LEMMA RulesStay ==
  ASSUME TypeOK, Drifts, NEW s, SnapshotBounded(s)
  PROVE  /\ TreeOf(s.head)' = TreeOf(s.head)
         /\ RulesOf(s)' = RulesOf(s) /\ HiddenBy(s)' = HiddenBy(s)
         /\ \A p : CleanRecord(s, p)' = CleanRecord(s, p)
<1>1. TreeOf(s.head)' = TreeOf(s.head)
  BY DEF Drifts, SnapshotBounded
<1>2. RulesOf(s)' = RulesOf(s)
  BY <1>1 DEF RulesOf
<1> QED
  BY <1>1, <1>2 DEF HiddenBy, CleanRecord

\* A record that holds goes on holding.
LEMMA RecordStays ==
  ASSUME TypeOK, Drifts, NEW s, SnapshotBounded(s),
         NEW p \in Source, RecordHolds(s, p)
  PROVE  RecordHolds(s, p)'
<1>1. TreeOf(s.head)[p] \in Nat /\ p \in Path
  BY WorldNumbers DEF SnapshotBounded, Path
<1>2. Lost(p, TreeOf(s.head)[p]) => Lost(p, TreeOf(s.head)[p])'
  BY <1>1, LostStays, RulesStay DEF Lost
<1> QED
  BY <1>2, RulesStay DEF RecordHolds

\* A faithful snapshot goes on being faithful.
LEMMA FaithfulStays ==
  ASSUME TypeOK, Drifts, NEW s, SnapshotBounded(s), Faithful(s)
  PROVE  Faithful(s)'
<1>1. CASE s.digest = 0 /\ Lost(RuleFile, RulesOf(s))
  <2>1. RulesOf(s) \in Nat /\ RuleFile \in Path
    BY <1>1, WorldNumbers DEF RulesOf, SnapshotBounded, Path
  <2>2. Lost(RuleFile, RulesOf(s))'
    BY <1>1, <2>1, LostStays, RulesStay DEF Lost
  <2> QED
    BY <1>1, <2>2 DEF Faithful
<1>2. CASE /\ s.skipped \subseteq HiddenBy(s)
           /\ \A p \in Source :
                /\ s.files[p] # Absent => p \notin HiddenBy(s)
                /\ p \notin s.dirty => RecordHolds(s, p)
  BY <1>2, RulesStay, RecordStays DEF Faithful
<1> QED
  BY <1>1, <1>2 DEF Faithful

\* Bounds stay bounds.
LEMMA BoundsStay ==
  ASSUME TypeOK, TypeOK', Drifts
  PROVE  /\ \A s \in Snapshots : SnapshotBounded(s) => SnapshotBounded(s)'
         /\ \A o \in Observations : LookBounded(o) => LookBounded(o)'
<1> USE WorldNumbers
<1>1. ASSUME NEW s \in Snapshots, SnapshotBounded(s) PROVE SnapshotBounded(s)'
  BY <1>1, SMTT(30) DEF SnapshotBounded, Drifts, Snapshots, Records, Version, Path
<1>2. ASSUME NEW o \in Observations, LookBounded(o) PROVE LookBounded(o)'
  <2>1. o.head \in 0..Len(commits) /\ o.index <= indexStamp /\ o.index \in Nat
    BY <1>2 DEF LookBounded, Observations
  <2>2. Len(commits) <= Len(commits') /\ indexStamp <= indexStamp'
    BY DEF Drifts
  <2>3. Len(commits') \in Nat /\ indexStamp' \in Nat
    BY DEF TypeOK, WorldType
  <2> QED
    BY <2>1, <2>2, <2>3 DEF LookBounded
<1> QED
  BY <1>1, <1>2

----------------------------------------------------------------------------
(* What a run knows outlasts every step that is not its own.               *)

\* Run r does not move.
Rests(r) ==
  /\ pc'[r] = pc[r] /\ loaded'[r] = loaded[r] /\ seen'[r] = seen[r]
  /\ believed'[r] = believed[r] /\ plan'[r] = plan[r] /\ todo'[r] = todo[r]
  /\ built'[r] = built[r] /\ next'[r] = next[r]

\* HEAD and the index are where a build saw them only if they never left.
LEMMA NoReturn ==
  ASSUME TypeOK, TypeOK', Drifts, NEW r \in Runner, RunBounded(r), pc[r] \in MidBuild,
         NEW o, o \in {seen[r], believed[r]}, head' = o.head, indexStamp' = o.index
  PROVE  /\ head = o.head /\ indexStamp = o.index
         /\ index' = index /\ TreeOf(head)' = TreeOf(head)
<1>1. o.index <= indexStamp /\ indexStamp <= indexStamp'
  BY DEF RunBounded, LookBounded, Drifts
<1>2. indexStamp \in Nat /\ indexStamp' \in Nat
  BY DEF TypeOK, WorldType
<1>3. indexStamp' = indexStamp
  BY <1>1, <1>2
<1>4. head' = head
  BY DEF Drifts
<1>5. TreeOf(head)' = TreeOf(head)
  BY <1>4, WorldNumbers DEF Drifts
<1> QED
  BY <1>3, <1>4, <1>5 DEF Drifts

\* Planned rules and clean versions are numbers.
LEMMA PlannedNumbers ==
  ASSUME TypeOK, NEW r \in Runner, RunBounded(r)
  PROVE  PlannedRules(r) \in Nat /\ \A p \in Path : Clean(r, p) \in Nat
<1>1. \A p \in Path : TreeOf(believed[r].head)[p] \in Nat
  BY WorldNumbers DEF RunBounded, LookBounded
<1>2. plan[r].digest \in Nat /\ RuleFile \in Path
  BY DEF TypeOK, Plans, Path
<1> QED
  BY <1>1, <1>2 DEF PlannedRules, Clean

\* The commits an observation names keep their trees.
LEMMA BelievedTree ==
  ASSUME TypeOK, Drifts, NEW r \in Runner, Rests(r), RunBounded(r)
  PROVE  /\ TreeOf(believed[r].head)' = TreeOf(believed[r].head)
         /\ PlannedRules(r)' = PlannedRules(r) /\ PlannedHidden(r)' = PlannedHidden(r)
         /\ \A p : Clean(r, p)' = Clean(r, p)
<1>1. believed'[r] = believed[r] /\ believed[r].head \in 0..Len(commits)
  BY DEF Rests, RunBounded, LookBounded
<1>2. TreeOf(believed[r].head)' = TreeOf(believed[r].head)
  BY <1>1 DEF Drifts
<1>3. PlannedRules(r)' = PlannedRules(r)
  BY <1>2 DEF PlannedRules, Rests
<1> QED
  BY <1>2, <1>3 DEF PlannedHidden, Clean

\* The observation under the guard, while the scan goes on.
LEMMA LookStays ==
  ASSUME TypeOK, TypeOK', Drifts, NEW r \in Runner, Rests(r), RunBounded(r), LookHolds(r)
  PROVE  LookHolds(r)'
<1> SUFFICES ASSUME pc[r] = "relook", head' = seen[r].head, indexStamp' = seen[r].index
             PROVE  /\ \A p \in Source \ todo[r] : seen[r].kinds[p] = {} => CleanSince(r, p)'
                    /\ RuleFile \notin todo[r] /\ seen[r].kinds[RuleFile] = {} =>
                         /\ index'[RuleFile] = TreeOf(head)'[RuleFile]
                         /\ work'[RuleFile] = index'[RuleFile]
  BY DEF LookHolds, Rests
<1>1. pc[r] \in MidBuild
  BY DEF MidBuild
<1>2. /\ head = seen[r].head /\ indexStamp = seen[r].index
      /\ index' = index /\ TreeOf(head)' = TreeOf(head)
  BY <1>1, NoReturn
<1>3. work'[RuleFile] = work[RuleFile]
  BY <1>1 DEF Drifts
<1>4. Hidden' = Hidden
  BY <1>3 DEF Hidden
<1>5. ASSUME NEW p \in Source, CleanSince(r, p) PROVE CleanSince(r, p)'
  <2>1. p \in Path
    BY DEF Path
  <2>2. loaded'[r] = loaded[r] /\ loaded[r].files[p] \in Nat /\ loaded[r].files[p] <= newest[p]
    BY DEF Rests, RunBounded, SnapshotBounded, TypeOK, Snapshots, Records, Version
  <2>3. \/ work'[p] \in {work[p], Absent, index[p]}
        \/ newest[p] < work'[p] /\ work'[p] \in Nat /\ newest[p] \in Nat
    BY <2>1, WorldNumbers DEF Drifts
  <2>4. work[p] = Absent => work'[p] = Absent
    BY <1>1, <2>1 DEF Drifts
  <2> QED
    BY <1>2, <1>4, <1>5, <2>2, <2>3, <2>4 DEF CleanSince
<1> QED
  BY <1>2, <1>3, <1>5 DEF LookHolds

\* The rules a build has planned by.
LEMMA RulesHoldStay ==
  ASSUME TypeOK, TypeOK', Drifts, NEW r \in Runner, Rests(r), RunBounded(r), RulesHold(r)
  PROVE  RulesHold(r)'
<1>1. (plan'[r].digest = 0 <=> believed'[r].kinds[RuleFile] = {}) <=>
      (plan[r].digest = 0 <=> believed[r].kinds[RuleFile] = {})
  BY DEF Rests
<1>2. ASSUME \/ pc[r] \in {"walk", "build"} /\ Standing(r)'
             \/ pc[r] = "confirm" /\ Steady(r)
      PROVE  /\ PlannedRules(r) <= newest'[RuleFile]
             /\ PlannedRules(r) = Absent => work'[RuleFile] = Absent
  <2>1. pc[r] \in MidBuild /\ RuleFile \in Path
    BY <1>2 DEF MidBuild, Path
  <2>2. pc[r] \in {"walk", "build"} /\ Standing(r)' => Standing(r)
    BY <2>1, NoReturn DEF Standing, Rests
  <2>3. /\ PlannedRules(r) <= newest[RuleFile]
        /\ PlannedRules(r) = Absent => work[RuleFile] = Absent
    BY <1>2, <2>2 DEF RulesHold
  <2>4. PlannedRules(r) \in Nat
    BY PlannedNumbers
  <2>5. newest[RuleFile] \in Nat /\ newest'[RuleFile] \in Nat /\ newest[RuleFile] <= newest'[RuleFile]
    BY <2>1, WorldNumbers DEF Drifts
  <2>6. work[RuleFile] = Absent => work'[RuleFile] = Absent
    BY <2>1 DEF Drifts
  <2> QED
    BY <2>3, <2>4, <2>5, <2>6
<1>3. Steady(r)' <=> Steady(r)
  BY DEF Steady, Rests
<1> QED
  BY <1>1, <1>2, <1>3, BelievedTree DEF RulesHold, Rests

\* What is known under the planned rules, while HEAD, the index and the rules
\* stand; once they moved they do not come back.
LEMMA BuildStays ==
  ASSUME TypeOK, TypeOK', Drifts, NEW r \in Runner, Rests(r), RunBounded(r),
         RulesHold(r), BuildHolds(r)
  PROVE  BuildHolds(r)'
<1> SUFFICES ASSUME pc[r] \in {"walk", "build"}, Standing(r)', SameRules(r)'
             PROVE  PlanHolds(r)' /\ CleanHolds(r)' /\ (pc[r] = "build" => RecordsHold(r)')
  BY DEF BuildHolds, Rests
<1>1. pc[r] \in MidBuild /\ RuleFile \in Path
  BY DEF MidBuild, Path
<1>2. Standing(r) /\ index' = index
  BY <1>1, NoReturn DEF Standing, Rests
<1>3. SameRules(r)
  <2>1. work'[RuleFile] = PlannedRules(r)
    BY BelievedTree DEF SameRules
  <2>2. /\ PlannedRules(r) <= newest[RuleFile]
        /\ PlannedRules(r) = Absent => work[RuleFile] = Absent
    BY <1>2 DEF RulesHold
  <2>3. \/ work'[RuleFile] \in {work[RuleFile], Absent}
        \/ newest[RuleFile] < work'[RuleFile]
    BY <1>1 DEF Drifts
  <2>4. ~(newest[RuleFile] < work'[RuleFile])
    BY <1>1, <2>1, <2>2, PlannedNumbers, WorldNumbers
  <2> QED
    BY <2>1, <2>2, <2>3, <2>4 DEF SameRules
<1>4. PlanHolds(r) /\ CleanHolds(r) /\ (pc[r] = "build" => RecordsHold(r))
  BY <1>2, <1>3 DEF BuildHolds
<1>5. \A p \in Source : work[p] = Absent => work'[p] = Absent
  BY <1>1 DEF Drifts, Path
<1>6. PlanHolds(r)'
  BY <1>4, <1>5, BelievedTree DEF PlanHolds, Rests
<1>7. CleanHolds(r)'
  BY <1>2, <1>4, <1>5, BelievedTree DEF CleanHolds, Rests
<1>8. RecordsHold(r) => RecordsHold(r)'
  BY <1>5, BelievedTree DEF RecordsHold, EmptyDelta, Rests
<1> QED
  BY <1>4, <1>6, <1>7, <1>8

\* What is prepared, while it is confirmed.
LEMMA ConfirmStays ==
  ASSUME TypeOK, TypeOK', Drifts, NEW r \in Runner, Rests(r), RunBounded(r),
         RulesHold(r), ConfirmHolds(r)
  PROVE  ConfirmHolds(r)'
<1> SUFFICES ASSUME pc[r] = "confirm", Steady(r) PROVE ConfirmHolds(r)'
  BY DEF ConfirmHolds, Steady, Rests
<1>1. pc[r] \in MidBuild /\ RuleFile \in Path /\ Source \subseteq Path
  BY DEF MidBuild, Path
<1>2. /\ PlannedRules(r) <= newest[RuleFile]
      /\ PlannedRules(r) = Absent => work[RuleFile] = Absent
  BY DEF RulesHold
<1>3. SnapshotBounded(next[r]) /\ next'[r] = next[r]
  BY DEF RunBounded, Rests
<1>4. /\ RulesOf(next[r])' = RulesOf(next[r])
      /\ \A p \in Source : RecordHolds(next[r], p) => RecordHolds(next[r], p)'
  BY <1>3, RulesStay, RecordStays
<1>5. CASE /\ ~SameRules(r)
           /\ ~(plan[r].digest = 0 /\ RuleFile \notin todo[r] /\ seen[r].kinds[RuleFile] = {})
  <2>1. \/ work'[RuleFile] \in {work[RuleFile], Absent}
        \/ newest[RuleFile] < work'[RuleFile]
    BY <1>1 DEF Drifts
  <2>2. work'[RuleFile] # PlannedRules(r)
    <3>1. work'[RuleFile] = work[RuleFile] => work'[RuleFile] # PlannedRules(r)
      BY <1>5 DEF SameRules
    <3>2. work'[RuleFile] = Absent => work'[RuleFile] # PlannedRules(r)
      BY <1>2, <1>5 DEF SameRules
    <3>3. newest[RuleFile] < work'[RuleFile] => work'[RuleFile] # PlannedRules(r)
      BY <1>1, <1>2, PlannedNumbers, WorldNumbers
    <3> QED
      BY <2>1, <3>1, <3>2, <3>3
  <2>3. ~SameRules(r)'
    BY <2>2, BelievedTree DEF SameRules
  <2> QED
    BY <1>5, <2>3 DEF ConfirmHolds, Rests
<1>6. CASE plan[r].digest = 0 /\ Lost(RuleFile, PlannedRules(r))
  <2>1. Lost(RuleFile, PlannedRules(r))'
    BY <1>1, <1>6, LostStays, PlannedNumbers, BelievedTree DEF Lost
  <2> QED
    BY <1>6, <2>1 DEF ConfirmHolds, Rests
<1>7. CASE /\ RulesOf(next[r]) = PlannedRules(r)
           /\ AsBuilt(r)
           /\ \A p \in Source \ todo[r] :
                seen[r].kinds[p] = believed[r].kinds[p] => PathConfirmed(r, p)
  <2>1. AsBuilt(r)'
    <3>1. \A p \in Source : work[p] = Absent => work'[p] = Absent
      BY <1>1 DEF Drifts
    <3>2. Acquired(r)' = Acquired(r)
      BY DEF Acquired, Retained, Rests
    <3> QED
      BY <1>7, <3>1, <3>2, BelievedTree DEF AsBuilt, Rests
  <2>2. ASSUME NEW p \in Source, PathConfirmed(r, p) PROVE PathConfirmed(r, p)'
    <3>1. built[r][p] \in Nat /\ built'[r] = built[r] /\ p \in Path
      BY <1>1 DEF TypeOK, Records, Version, Rests
    <3>2. Lost(p, built[r][p]) => Lost(p, built[r][p])'
      BY <3>1, LostStays DEF Lost
    <3> QED
      BY <1>3, <1>4, <2>2, <3>2 DEF PathConfirmed
  <2>3. RulesOf(next[r])' = PlannedRules(r)'
    BY <1>4, <1>7, BelievedTree
  <2> QED
    BY <1>7, <2>1, <2>2, <2>3 DEF ConfirmHolds, Rests
<1> QED
  BY <1>5, <1>6, <1>7 DEF ConfirmHolds

\* What is prepared, while its content is reread.
LEMMA VerifyStays ==
  ASSUME TypeOK, TypeOK', Drifts, NEW r \in Runner, Rests(r), RunBounded(r), VerifyHolds(r)
  PROVE  VerifyHolds(r)'
<1> SUFFICES ASSUME pc[r] = "verify" PROVE VerifyHolds(r)'
  BY DEF VerifyHolds, Rests
<1>1. SnapshotBounded(next[r]) /\ next'[r] = next[r] /\ RuleFile \in Path /\ Source \subseteq Path
  BY DEF RunBounded, Rests, Path
<1>2. /\ RulesOf(next[r])' = RulesOf(next[r]) /\ HiddenBy(next[r])' = HiddenBy(next[r])
      /\ \A p \in Source : RecordHolds(next[r], p) => RecordHolds(next[r], p)'
  BY <1>1, RulesStay, RecordStays
<1>3. CASE next[r].digest = 0 /\ Lost(RuleFile, RulesOf(next[r]))
  <2>1. RulesOf(next[r]) \in Nat
    BY <1>1, <1>3, WorldNumbers DEF RulesOf, SnapshotBounded
  <2>2. Lost(RuleFile, RulesOf(next[r]))'
    BY <1>1, <1>2, <1>3, <2>1, LostStays DEF Lost
  <2> QED
    BY <1>1, <1>3, <2>2 DEF VerifyHolds
<1>4. CASE /\ next[r].skipped \subseteq HiddenBy(next[r])
           /\ \A p \in Source :
                /\ next[r].files[p] # Absent => p \notin HiddenBy(next[r])
                /\ p \notin next[r].dirty =>
                     \/ RecordHolds(next[r], p)
                     \/ p \in todo[r] /\ Lost(p, next[r].files[p])
  <2>1. ASSUME NEW p \in Source, Lost(p, next[r].files[p]) PROVE Lost(p, next[r].files[p])'
    <3>1. next[r].files[p] \in Nat
      BY DEF TypeOK, Snapshots, Records, Version
    <3> QED
      BY <1>1, <2>1, <3>1, LostStays DEF Lost
  <2> QED
    BY <1>1, <1>2, <1>4, <2>1 DEF VerifyHolds, Rests
<1> QED
  BY <1>3, <1>4 DEF VerifyHolds

\* All a run knows outlasts every step that is not its own.
LEMMA RunStays ==
  ASSUME TypeOK, TypeOK', Drifts, NEW r \in Runner, Rests(r), RunInv(r)
  PROVE  RunInv(r)'
<1>1. RunBounded(r) /\ Faithful(loaded[r]) /\ RunHolds(r)
  BY DEF RunInv
<1>2. RunBounded(r)'
  <2>1. /\ loaded[r] \in Snapshots /\ next[r] \in Snapshots
        /\ seen[r] \in Observations /\ believed[r] \in Observations
    BY DEF TypeOK
  <2>2. /\ SnapshotBounded(loaded[r])' /\ SnapshotBounded(next[r])'
        /\ LookBounded(seen[r])' /\ LookBounded(believed[r])'
    BY <1>1, <2>1, BoundsStay DEF RunBounded, Rests
  <2>3. \A p \in Source : built'[r][p] <= newest'[p]
    <3>1. \A p \in Source : built[r][p] \in Nat /\ p \in Path
      BY DEF TypeOK, Records, Version, Path
    <3> QED
      BY <1>1, <3>1, WorldNumbers DEF RunBounded, Drifts, Rests
  <2> QED
    BY <2>2, <2>3 DEF RunBounded
<1>3. Faithful(loaded[r])'
  BY <1>1, FaithfulStays DEF RunBounded, Rests
<1>4. NothingBuilt(r)' /\ NextIsBuilt(r)'
  BY <1>1 DEF RunHolds, NothingBuilt, NextIsBuilt, Rests
<1>5. LookHolds(r)' /\ RulesHold(r)' /\ BuildHolds(r)'
  BY <1>1, LookStays, RulesHoldStay, BuildStays DEF RunHolds
<1>6. ConfirmHolds(r)' /\ VerifyHolds(r)'
  BY <1>1, ConfirmStays, VerifyStays DEF RunHolds
<1> QED
  BY <1>2, <1>3, <1>4, <1>5, <1>6 DEF RunInv, RunHolds

\* The repository and the snapshot on disk, when only the former drifts.
LEMMA SnapshotStays ==
  ASSUME TypeOK, TypeOK', TrustInv, Drifts, UNCHANGED snapshot
  PROVE  SnapshotBounded(snapshot)' /\ Faithful(snapshot)'
<1>1. snapshot \in Snapshots /\ SnapshotBounded(snapshot) /\ Faithful(snapshot)
  BY DEF TypeOK, TrustInv
<1> QED
  BY <1>1, BoundsStay, FaithfulStays

\* A step of one run: the others rest, and the repository stands still.
LEMMA OneSteps ==
  ASSUME TypeOK, TypeOK', TrustInv, NEW r \in Runner, UNCHANGED worldVars,
         \A q \in Runner \ {r} : Rests(q), RunInv(r)',
         UNCHANGED snapshot \/ (SnapshotBounded(snapshot)' /\ Faithful(snapshot)')
  PROVE  TrustInv'
<1>1. Drifts
  BY StillDrifts
<1>2. WorldBounded'
  BY DEF TrustInv, WorldBounded, worldVars
<1>3. \A q \in Runner \ {r} : RunInv(q)'
  BY <1>1, RunStays DEF TrustInv
<1> QED
  BY <1>1, <1>2, <1>3, SnapshotStays DEF TrustInv

----------------------------------------------------------------------------
(* The steps of one run.                                                   *)

\* A run that moves leaves the slots of the others alone.
LEMMA OthersRest ==
  ASSUME TypeOK, NEW r \in Runner, Start(r) \/ Step(r) \/ Interrupt(r)
  PROVE  UNCHANGED worldVars /\ \A q \in Runner \ {r} : Rests(q)
<1> USE DEF TypeOK, Rests
<1>1. ASSUME NEW held, End(r, held)
      PROVE  UNCHANGED worldVars /\ \A q \in Runner \ {r} : Rests(q)
  BY <1>1 DEF End
<1>2. ASSUME \/ UpToDate(r) \/ HoldNothing(r) \/ Locked(r) \/ Moved(r) \/ Finish(r)
             \/ Interrupt(r) \/ \E p \in Source : Differs(r, p)
      PROVE  \E held : End(r, held)
  BY <1>2 DEF UpToDate, HoldNothing, Locked, Moved, Finish, Interrupt, Refuse, Cancel,
     Die, KillHard, Differs, Return
<1>3. ASSUME Start(r) \/ Acquire(r) \/ Assemble(r)
      PROVE  UNCHANGED worldVars /\ \A q \in Runner \ {r} : Rests(q)
  BY <1>3 DEF Start, Acquire, Assemble, BeginLook
<1>4. ASSUME TextStale(r) \/ Hold(r) \/ Decide(r) \/ Walk(r) \/ Confirm(r) \/ Publish(r)
      PROVE  UNCHANGED worldVars /\ \A q \in Runner \ {r} : Rests(q)
  BY <1>4 DEF TextStale, Hold, Decide, Walk, Confirm, Publish
<1>5. ASSUME Replan(r)
      PROVE  UNCHANGED worldVars /\ \A q \in Runner \ {r} : Rests(q)
  BY <1>5 DEF Replan
<1>6. ASSUME NEW p, Scan(r, p)
      PROVE  UNCHANGED worldVars /\ \A q \in Runner \ {r} : Rests(q)
  BY <1>6 DEF Scan
<1>7. ASSUME NEW p, Retain(r, p) \/ Reread(r, p)
      PROVE  UNCHANGED worldVars /\ \A q \in Runner \ {r} : Rests(q)
  BY <1>7 DEF Retain, Reread
<1>8. ASSUME NEW p, Process(r, p)
      PROVE  UNCHANGED worldVars /\ \A q \in Runner \ {r} : Rests(q)
  BY <1>8 DEF Process
<1> QED
  BY <1>1, <1>2, <1>3, <1>4, <1>5, <1>6, <1>7, <1>8 DEF Step

\* A run that is not at work under the guard needs to know nothing but its
\* bounds, and that what it loaded is faithful.
LEMMA IdleKnows ==
  ASSUME NEW r \in Runner, RunBounded(r)', Faithful(loaded[r])',
         pc'[r] \in {"idle", "look", "stale", "acquire", "published"},
         pc'[r] # "published" => built'[r] = NoRecords
  PROVE  RunInv(r)'
  BY DEF RunInv, RunHolds, LookHolds, RulesHold, BuildHolds, NothingBuilt, NextIsBuilt,
     ConfirmHolds, VerifyHolds

\* What the slots of a run hold before it begins is bounded and faithful.
LEMMA NothingBounded ==
  ASSUME TypeOK
  PROVE  /\ SnapshotBounded(NoSnapshot) /\ SnapshotBounded(DamagedSnapshot)
         /\ LookBounded(NoObservation)
         /\ Faithful(NoSnapshot) /\ Faithful(DamagedSnapshot)
         /\ \A p \in Source : NoRecords[p] <= newest[p]
<1>1. \A p \in Source : NoRecords[p] = 0 /\ newest[p] \in Nat
  BY WorldNumbers DEF NoRecords, Absent, Path
<1>2. Unborn \in 0..Len(commits) /\ 0 <= indexStamp
  BY WorldNumbers DEF Unborn
<1> QED
  BY <1>1, <1>2 DEF SnapshotBounded, LookBounded, Faithful, NoSnapshot, DamagedSnapshot,
     NoObservation

\* A run that ends.
LEMMA EndKnows ==
  ASSUME TypeOK, TypeOK', NEW r \in Runner, NEW held, End(r, held)
  PROVE  RunInv(r)'
<1>1. /\ pc'[r] = "idle" /\ built'[r] = NoRecords
      /\ loaded'[r] = NoSnapshot /\ next'[r] = NoSnapshot
      /\ seen'[r] = NoObservation /\ believed'[r] = NoObservation
  BY DEF End, TypeOK
<1>2. /\ SnapshotBounded(NoSnapshot)' /\ LookBounded(NoObservation)' /\ Faithful(NoSnapshot)'
      /\ \A p \in Source : NoRecords[p] <= newest'[p]
  BY NothingBounded DEF End, worldVars, SnapshotBounded, LookBounded, Faithful, NoSnapshot
<1>3. RunBounded(r)' /\ Faithful(loaded[r])'
  BY <1>1, <1>2 DEF RunBounded
<1> QED
  BY <1>1, <1>3, IdleKnows

\* What a run newly puts into a slot is bounded if it was before.
LEMMA SlotBounded ==
  ASSUME TypeOK, TypeOK', Drifts, NEW r \in Runner, RunBounded(r),
         loaded'[r] = loaded[r] \/ (loaded'[r] = snapshot' /\ SnapshotBounded(snapshot)'),
         next'[r] = next[r] \/ SnapshotBounded(next[r])',
         seen'[r] = seen[r] \/ LookBounded(seen[r])',
         believed'[r] = believed[r] \/ LookBounded(believed[r])',
         \A p \in Source : built'[r][p] = built[r][p] \/ built'[r][p] <= newest'[p]
  PROVE  RunBounded(r)'
<1>1. SnapshotBounded(loaded[r])' /\ SnapshotBounded(next[r])'
  <2>1. loaded[r] \in Snapshots /\ next[r] \in Snapshots
    BY DEF TypeOK
  <2> QED
    BY <2>1, BoundsStay DEF RunBounded
<1>2. LookBounded(seen[r])' /\ LookBounded(believed[r])'
  <2>1. seen[r] \in Observations /\ believed[r] \in Observations
    BY DEF TypeOK
  <2> QED
    BY <2>1, BoundsStay DEF RunBounded
<1>3. \A p \in Source : built'[r][p] <= newest'[p]
  <2>1. \A p \in Source : built[r][p] \in Nat /\ p \in Path
    BY DEF TypeOK, Records, Version, Path
  <2> QED
    BY <2>1, WorldNumbers DEF RunBounded, Drifts
<1> QED
  BY <1>1, <1>2, <1>3 DEF RunBounded

\* An observation that begins now is bounded.
LEMMA LookBegins ==
  ASSUME TypeOK, NEW r \in Runner, UNCHANGED worldVars, BeginLook(r)
  PROVE  /\ seen'[r] = [head |-> head, index |-> indexStamp, kinds |-> NoKinds]
         /\ todo'[r] = Path /\ LookBounded(seen[r])'
<1>1. /\ seen'[r] = [head |-> head, index |-> indexStamp, kinds |-> NoKinds]
      /\ todo'[r] = Path
  BY DEF BeginLook, TypeOK
<1>2. head \in 0..Len(commits) /\ indexStamp \in Nat
  BY DEF TypeOK, WorldType
<1> QED
  BY <1>1, <1>2 DEF LookBounded, worldVars

\* The steps of a run before it plans under the guard.
LEMMA EarlyKnows ==
  ASSUME TypeOK, TypeOK', TrustInv, NEW r \in Runner,
         Start(r) \/ TextStale(r) \/ Decide(r) \/ Hold(r)
  PROVE  RunInv(r)'
<1>0. UNCHANGED worldVars /\ Drifts /\ RunBounded(r) /\ Faithful(loaded[r])
      /\ (pc[r] \in {"idle", "look", "stale"} => built[r] = NoRecords)
  BY StillDrifts DEF Start, TextStale, Decide, Hold, TrustInv, RunInv, RunHolds, NothingBuilt
<1>1. SnapshotBounded(snapshot)' /\ Faithful(snapshot)'
  BY <1>0, SnapshotStays DEF Start, TextStale, Decide, Hold
<1>2. ASSUME Start(r) PROVE RunInv(r)'
  <2>1. LookBounded(seen[r])'
    BY <1>0, <1>2, LookBegins DEF Start
  <2>2. /\ pc'[r] = "look" /\ loaded'[r] = snapshot' /\ built'[r] = NoRecords
        /\ next'[r] = next[r] /\ believed'[r] = believed[r] /\ built'[r] = built[r]
    BY <1>0, <1>2 DEF Start, TypeOK
  <2>3. RunBounded(r)'
    BY <1>0, <1>1, <2>1, <2>2, SlotBounded
  <2>4. Faithful(loaded[r])'
    BY <1>1, <2>2
  <2> QED
    BY <2>2, <2>3, <2>4, IdleKnows
<1>3. ASSUME TextStale(r) \/ Decide(r) \/ Hold(r) PROVE RunInv(r)'
  <2>1. LookBounded(NoObservation)'
    BY <1>0, NothingBounded DEF worldVars, LookBounded
  <2>2. /\ pc'[r] \in {"stale", "acquire", "published"} /\ loaded'[r] = loaded[r]
        /\ built'[r] = NoRecords /\ believed'[r] = believed[r] /\ built'[r] = built[r]
        /\ seen'[r] = seen[r] \/ seen'[r] = NoObservation
        /\ next'[r] = next[r] \/ next'[r] = snapshot'
    BY <1>0, <1>3 DEF TextStale, Decide, Hold, TypeOK
  <2>3. RunBounded(r)'
    BY <1>0, <1>1, <2>1, <2>2, SlotBounded
  <2>4. Faithful(loaded[r])'
    BY <1>0, <2>2, FaithfulStays DEF RunBounded
  <2> QED
    BY <2>2, <2>3, <2>4, IdleKnows
<1> QED
  BY <1>2, <1>3

\* A path whose status is clean.
LEMMA CleanStatus ==
  ASSUME TypeOK, NEW p \in Path, Status(p) = {}
  PROVE  /\ index[p] = TreeOf(head)[p]
         /\ index[p] = Absent => work[p] = Absent \/ p \in Hidden
         /\ index[p] # Absent => work[p] = index[p]
<1>1. "Added" \notin Status(p) /\ "Deleted" \notin Status(p) /\ "Modified" \notin Status(p)
      /\ "Untracked" \notin Status(p)
  OBVIOUS
<1> QED
  BY <1>1 DEF Status, TreeIndex, IndexWorktree, Kind

\* A path that is not there is clean or reported deleted.
LEMMA GoneStatus ==
  ASSUME TypeOK, NEW p \in Path, work[p] = Absent, Status(p) # {}
  PROVE  "Deleted" \in Status(p)
  BY DEF Status, TreeIndex, IndexWorktree, Kind

\* The guard is taken: the second observation has seen nothing yet.
LEMMA AcquireKnows ==
  ASSUME TypeOK, TypeOK', TrustInv, NEW r \in Runner, Acquire(r)
  PROVE  RunInv(r)'
<1>1. UNCHANGED worldVars /\ Drifts /\ RunBounded(r) /\ Faithful(loaded[r])
      /\ NothingBuilt(r)
  BY StillDrifts DEF Acquire, TrustInv, RunInv, RunHolds
<1>2. LookBounded(seen[r])' /\ todo'[r] = Path
  BY <1>1, LookBegins DEF Acquire
<1>3. /\ pc'[r] = "relook" /\ loaded'[r] = loaded[r] /\ next'[r] = next[r]
      /\ believed'[r] = believed[r] /\ built'[r] = built[r] /\ built[r] = NoRecords
  BY <1>1 DEF Acquire, TypeOK, NothingBuilt
<1>4. RunBounded(r)'
  BY <1>1, <1>2, <1>3, SlotBounded
<1>5. Faithful(loaded[r])'
  BY <1>1, <1>3, FaithfulStays DEF RunBounded
<1>6. LookHolds(r)'
  BY <1>2 DEF LookHolds, Path
<1> QED
  BY <1>3, <1>4, <1>5, <1>6 DEF RunInv, RunHolds, RulesHold, BuildHolds, NothingBuilt,
     NextIsBuilt, ConfirmHolds, VerifyHolds

\* What one step of a scan writes down.
LEMMA Scanned ==
  ASSUME TypeOK, NEW r \in Runner, NEW p \in Path, Scan(r, p)
  PROVE  /\ seen'[r].head = seen[r].head /\ seen'[r].index = seen[r].index
         /\ seen'[r].kinds[p] = Status(p)
         /\ \A q \in Path \ {p} : seen'[r].kinds[q] = seen[r].kinds[q]
         /\ todo'[r] = todo[r] \ {p}
         /\ pc'[r] = pc[r] /\ loaded'[r] = loaded[r] /\ believed'[r] = believed[r]
         /\ plan'[r] = plan[r] /\ built'[r] = built[r] /\ next'[r] = next[r]
         /\ UNCHANGED <<worldVars, snapshot>>
<1>1. seen[r] \in Observations /\ seen[r].kinds \in [Path -> SUBSET Kind]
  BY DEF TypeOK, Observations
<1>2. seen' = [seen EXCEPT ![r] = [seen[r] EXCEPT !.kinds =
                 [seen[r].kinds EXCEPT ![p] = Status(p)]]]
  BY Zenon DEF Scan
<1>3. seen'[r] = [seen[r] EXCEPT !.kinds = [seen[r].kinds EXCEPT ![p] = Status(p)]]
  BY <1>2 DEF TypeOK
<1>4. seen'[r].kinds = [seen[r].kinds EXCEPT ![p] = Status(p)]
      /\ seen'[r].head = seen[r].head /\ seen'[r].index = seen[r].index
  BY <1>1, <1>3 DEF Observations
<1>5. /\ seen'[r].kinds[p] = Status(p)
      /\ \A q \in Path \ {p} : seen'[r].kinds[q] = seen[r].kinds[q]
  BY <1>1, <1>4
<1>6. todo'[r] = todo[r] \ {p}
  BY DEF Scan, TypeOK
<1> QED
  BY <1>4, <1>5, <1>6 DEF Scan

\* A step of the scan that a plan is made from.
LEMMA ScanKnows ==
  ASSUME TypeOK, TypeOK', TrustInv, NEW r \in Runner, NEW p \in Path, Scan(r, p),
         pc[r] # "confirm"
  PROVE  RunInv(r)'
<1>1. UNCHANGED worldVars /\ Drifts /\ RunBounded(r) /\ Faithful(loaded[r]) /\ RunHolds(r)
      /\ pc[r] \in {"look", "relook"}
  BY StillDrifts DEF Scan, TrustInv, RunInv
<1> USE Scanned
<1>2. LookBounded(seen[r])'
  BY <1>1 DEF RunBounded, LookBounded, worldVars
<1>3. RunBounded(r)'
  BY <1>1, <1>2, SlotBounded
<1>4. Faithful(loaded[r])'
  BY <1>1, FaithfulStays DEF RunBounded
<1>5. LookHolds(r)'
  <2> SUFFICES ASSUME pc[r] = "relook", head = seen[r].head, indexStamp = seen[r].index
               PROVE  LookHolds(r)'
    BY DEF LookHolds, worldVars
  <2>1. ASSUME NEW q \in Source PROVE CleanSince(r, q)' <=> CleanSince(r, q)
    BY DEF CleanSince, Hidden, TreeOf, worldVars
  <2>2. ASSUME NEW q \in Source \ todo'[r], seen'[r].kinds[q] = {} PROVE CleanSince(r, q)'
    <3>1. CASE q = p
      <4>1. /\ index[p] = TreeOf(head)[p]
            /\ index[p] = Absent => work[p] = Absent \/ p \in Hidden
            /\ index[p] # Absent => work[p] = index[p]
        BY <2>2, <3>1, CleanStatus
      <4> QED
        BY <2>1, <3>1, <4>1 DEF CleanSince
    <3>2. CASE q # p
      <4>1. q \in Source \ todo[r] /\ seen[r].kinds[q] = {}
        BY <2>2, <3>2 DEF Path
      <4> QED
        BY <1>1, <2>1, <4>1 DEF RunHolds, LookHolds
    <3> QED
      BY <3>1, <3>2
  <2>3. ASSUME RuleFile \notin todo'[r], seen'[r].kinds[RuleFile] = {}
        PROVE  index[RuleFile] = TreeOf(head)[RuleFile] /\ work[RuleFile] = index[RuleFile]
    <3>1. CASE RuleFile = p
      <4>1. RuleFile \notin Hidden
        <5>1. work[RuleFile] \in 0..MaxVersion
          BY DEF TypeOK, WorldType, Tree, Path, Version
        <5> QED
          BY <5>1, HidesAssumption, RuleFileAssumption DEF Hidden
      <4> QED
        BY <2>3, <3>1, <4>1, CleanStatus
    <3>2. CASE RuleFile # p
      BY <1>1, <2>3, <3>2 DEF RunHolds, LookHolds, Path
    <3> QED
      BY <3>1, <3>2
  <2> QED
    BY <2>2, <2>3 DEF LookHolds, TreeOf, worldVars
<1> QED
  BY <1>1, <1>3, <1>4, <1>5 DEF RunInv, RunHolds, RulesHold, BuildHolds, NothingBuilt,
     NextIsBuilt, ConfirmHolds, VerifyHolds

\* What the plan under the guard relies on: the rules are the ones the loaded
\* snapshot was built under, and it says nothing false of a clean path.
LEMMA PlanTrusts ==
  ASSUME TypeOK, NEW r \in Runner, Faithful(loaded[r]), LookHolds(r),
         pc[r] = "relook", todo[r] = {}, head = seen[r].head, indexStamp = seen[r].index,
         PlanFor(mode[r], loaded[r], seen[r]).mode = "Incremental"
  PROVE  /\ HiddenBy(loaded[r]) = Hidden
         /\ loaded[r].skipped \subseteq Hidden
         /\ \A p \in Source :
              /\ loaded[r].files[p] # Absent => p \notin Hidden
              /\ p \notin loaded[r].dirty => RecordHolds(loaded[r], p)
<1>1. /\ loaded[r].disk = "ready" /\ Comparable(loaded[r], seen[r])
      /\ loaded[r].digest = Digest(seen[r].kinds)
  BY DEF PlanFor
<1>2. work[RuleFile] \in Nat /\ RuleFile \in Path
  BY WorldNumbers DEF Path
<1>3. loaded[r].digest = 0 => seen[r].kinds[RuleFile] = {}
  BY <1>1, <1>2 DEF Digest
<1>4. RulesOf(loaded[r]) = work[RuleFile]
  <2>1. CASE loaded[r].digest = 0
    <3>1. work[RuleFile] = TreeOf(head)[RuleFile]
      BY <1>3, <2>1 DEF LookHolds
    <3>2. TreeOf(loaded[r].head)[RuleFile] = TreeOf(head)[RuleFile]
      BY <1>1, <1>2 DEF Comparable, CommittedDelta
    <3> QED
      BY <2>1, <3>1, <3>2 DEF RulesOf
  <2>2. CASE loaded[r].digest # 0
    BY <1>1, <1>2, <2>2 DEF Digest, RulesOf
  <2> QED
    BY <2>1, <2>2
<1>5. ~Lost(RuleFile, RulesOf(loaded[r]))
  BY <1>4 DEF Lost
<1>6. HiddenBy(loaded[r]) = Hidden
  BY <1>4 DEF HiddenBy, Hidden
<1> QED
  BY <1>1, <1>5, <1>6 DEF Faithful

\* The plan is right about each path it does not touch.
LEMMA PlanIsRight ==
  ASSUME TypeOK, NEW r \in Runner, Faithful(loaded[r]), LookHolds(r),
         pc[r] = "relook", todo[r] = {}, head = seen[r].head, indexStamp = seen[r].index,
         PlanFor(mode[r], loaded[r], seen[r]).mode = "Incremental",
         NEW p \in Source, p \notin PlanFor(mode[r], loaded[r], seen[r]).touched
  PROVE  /\ loaded[r].files[p] # Absent =>
              /\ p \notin Hidden
              /\ seen[r].kinds[p] = {} => loaded[r].files[p] = TreeOf(head)[p]
         /\ loaded[r].files[p] = Absent =>
              \/ p \in Hidden \/ work[p] = Absent
              \/ seen[r].kinds[p] = {} /\ (TreeOf(head)[p] = Absent \/ p \in loaded[r].gone)
              \/ seen[r].kinds[p] = {"Deleted"}
<1> DEFINE s == loaded[r]
           o == seen[r]
<1>1. /\ s.skipped \subseteq Hidden /\ HiddenBy(s) = Hidden
      /\ s.files[p] # Absent => p \notin Hidden
      /\ p \notin s.dirty => RecordHolds(s, p)
  BY PlanTrusts
<1>2. /\ ~(Gone(s, o, p) /\ Holds(s, p))
      /\ Present(s, o, p) => Declined(s, p) \/ AlreadyRecorded(s, p)
  BY DEF PlanFor, Touched
<1>3. o.kinds[p] = {} => CleanSince(r, p)
  BY DEF LookHolds
<1>4. o.kinds[p] = {} /\ p \notin s.dirty /\ TreeOf(s.head)[p] = TreeOf(head)[p]
        => ~Lost(p, TreeOf(s.head)[p])
  BY <1>3 DEF CleanSince, Lost
<1>5. p \in Path
  BY DEF Path
<1>6. CASE s.files[p] # Absent
  <2>1. ~Declined(s, p) /\ Holds(s, p)
    BY <1>6 DEF Declined, Holds
  <2>2. ASSUME o.kinds[p] = {}, p \in s.dirty PROVE s.files[p] = TreeOf(head)[p]
    <3>1. work[p] = s.files[p]
      BY <1>2, <2>1, <2>2 DEF Present, AlreadyRecorded
    <3> QED
      BY <1>1, <1>3, <1>6, <2>2, <3>1 DEF CleanSince
  <2>3. ASSUME o.kinds[p] = {}, p \notin s.dirty PROVE s.files[p] = TreeOf(head)[p]
    <3>1. TreeOf(s.head)[p] = TreeOf(head)[p]
      BY <1>2, <1>5, <2>1, <2>3 DEF Gone, Present, AlreadyRecorded, CommittedDelta
    <3> QED
      BY <1>1, <1>4, <1>6, <2>3, <3>1 DEF RecordHolds, CleanRecord
  <2> QED
    BY <1>1, <1>6, <2>2, <2>3
<1>7. CASE s.files[p] = Absent
  <2>1. Present(s, o, p) => p \in Hidden \/ work[p] = Absent
    BY <1>1, <1>2, <1>7 DEF Declined, AlreadyRecorded, Holds
  <2>2. CASE o.kinds[p] # {}
    BY <1>7, <2>1, <2>2 DEF Present
  <2>3. CASE o.kinds[p] = {} /\ p \in s.dirty
    BY <1>7, <2>1, <2>3 DEF Present
  <2>4. CASE o.kinds[p] = {} /\ p \notin s.dirty /\ p \in CommittedDelta(s.head, o.head)
    BY <1>7, <2>1, <2>4 DEF Present
  <2>5. CASE o.kinds[p] = {} /\ p \notin s.dirty /\ p \notin CommittedDelta(s.head, o.head)
    <3>1. TreeOf(s.head)[p] = TreeOf(head)[p]
      BY <1>5, <2>5 DEF CommittedDelta
    <3> QED
      BY <1>1, <1>4, <1>7, <2>5, <3>1 DEF RecordHolds, CleanRecord
  <2> QED
    BY <2>2, <2>3, <2>4, <2>5
<1> QED
  BY <1>6, <1>7

\* The plan under the guard: from what the observation saw of an unmoved HEAD
\* and index, it is right about the rules and about every path it leaves alone.
LEMMA ReplanKnows ==
  ASSUME TypeOK, TypeOK', TrustInv, NEW r \in Runner, Replan(r)
  PROVE  RunInv(r)'
<1> DEFINE pl == PlanFor(mode[r], loaded[r], seen[r])
<1>1. UNCHANGED worldVars /\ Drifts /\ RunBounded(r) /\ Faithful(loaded[r]) /\ RunHolds(r)
      /\ pc[r] = "relook" /\ todo[r] = {} /\ built[r] = NoRecords
  BY StillDrifts DEF Replan, TrustInv, RunInv, RunHolds, NothingBuilt
<1>2. /\ plan'[r] = pl /\ believed'[r] = seen[r] /\ seen'[r] = seen[r] /\ todo'[r] = {}
      /\ loaded'[r] = loaded[r] /\ next'[r] = next[r]
      /\ \/ pc'[r] = "build" /\ EmptyDelta(pl) /\ built'[r] = loaded[r].files
         \/ pc'[r] = "walk" /\ built'[r] = NoRecords
  BY <1>1 DEF Replan, TypeOK
<1>3. RunBounded(r)'
  <2>1. LookBounded(believed[r])'
    BY <1>1, <1>2 DEF RunBounded, LookBounded, worldVars
  <2>2. \A p \in Source : built'[r][p] <= newest'[p]
    BY <1>1, <1>2 DEF RunBounded, SnapshotBounded, worldVars
  <2> QED
    BY <1>1, <1>2, <2>1, <2>2, SlotBounded
<1>4. Faithful(loaded[r])'
  BY <1>1, <1>2, FaithfulStays DEF RunBounded
<1>5. work[RuleFile] \in Nat /\ newest[RuleFile] \in Nat /\ RuleFile \in Path
      /\ work[RuleFile] <= newest[RuleFile]
  BY WorldNumbers DEF Path, TrustInv, WorldBounded
<1>6. pl.digest = Digest(seen[r].kinds) /\ (pl.digest = 0 <=> seen[r].kinds[RuleFile] = {})
  BY <1>5 DEF PlanFor, Digest
<1>7. ASSUME Standing(r)' PROVE PlannedRules(r)' = work[RuleFile] /\ PlannedHidden(r)' = Hidden
  <2>1. head = seen[r].head /\ indexStamp = seen[r].index
    BY <1>1, <1>2, <1>7 DEF Standing, worldVars
  <2>2. seen[r].kinds[RuleFile] = {} => work[RuleFile] = TreeOf(head)[RuleFile]
    BY <1>1, <2>1 DEF RunHolds, LookHolds
  <2>3. TreeOf(believed[r].head)' = TreeOf(head)
    BY <1>1, <1>2, <2>1 DEF TreeOf, worldVars
  <2>4. PlannedRules(r)' = work[RuleFile]
    BY <1>2, <1>5, <1>6, <2>2, <2>3 DEF PlannedRules, Digest
  <2> QED
    BY <2>4 DEF PlannedHidden, Hidden
<1>8. RulesHold(r)'
  BY <1>1, <1>2, <1>5, <1>6, <1>7 DEF RulesHold, worldVars
<1>9. BuildHolds(r)'
  <2> SUFFICES ASSUME Standing(r)'
               PROVE  PlanHolds(r)' /\ CleanHolds(r)' /\ (pc'[r] = "build" => RecordsHold(r)')
    BY DEF BuildHolds
  <2>1. /\ head = seen[r].head /\ indexStamp = seen[r].index
        /\ PlannedHidden(r)' = Hidden
        /\ \A p : Clean(r, p)' = TreeOf(head)[p]
        /\ UNCHANGED <<index, work>>
    BY <1>1, <1>2, <1>7 DEF Standing, Clean, TreeOf, worldVars
  <2>2. PlanHolds(r)'
    <3> SUFFICES ASSUME NEW p \in Source, pl.mode = "Incremental", p \notin pl.touched
                 PROVE
                   /\ loaded[r].files[p] # Absent =>
                        /\ p \notin Hidden
                        /\ seen[r].kinds[p] = {} => loaded[r].files[p] = TreeOf(head)[p]
                   /\ loaded[r].files[p] = Absent =>
                        \/ p \in Hidden \/ work[p] = Absent
                        \/ /\ seen[r].kinds[p] = {}
                           /\ TreeOf(head)[p] = Absent \/ p \in loaded[r].gone
                        \/ seen[r].kinds[p] = {"Deleted"}
      BY <1>2, <2>1 DEF PlanHolds
    <3> QED
      BY <1>1, <2>1, PlanIsRight DEF RunHolds
  <2>3. CleanHolds(r)'
    <3>1. \A p \in Source : seen[r].kinds[p] = {} => CleanSince(r, p)
      BY <1>1, <2>1 DEF RunHolds, LookHolds
    <3> QED
      BY <1>2, <2>1, <3>1 DEF CleanHolds, CleanSince
  <2>4. ASSUME pc'[r] = "build" PROVE RecordsHold(r)'
    <3>1. EmptyDelta(pl) /\ built'[r] = loaded[r].files
      BY <1>2, <2>4
    <3>2. \A p \in Source : loaded[r].files[p] # Absent =>
            p \notin Hidden /\ (seen[r].kinds[p] = {} => loaded[r].files[p] = TreeOf(head)[p])
      BY <1>1, <2>1, <3>1, PlanIsRight DEF RunHolds, EmptyDelta
    <3> QED
      BY <1>2, <2>1, <3>1, <3>2 DEF RecordsHold
  <2> QED
    BY <2>2, <2>3, <2>4
<1>10. LookHolds(r)' /\ NothingBuilt(r)' /\ NextIsBuilt(r)' /\ ConfirmHolds(r)'
       /\ VerifyHolds(r)'
  BY <1>2 DEF LookHolds, NothingBuilt, NextIsBuilt, ConfirmHolds, VerifyHolds
<1> QED
  BY <1>3, <1>4, <1>8, <1>9, <1>10 DEF RunInv, RunHolds

\* A step of the walk or of the build that changes nothing but what is to do,
\* what is built and where the run is.
LEMMA BuildGoesOn ==
  ASSUME TypeOK, TypeOK', TrustInv, NEW r \in Runner, UNCHANGED worldVars,
         pc[r] \in {"walk", "build"}, pc'[r] = "build",
         loaded'[r] = loaded[r], seen'[r] = seen[r], believed'[r] = believed[r],
         plan'[r] = plan[r], next'[r] = next[r],
         \A p \in Source : built'[r][p] = built[r][p] \/ built'[r][p] <= newest[p],
         PlanHolds(r) /\ CleanHolds(r) /\ SameRules(r)
           /\ (pc[r] = "build" => RecordsHold(r)) => RecordsHold(r)'
  PROVE  RunInv(r)'
<1>1. Drifts /\ RunBounded(r) /\ Faithful(loaded[r]) /\ RunHolds(r)
  BY StillDrifts DEF TrustInv, RunInv
<1>2. RunBounded(r)'
  BY <1>1, SlotBounded DEF worldVars
<1>3. Faithful(loaded[r])'
  BY <1>1, FaithfulStays DEF RunBounded
<1>4. TreeOf(believed[r].head)' = TreeOf(believed[r].head)
  BY DEF TreeOf, worldVars
<1>5. /\ PlannedRules(r)' = PlannedRules(r) /\ PlannedHidden(r)' = PlannedHidden(r)
      /\ \A p : Clean(r, p)' = Clean(r, p)
  BY <1>4 DEF PlannedRules, PlannedHidden, Clean
<1>6. (Standing(r)' <=> Standing(r)) /\ (SameRules(r)' <=> SameRules(r))
  BY <1>5 DEF Standing, SameRules, worldVars
<1>7. RulesHold(r)'
  BY <1>1, <1>5, <1>6 DEF RunHolds, RulesHold, worldVars
<1>8. PlanHolds(r) => PlanHolds(r)'
  BY <1>5 DEF PlanHolds, worldVars
<1>9. CleanHolds(r) => CleanHolds(r)'
  BY <1>5 DEF CleanHolds, worldVars
<1>10. BuildHolds(r)'
  BY <1>1, <1>6, <1>8, <1>9 DEF RunHolds, BuildHolds
<1>11. LookHolds(r)' /\ NothingBuilt(r)' /\ NextIsBuilt(r)' /\ ConfirmHolds(r)'
       /\ VerifyHolds(r)'
  BY DEF LookHolds, NothingBuilt, NextIsBuilt, ConfirmHolds, VerifyHolds
<1> QED
  BY <1>2, <1>3, <1>7, <1>10, <1>11 DEF RunInv, RunHolds

\* discover: what it leaves out is hidden or not there.
LEMMA WalkKnows ==
  ASSUME TypeOK, TypeOK', TrustInv, NEW r \in Runner, Walk(r)
  PROVE  RunInv(r)'
<1>1. UNCHANGED worldVars /\ pc[r] = "walk" /\ built[r] = NoRecords
  BY DEF Walk, TrustInv, RunInv, RunHolds, NothingBuilt
<1>2. /\ pc'[r] = "build" /\ todo'[r] = {p \in Source : Collected(p)}
      /\ loaded'[r] = loaded[r] /\ seen'[r] = seen[r] /\ believed'[r] = believed[r]
      /\ plan'[r] = plan[r] /\ next'[r] = next[r] /\ built'[r] = built[r]
  BY DEF Walk, TypeOK
<1>3. ASSUME SameRules(r) PROVE RecordsHold(r)'
  <2>1. PlannedHidden(r)' = Hidden
    BY <1>1, <1>2, <1>3 DEF PlannedHidden, PlannedRules, SameRules, Hidden, TreeOf, worldVars
  <2>2. \A p \in Source : built'[r][p] = Absent
    BY <1>1, <1>2 DEF NoRecords
  <2>3. UNCHANGED work
    BY <1>1 DEF worldVars
  <2> QED
    BY <1>2, <2>1, <2>2, <2>3 DEF RecordsHold, Collected
<1> QED
  BY <1>1, <1>2, <1>3, BuildGoesOn

\* What RecordsHold says of the next state, path by path.
LEMMA OneRecord ==
  ASSUME TypeOK, NEW r \in Runner, UNCHANGED worldVars, RecordsHold(r),
         loaded'[r] = loaded[r], believed'[r] = believed[r], plan'[r] = plan[r],
         NEW p \in Source, todo'[r] = todo[r] \ {p},
         \A q \in Source \ {p} : built'[r][q] = built[r][q],
         built'[r][p] # Absent => p \notin PlannedHidden(r),
         built'[r][p] = Absent => work[p] = Absent,
         built'[r][p] # Absent /\ believed[r].kinds[p] = {} => Clean(r, p) # Absent
  PROVE  RecordsHold(r)'
<1>1. TreeOf(believed[r].head)' = TreeOf(believed[r].head) /\ work' = work
  BY DEF TreeOf, worldVars
<1>2. /\ PlannedHidden(r)' = PlannedHidden(r)
      /\ \A q : Clean(r, q)' = Clean(r, q)
  BY <1>1 DEF PlannedRules, PlannedHidden, Clean
<1> QED
  BY <1>1, <1>2 DEF RecordsHold

\* Worker::retain: the plan vouches for what is retained.
LEMMA RetainKnows ==
  ASSUME TypeOK, TypeOK', TrustInv, NEW r \in Runner, NEW p \in Source, Retain(r, p)
  PROVE  RunInv(r)'
<1>1. UNCHANGED worldVars /\ pc[r] = "build" /\ p \in todo[r] /\ RunBounded(r)
  BY DEF Retain, TrustInv, RunInv
<1>2. Retained(plan[r], loaded[r], p) = loaded[r].files[p]
      /\ plan[r].mode = "Incremental" /\ p \notin plan[r].touched
      /\ loaded[r].files[p] # Absent
  BY DEF Retain, Retained
<1>3. built[r] \in [Source -> Version] /\ built' =
        [built EXCEPT ![r] = [built[r] EXCEPT ![p] = Retained(plan[r], loaded[r], p)]]
  BY DEF Retain, TypeOK, Records
<1>4. /\ built'[r][p] = loaded[r].files[p]
      /\ \A q \in Source \ {p} : built'[r][q] = built[r][q]
  BY <1>2, <1>3 DEF TypeOK
<1>5. /\ pc'[r] = "build" /\ todo'[r] = todo[r] \ {p}
      /\ loaded'[r] = loaded[r] /\ seen'[r] = seen[r] /\ believed'[r] = believed[r]
      /\ plan'[r] = plan[r] /\ next'[r] = next[r]
  BY <1>1 DEF Retain, TypeOK
<1>6. \A q \in Source : built'[r][q] = built[r][q] \/ built'[r][q] <= newest[q]
  BY <1>1, <1>4 DEF RunBounded, SnapshotBounded
<1>7. ASSUME PlanHolds(r), RecordsHold(r) PROVE RecordsHold(r)'
  <2>1. p \notin PlannedHidden(r)
    BY <1>1, <1>7 DEF RecordsHold
  <2>2. believed[r].kinds[p] = {} => Clean(r, p) # Absent
    BY <1>2, <1>7 DEF PlanHolds
  <2> QED
    BY <1>1, <1>2, <1>4, <1>5, <1>7, <2>1, <2>2, OneRecord
<1> QED
  BY <1>1, <1>5, <1>6, <1>7, BuildGoesOn

\* Worker::process: a file that is read is there, and no rule hid it.
LEMMA ProcessKnows ==
  ASSUME TypeOK, TypeOK', TrustInv, NEW r \in Runner, NEW p \in Source, Process(r, p)
  PROVE  RunInv(r)'
<1>1. UNCHANGED worldVars /\ pc[r] = "build" /\ p \in todo[r] /\ work[p] <= newest[p]
  BY DEF Process, TrustInv, WorldBounded, Path
<1>2. \/ work[p] = Absent /\ built' = built
      \/ work[p] # Absent /\ built' = [built EXCEPT ![r] = [built[r] EXCEPT ![p] = work[p]]]
  BY DEF Process
<1>3. built[r] \in [Source -> Version]
  BY DEF TypeOK, Records
<1>4. /\ \/ work[p] = Absent /\ built'[r][p] = built[r][p]
         \/ work[p] # Absent /\ built'[r][p] = work[p]
      /\ \A q \in Source \ {p} : built'[r][q] = built[r][q]
  BY <1>2, <1>3 DEF TypeOK
<1>5. /\ pc'[r] = "build" /\ todo'[r] = todo[r] \ {p}
      /\ loaded'[r] = loaded[r] /\ seen'[r] = seen[r] /\ believed'[r] = believed[r]
      /\ plan'[r] = plan[r] /\ next'[r] = next[r]
  BY <1>1 DEF Process, TypeOK
<1>6. \A q \in Source : built'[r][q] = built[r][q] \/ built'[r][q] <= newest[q]
  BY <1>1, <1>4
<1>7. ASSUME CleanHolds(r), RecordsHold(r) PROVE RecordsHold(r)'
  <2>1. p \notin PlannedHidden(r)
    BY <1>1, <1>7 DEF RecordsHold
  <2>2. built'[r][p] # Absent /\ believed[r].kinds[p] = {} => Clean(r, p) # Absent
    BY <1>4, <1>7, <2>1 DEF RecordsHold, CleanHolds
  <2>3. built'[r][p] = Absent => work[p] = Absent
    BY <1>4
  <2> QED
    BY <1>1, <1>4, <1>5, <1>7, <2>1, <2>2, <2>3, OneRecord
<1> QED
  BY <1>1, <1>5, <1>6, <1>7, BuildGoesOn

\* assemble: where HEAD, the index and the rules stand as planned, what is
\* written down is what was built, and what is left out is accounted for.
LEMMA AssembleKnows ==
  ASSUME TypeOK, TypeOK', TrustInv, NEW r \in Runner, Assemble(r)
  PROVE  RunInv(r)'
<1> DEFINE inherited == IF EmptyDelta(plan[r]) THEN loaded[r].gone ELSE {}
           meta == MetaFor(built[r], vanished[r], inherited, believed[r])
<1>1. UNCHANGED worldVars /\ Drifts /\ pc[r] = "build" /\ todo[r] = {}
      /\ RunBounded(r) /\ Faithful(loaded[r]) /\ RunHolds(r)
  BY StillDrifts DEF Assemble, TrustInv, RunInv
<1>2. /\ seen'[r] = [head |-> head, index |-> indexStamp, kinds |-> NoKinds]
      /\ todo'[r] = Path /\ LookBounded(seen[r])'
  BY <1>1, LookBegins DEF Assemble
<1>3. /\ pc'[r] = "confirm" /\ next'[r] = meta
      /\ loaded'[r] = loaded[r] /\ believed'[r] = believed[r] /\ plan'[r] = plan[r]
      /\ built'[r] = built[r]
  BY <1>1 DEF Assemble, TypeOK
<1>4. /\ meta.files = built[r] /\ meta.head = head /\ meta.digest = Digest(believed[r].kinds)
      /\ meta.dirty = {p \in Source : believed[r].kinds[p] # {} /\ built[r][p] # Absent}
      /\ meta.skipped = {p \in Source : /\ believed[r].kinds[p] \ {"Deleted"} # {}
                                        /\ built[r][p] = Absent
                                        /\ p \notin vanished[r]
                                        /\ work[p] # Absent}
      /\ meta.gone = {p \in Source : /\ built[r][p] = Absent
                                     /\ "Deleted" \in believed[r].kinds[p] \/ p \in inherited}
  BY DEF MetaFor
<1>5. RunBounded(r)'
  <2>1. SnapshotBounded(next[r])'
    BY <1>1, <1>3, <1>4, WorldNumbers DEF SnapshotBounded, RunBounded, worldVars
  <2> QED
    BY <1>1, <1>2, <1>3, <2>1, SlotBounded
<1>6. Faithful(loaded[r])'
  BY <1>1, <1>3, FaithfulStays DEF RunBounded
<1>7. TreeOf(believed[r].head)' = TreeOf(believed[r].head)
  BY <1>1, <1>3 DEF TreeOf, worldVars
<1>8. /\ PlannedRules(r)' = PlannedRules(r) /\ PlannedHidden(r)' = PlannedHidden(r)
      /\ \A p : Clean(r, p)' = Clean(r, p)
  BY <1>3, <1>7 DEF PlannedRules, PlannedHidden, Clean
<1>9. /\ Steady(r)' => Standing(r)
      /\ SameRules(r)' <=> SameRules(r)
  BY <1>1, <1>2, <1>3, <1>8 DEF Steady, Standing, SameRules, worldVars
<1>10. RulesHold(r)'
  BY <1>1, <1>3, <1>8, <1>9 DEF RunHolds, RulesHold, worldVars
<1>11. work[RuleFile] \in Nat
  BY WorldNumbers DEF Path
<1>12. meta.digest = 0 <=> believed[r].kinds[RuleFile] = {}
  BY <1>4, <1>11 DEF Digest
<1>13. NextIsBuilt(r)'
  BY <1>1, <1>2, <1>3, <1>4, <1>12 DEF NextIsBuilt
<1>14. ConfirmHolds(r)'
  <2> SUFFICES ASSUME Standing(r), SameRules(r) PROVE ConfirmHolds(r)'
    BY <1>2, <1>9 DEF ConfirmHolds, Path
  <2>1. PlanHolds(r) /\ RecordsHold(r)
    BY <1>1 DEF RunHolds, BuildHolds
  <2>2. RulesOf(next[r])' = PlannedRules(r)'
    <3>1. plan[r].digest = 0 <=> believed[r].kinds[RuleFile] = {}
      BY <1>1 DEF RunHolds, RulesHold
    <3>2. CASE meta.digest = 0
      <4>1. next'[r].head = head /\ next'[r].digest = 0
        BY <1>3, <1>4, <3>2
      <4>2. TreeOf(next[r].head)' = TreeOf(believed[r].head)
        BY <1>1, <4>1 DEF Standing, TreeOf, worldVars
      <4> QED
        BY <1>8, <1>12, <3>1, <3>2, <4>1, <4>2 DEF RulesOf, PlannedRules
    <3>3. CASE meta.digest # 0
      <4>1. meta.digest = work[RuleFile] + 1
        BY <1>4, <1>12, <3>3 DEF Digest
      <4>2. RulesOf(next[r])' = work[RuleFile]
        BY <1>3, <1>11, <3>3, <4>1 DEF RulesOf
      <4> QED
        BY <1>8, <4>2 DEF SameRules
    <3> QED
      BY <3>2, <3>3
  <2>3. AsBuilt(r)'
    <3>1. ASSUME NEW p \in Source, EmptyDelta(plan[r]), loaded[r].files[p] = Absent
          PROVE  \/ p \in PlannedHidden(r) \/ work[p] = Absent
                 \/ /\ believed[r].kinds[p] = {}
                    /\ Clean(r, p) = Absent \/ p \in inherited
                 \/ believed[r].kinds[p] = {"Deleted"}
      BY <2>1, <3>1 DEF PlanHolds, EmptyDelta
    <3>2. ASSUME NEW p \in Source, p \in meta.skipped PROVE p \in PlannedHidden(r)
      BY <1>1, <1>4, <2>1, <3>1, <3>2 DEF RecordsHold
    <3>3. ASSUME NEW p \in Source, built[r][p] = Absent
          PROVE  \/ p \in meta.gone \/ p \in PlannedHidden(r) \/ work[p] = Absent
                 \/ believed[r].kinds[p] = {} /\ Clean(r, p) = Absent
      BY <1>1, <1>4, <2>1, <3>1, <3>3 DEF RecordsHold
    <3>4. ASSUME NEW p \in Source, built[r][p] # Absent
          PROVE  /\ p \notin PlannedHidden(r)
                 /\ believed[r].kinds[p] = {} => Clean(r, p) # Absent
      BY <2>1, <3>4 DEF RecordsHold
    <3>5. ASSUME NEW p \in Source, built[r][p] # Absent, believed[r].kinds[p] = {},
                 p \notin Acquired(r)
          PROVE  built[r][p] = Clean(r, p)
      BY <2>1, <3>5 DEF Acquired, Retained, PlanHolds
    <3>6. Acquired(r)' = Acquired(r) /\ work' = work
      BY <1>1, <1>3 DEF Acquired, Retained, worldVars
    <3> QED
      BY <1>3, <1>8, <3>2, <3>3, <3>4, <3>5, <3>6 DEF AsBuilt
  <2> QED
    BY <1>2, <2>2, <2>3 DEF ConfirmHolds, Path
<1>15. LookHolds(r)' /\ NothingBuilt(r)' /\ BuildHolds(r)' /\ VerifyHolds(r)'
  BY <1>3 DEF LookHolds, NothingBuilt, BuildHolds, VerifyHolds
<1> QED
  BY <1>5, <1>6, <1>10, <1>13, <1>14, <1>15 DEF RunInv, RunHolds

\* A path scanned for the confirmation, as the plan saw it: what was built is
\* what its commit has, or one of the two will not be seen again.
LEMMA PathIsConfirmed ==
  ASSUME TypeOK, TrustInv, NEW r \in Runner, pc[r] = "confirm", Steady(r),
         RulesOf(next[r]) = PlannedRules(r), AsBuilt(r),
         NEW p \in Source, Status(p) = believed[r].kinds[p]
  PROVE  PathConfirmed(r, p)
<1> SUFFICES ASSUME p \notin next[r].dirty
             PROVE  RecordHolds(next[r], p) \/ Lost(p, built[r][p])
  BY DEF PathConfirmed
<1>1. NextIsBuilt(r) /\ RunBounded(r)
  BY DEF TrustInv, RunInv, RunHolds
<1>2. /\ next[r].files = built[r] /\ next[r].head = believed[r].head
      /\ p \notin next[r].dirty => believed[r].kinds[p] = {} \/ built[r][p] = Absent
      /\ "Deleted" \in believed[r].kinds[p] /\ built[r][p] = Absent => p \in next[r].gone
  BY <1>1 DEF NextIsBuilt, Steady
<1>3. /\ HiddenBy(next[r]) = PlannedHidden(r)
      /\ TreeOf(next[r].head)[p] = Clean(r, p)
  BY <1>2 DEF HiddenBy, PlannedHidden, Clean
<1>4. Clean(r, p) <= newest[p] /\ built[r][p] <= newest[p] /\ p \in Path
  BY <1>1, TreesBounded DEF Clean, RunBounded, LookBounded, TrustInv, Path
<1>5. CASE built[r][p] # Absent
  <2>1. believed[r].kinds[p] = {} /\ Clean(r, p) # Absent /\ p \notin PlannedHidden(r)
    BY <1>2, <1>5 DEF AsBuilt
  <2>2. index[p] # Absent => work[p] = index[p]
    BY <1>4, <2>1, CleanStatus
  <2>3. CASE built[r][p] = Clean(r, p)
    BY <1>2, <1>3, <2>1, <2>3 DEF RecordHolds, CleanRecord
  <2>4. CASE built[r][p] # Clean(r, p)
    <3>1. Lost(p, built[r][p]) \/ Lost(p, Clean(r, p))
      BY <1>4, <1>5, <2>1, <2>2, <2>4 DEF Lost
    <3> QED
      BY <1>3, <3>1 DEF RecordHolds
  <2> QED
    BY <2>3, <2>4
<1>6. CASE built[r][p] = Absent
  <2>1. \/ p \in next[r].gone \/ p \in PlannedHidden(r) \/ work[p] = Absent
        \/ Clean(r, p) = Absent
    BY <1>6 DEF AsBuilt
  <2>2. CASE p \in next[r].gone \/ p \in PlannedHidden(r) \/ Clean(r, p) = Absent
    BY <1>2, <1>3, <1>6, <2>2 DEF RecordHolds, CleanRecord
  <2>3. CASE work[p] = Absent /\ Status(p) = {} /\ Clean(r, p) # Absent
    <3>1. index[p] = Absent
      BY <1>4, <2>3, CleanStatus
    <3>2. Lost(p, Clean(r, p))
      BY <1>4, <2>3, <3>1 DEF Lost
    <3> QED
      BY <1>3, <3>2 DEF RecordHolds
  <2>4. CASE work[p] = Absent /\ Status(p) # {}
    <3>1. p \in next[r].gone
      BY <1>2, <1>4, <1>6, <2>4, GoneStatus
    <3> QED
      BY <1>2, <1>6, <3>1 DEF RecordHolds
  <2> QED
    BY <2>1, <2>2, <2>3, <2>4
<1> QED
  BY <1>5, <1>6

\* A step of the confirming scan.
LEMMA ConfirmScanKnows ==
  ASSUME TypeOK, TypeOK', TrustInv, NEW r \in Runner, NEW p \in Path, Scan(r, p),
         pc[r] = "confirm"
  PROVE  RunInv(r)'
<1> USE Scanned
<1>1. UNCHANGED worldVars /\ Drifts /\ RunBounded(r) /\ Faithful(loaded[r]) /\ RunHolds(r)
  BY StillDrifts DEF TrustInv, RunInv
<1>2. RunBounded(r)'
  <2>1. LookBounded(seen[r])'
    BY <1>1 DEF RunBounded, LookBounded, worldVars
  <2> QED
    BY <1>1, <2>1, SlotBounded
<1>3. Faithful(loaded[r])'
  BY <1>1, FaithfulStays DEF RunBounded
<1>4. TreeOf(believed[r].head)' = TreeOf(believed[r].head)
      /\ TreeOf(next[r].head)' = TreeOf(next[r].head)
  BY <1>1 DEF TreeOf, worldVars
<1>5. /\ PlannedRules(r)' = PlannedRules(r) /\ PlannedHidden(r)' = PlannedHidden(r)
      /\ \A q : Clean(r, q)' = Clean(r, q)
      /\ RulesOf(next[r])' = RulesOf(next[r])
  BY <1>4 DEF PlannedRules, PlannedHidden, Clean, RulesOf
<1>6. (Steady(r)' <=> Steady(r)) /\ (SameRules(r)' <=> SameRules(r))
  BY <1>1, <1>5 DEF Steady, SameRules, worldVars
<1>7. RulesHold(r)'
  BY <1>1, <1>5, <1>6 DEF RunHolds, RulesHold, worldVars
<1>8. NextIsBuilt(r)'
  BY <1>1 DEF RunHolds, NextIsBuilt
<1>9. ConfirmHolds(r)'
  <2> SUFFICES ASSUME Steady(r) PROVE ConfirmHolds(r)'
    BY <1>6 DEF ConfirmHolds
  <2>1. CASE /\ ~SameRules(r)
             /\ ~(plan[r].digest = 0 /\ RuleFile \notin todo[r] /\ seen[r].kinds[RuleFile] = {})
    <3>1. CASE plan[r].digest = 0 /\ RuleFile = p /\ Status(p) = {}
      <4>1. index[RuleFile] # Absent => work[RuleFile] = index[RuleFile]
        BY <3>1, CleanStatus
      <4>2. /\ PlannedRules(r) <= newest[RuleFile]
            /\ PlannedRules(r) = Absent => work[RuleFile] = Absent
        BY <1>1 DEF RunHolds, RulesHold
      <4>3. Lost(RuleFile, PlannedRules(r))
        BY <2>1, <4>1, <4>2 DEF Lost, SameRules
      <4>4. Lost(RuleFile, PlannedRules(r))'
        BY <1>1, <1>5, <4>3 DEF Lost, worldVars
      <4> QED
        BY <3>1, <4>4 DEF ConfirmHolds
    <3>2. CASE ~(plan[r].digest = 0 /\ RuleFile = p /\ Status(p) = {})
      <4>1. ~(plan[r].digest = 0 /\ RuleFile \notin todo'[r] /\ seen'[r].kinds[RuleFile] = {})
        BY <2>1, <3>2 DEF Path
      <4> QED
        BY <1>6, <2>1, <4>1 DEF ConfirmHolds
    <3> QED
      BY <3>1, <3>2
  <2>2. CASE plan[r].digest = 0 /\ Lost(RuleFile, PlannedRules(r))
    <3>1. Lost(RuleFile, PlannedRules(r))'
      BY <1>1, <1>5, <2>2 DEF Lost, worldVars
    <3> QED
      BY <2>2, <3>1 DEF ConfirmHolds
  <2>3. CASE /\ RulesOf(next[r]) = PlannedRules(r)
             /\ AsBuilt(r)
             /\ \A q \in Source \ todo[r] :
                  seen[r].kinds[q] = believed[r].kinds[q] => PathConfirmed(r, q)
    <3>1. AsBuilt(r)'
      BY <1>1, <1>5, <2>3 DEF AsBuilt, Acquired, Retained, worldVars
    <3>2. ASSUME NEW q \in Source \ todo'[r], seen'[r].kinds[q] = believed[r].kinds[q]
          PROVE  PathConfirmed(r, q)
      <4>1. CASE q = p
        BY <2>3, <3>2, <4>1, PathIsConfirmed
      <4>2. CASE q # p
        BY <2>3, <3>2, <4>2 DEF Path
      <4> QED
        BY <4>1, <4>2
    <3>3. ASSUME NEW q \in Source, PathConfirmed(r, q) PROVE PathConfirmed(r, q)'
      <4>1. RecordHolds(next[r], q)' <=> RecordHolds(next[r], q)
        BY <1>1, <1>4, <1>5 DEF RecordHolds, CleanRecord, HiddenBy, Lost, worldVars
      <4>2. Lost(q, built[r][q])' <=> Lost(q, built[r][q])
        BY <1>1 DEF Lost, worldVars
      <4> QED
        BY <3>3, <4>1, <4>2 DEF PathConfirmed
    <3> QED
      BY <1>5, <2>3, <3>1, <3>2, <3>3 DEF ConfirmHolds
  <2> QED
    BY <1>1, <2>1, <2>2, <2>3 DEF RunHolds, ConfirmHolds
<1>10. LookHolds(r)' /\ NothingBuilt(r)' /\ BuildHolds(r)' /\ VerifyHolds(r)'
  BY DEF LookHolds, NothingBuilt, BuildHolds, VerifyHolds
<1> QED
  BY <1>2, <1>3, <1>7, <1>8, <1>9, <1>10 DEF RunInv, RunHolds

\* confirm_unchanged passes: what is left to doubt is what is about to be
\* reread.
LEMMA ConfirmKnows ==
  ASSUME TypeOK, TypeOK', TrustInv, NEW r \in Runner, Confirm(r)
  PROVE  RunInv(r)'
<1>1. UNCHANGED worldVars /\ Drifts /\ pc[r] = "confirm" /\ todo[r] = {} /\ Unchanged(r)
      /\ RunBounded(r) /\ Faithful(loaded[r]) /\ RunHolds(r)
  BY StillDrifts DEF Confirm, TrustInv, RunInv
<1>2. /\ pc'[r] = "verify" /\ todo'[r] = Acquired(r) /\ next'[r] = next[r]
      /\ loaded'[r] = loaded[r] /\ seen'[r] = seen[r] /\ believed'[r] = believed[r]
      /\ plan'[r] = plan[r] /\ built'[r] = built[r]
  BY <1>1 DEF Confirm, TypeOK
<1>3. RunBounded(r)' /\ Faithful(loaded[r])'
  BY <1>1, <1>2, SlotBounded, FaithfulStays DEF RunBounded
<1>4. Steady(r) /\ seen[r] = believed[r] /\ Digest(seen[r].kinds) = plan[r].digest
  BY <1>1 DEF Unchanged, Steady
<1>5. NextIsBuilt(r)'
  BY <1>1, <1>2 DEF RunHolds, NextIsBuilt
<1>6. /\ next[r].files = built[r] /\ next[r].head = believed[r].head
      /\ next[r].digest = 0 <=> believed[r].kinds[RuleFile] = {}
      /\ \A p \in Source \ next[r].dirty : believed[r].kinds[p] = {} \/ built[r][p] = Absent
  BY <1>1, <1>4 DEF RunHolds, NextIsBuilt
<1>7. /\ plan[r].digest = 0 <=> believed[r].kinds[RuleFile] = {}
      /\ plan[r].digest # 0 => SameRules(r)
  <2>1. work[RuleFile] \in Nat
    BY WorldNumbers DEF Path
  <2> QED
    BY <1>4, <2>1 DEF Digest, SameRules, PlannedRules
<1>8. RulesOf(next[r])' = RulesOf(next[r]) /\ HiddenBy(next[r])' = HiddenBy(next[r])
      /\ (\A p \in Source : RecordHolds(next[r], p) => RecordHolds(next[r], p)')
  BY <1>1, <1>2, RulesStay, RecordStays DEF RunBounded
<1>9. VerifyHolds(r)'
  <2>1. CASE plan[r].digest = 0 /\ Lost(RuleFile, PlannedRules(r))
    <3>1. RulesOf(next[r]) = PlannedRules(r)
      BY <1>6, <1>7, <2>1 DEF RulesOf, PlannedRules
    <3>2. Lost(RuleFile, RulesOf(next[r]))'
      BY <1>1, <1>8, <2>1, <3>1 DEF Lost, worldVars
    <3> QED
      BY <1>2, <1>6, <1>7, <2>1, <3>2 DEF VerifyHolds
  <2>2. CASE /\ RulesOf(next[r]) = PlannedRules(r)
             /\ AsBuilt(r)
             /\ \A p \in Source : PathConfirmed(r, p)
    <3>1. HiddenBy(next[r]) = PlannedHidden(r)
      BY <2>2 DEF HiddenBy, PlannedHidden
    <3>2. /\ next[r].skipped \subseteq HiddenBy(next[r])
          /\ \A p \in Source : next[r].files[p] # Absent => p \notin HiddenBy(next[r])
      BY <1>6, <2>2, <3>1 DEF AsBuilt, TypeOK, Snapshots
    <3>3. ASSUME NEW p \in Source, p \notin next[r].dirty, ~RecordHolds(next[r], p)
          PROVE  p \in Acquired(r) /\ Lost(p, next[r].files[p])
      <4>1. Lost(p, built[r][p])
        BY <2>2, <3>3 DEF PathConfirmed
      <4>2. built[r][p] # Absent /\ believed[r].kinds[p] = {}
        BY <1>6, <3>3, <4>1 DEF Lost
      <4>3. TreeOf(next[r].head)[p] = Clean(r, p)
        BY <1>6 DEF Clean
      <4>4. built[r][p] # Clean(r, p)
        BY <3>3, <4>1, <4>3 DEF RecordHolds
      <4> QED
        BY <1>6, <2>2, <4>1, <4>2, <4>4 DEF AsBuilt
    <3>4. ASSUME NEW p \in Source, Lost(p, next[r].files[p]) PROVE Lost(p, next[r].files[p])'
      BY <1>1, <1>2, <3>4 DEF Lost, worldVars
    <3> QED
      BY <1>2, <1>8, <3>2, <3>3, <3>4 DEF VerifyHolds
  <2> QED
    BY <1>1, <1>4, <1>7, <2>1, <2>2 DEF RunHolds, ConfirmHolds
<1>10. LookHolds(r)' /\ RulesHold(r)' /\ BuildHolds(r)' /\ NothingBuilt(r)' /\ ConfirmHolds(r)'
  BY <1>2 DEF LookHolds, RulesHold, BuildHolds, NothingBuilt, ConfirmHolds
<1> QED
  BY <1>3, <1>5, <1>9, <1>10 DEF RunInv, RunHolds

\* confirm_content on one path: bytes that are there are not lost.
LEMMA RereadKnows ==
  ASSUME TypeOK, TypeOK', TrustInv, NEW r \in Runner, NEW p \in Source, Reread(r, p)
  PROVE  RunInv(r)'
<1>1. UNCHANGED worldVars /\ Drifts /\ pc[r] = "verify" /\ work[p] = built[r][p]
      /\ RunBounded(r) /\ Faithful(loaded[r]) /\ RunHolds(r)
  BY StillDrifts DEF Reread, TrustInv, RunInv
<1>2. /\ pc'[r] = "verify" /\ todo'[r] = todo[r] \ {p} /\ next'[r] = next[r]
      /\ loaded'[r] = loaded[r] /\ seen'[r] = seen[r] /\ believed'[r] = believed[r]
      /\ plan'[r] = plan[r] /\ built'[r] = built[r]
  BY <1>1 DEF Reread, TypeOK
<1>3. RunBounded(r)' /\ Faithful(loaded[r])'
  BY <1>1, <1>2, SlotBounded, FaithfulStays DEF RunBounded
<1>4. NextIsBuilt(r)' /\ next[r].files = built[r]
  BY <1>1, <1>2 DEF RunHolds, NextIsBuilt
<1>5. ~Lost(p, next[r].files[p])
  BY <1>1, <1>4 DEF Lost
<1>6. RulesOf(next[r])' = RulesOf(next[r]) /\ HiddenBy(next[r])' = HiddenBy(next[r])
      /\ (\A q \in Source : RecordHolds(next[r], q) => RecordHolds(next[r], q)')
  BY <1>1, <1>2, RulesStay, RecordStays DEF RunBounded
<1>7. UNCHANGED <<work, index, newest>>
  BY <1>1 DEF worldVars
<1>8. VerifyHolds(r)'
  BY <1>1, <1>2, <1>5, <1>6, <1>7 DEF RunHolds, VerifyHolds, Lost
<1>9. LookHolds(r)' /\ RulesHold(r)' /\ BuildHolds(r)' /\ NothingBuilt(r)' /\ ConfirmHolds(r)'
  BY <1>2 DEF LookHolds, RulesHold, BuildHolds, NothingBuilt, ConfirmHolds
<1> QED
  BY <1>3, <1>4, <1>8, <1>9 DEF RunInv, RunHolds

\* Publishing: what was confirmed and reread is faithful.
LEMMA PublishKnows ==
  ASSUME TypeOK, TypeOK', TrustInv, NEW r \in Runner, Publish(r)
  PROVE  RunInv(r)' /\ SnapshotBounded(snapshot)' /\ Faithful(snapshot)'
<1>1. UNCHANGED worldVars /\ Drifts /\ pc[r] = "verify" /\ todo[r] = {}
      /\ RunBounded(r) /\ Faithful(loaded[r]) /\ RunHolds(r)
  BY StillDrifts DEF Publish, Prepared, TrustInv, RunInv
<1>2. /\ pc'[r] = "published" /\ next'[r] = next[r] /\ snapshot' = next[r]
      /\ loaded'[r] = loaded[r] /\ seen'[r] = seen[r] /\ believed'[r] = believed[r]
      /\ built'[r] = built[r]
  BY <1>1 DEF Publish, TypeOK
<1>3. RunBounded(r)' /\ Faithful(loaded[r])'
  BY <1>1, <1>2, SlotBounded, FaithfulStays DEF RunBounded
<1>4. Faithful(next[r])
  BY <1>1 DEF RunHolds, VerifyHolds, Faithful
<1>5. Faithful(next[r])' /\ SnapshotBounded(next[r])'
  BY <1>1, <1>2, <1>3, <1>4, FaithfulStays DEF RunBounded
<1>6. snapshot' = next'[r]
  BY <1>2
<1>7. Faithful(snapshot)' /\ SnapshotBounded(snapshot)'
  BY <1>5, <1>6
<1> QED
  BY <1>2, <1>3, <1>7, IdleKnows

----------------------------------------------------------------------------
(* Every step.                                                             *)

\* At the start there is nothing to believe.
LEMMA InitTrust == RefreshInit => TrustInv
<1> SUFFICES ASSUME RefreshInit PROVE TrustInv
  OBVIOUS
<1>1. TypeOK
  BY InitTypeOK
<1>2. WorldBounded
  <2>1. PICK tree \in InitialTrees :
          commits = <<tree>> /\ index = tree /\ work = tree /\ newest = tree
    BY DEF RefreshInit, Init
  <2>2. tree \in Tree
    BY TreeAssumption
  <2>3. \A p \in Path : tree[p] \in Nat
    BY <2>2 DEF Tree, Version
  <2> QED
    BY <2>1, <2>3 DEF WorldBounded
<1>3. ASSUME NEW r \in Runner PROVE RunInv(r)
  <2>1. /\ pc[r] = "idle" /\ built[r] = NoRecords
        /\ loaded[r] = NoSnapshot /\ next[r] = NoSnapshot
        /\ seen[r] = NoObservation /\ believed[r] = NoObservation
    BY DEF RefreshInit, RunInit
  <2>2. RunBounded(r) /\ Faithful(loaded[r])
    BY <1>1, <2>1, NothingBounded DEF RunBounded
  <2> QED
    BY <2>1, <2>2 DEF RunInv, RunHolds, LookHolds, RulesHold, BuildHolds, NothingBuilt,
       NextIsBuilt, ConfirmHolds, VerifyHolds
<1>4. SnapshotBounded(snapshot) /\ Faithful(snapshot)
  BY <1>1, NothingBounded DEF RefreshInit, RunInit
<1> QED
  BY <1>2, <1>3, <1>4 DEF TrustInv

\* Every step of a run.
LEMMA StepTrust ==
  ASSUME TypeOK, TypeOK', TrustInv, NEW r \in Runner, Start(r) \/ Step(r) \/ Interrupt(r)
  PROVE  TrustInv'
<1>0. UNCHANGED worldVars /\ \A q \in Runner \ {r} : Rests(q)
  BY OthersRest
<1>1. ASSUME RunInv(r)', UNCHANGED snapshot PROVE TrustInv'
  BY <1>0, <1>1, OneSteps
<1>2. ASSUME NEW held, End(r, held) PROVE TrustInv'
  BY <1>1, <1>2, EndKnows DEF End
<1>3. ASSUME \/ UpToDate(r) \/ HoldNothing(r) \/ Locked(r) \/ Moved(r) \/ Finish(r)
             \/ Interrupt(r) \/ \E p \in Source : Differs(r, p)
      PROVE  TrustInv'
  BY <1>2, <1>3 DEF UpToDate, HoldNothing, Locked, Moved, Finish, Interrupt, Refuse, Cancel,
     Die, KillHard, Differs, Return
<1>4. ASSUME Start(r) \/ TextStale(r) \/ Decide(r) \/ Hold(r) PROVE TrustInv'
  <2>1. UNCHANGED snapshot
    BY <1>4 DEF Start, TextStale, Decide, Hold
  <2> QED
    BY <1>1, <1>4, <2>1, EarlyKnows
<1>5. ASSUME Acquire(r) PROVE TrustInv'
  BY <1>1, <1>5, AcquireKnows DEF Acquire
<1>6. ASSUME Replan(r) PROVE TrustInv'
  BY <1>1, <1>6, ReplanKnows DEF Replan
<1>7. ASSUME Walk(r) PROVE TrustInv'
  BY <1>1, <1>7, WalkKnows DEF Walk
<1>8. ASSUME NEW p \in Source, Retain(r, p) PROVE TrustInv'
  BY <1>1, <1>8, RetainKnows DEF Retain
<1>9. ASSUME NEW p \in Source, Process(r, p) PROVE TrustInv'
  BY <1>1, <1>9, ProcessKnows DEF Process
<1>10. ASSUME Assemble(r) PROVE TrustInv'
  BY <1>1, <1>10, AssembleKnows DEF Assemble
<1>11. ASSUME NEW p \in Path, Scan(r, p) PROVE TrustInv'
  BY <1>1, <1>11, ScanKnows, ConfirmScanKnows DEF Scan
<1>12. ASSUME Confirm(r) PROVE TrustInv'
  BY <1>1, <1>12, ConfirmKnows DEF Confirm
<1>13. ASSUME NEW p \in Source, Reread(r, p) PROVE TrustInv'
  BY <1>1, <1>13, RereadKnows DEF Reread
<1>14. ASSUME Publish(r) PROVE TrustInv'
  BY <1>0, <1>14, PublishKnows, OneSteps
<1> QED
  BY <1>3, <1>4, <1>5, <1>6, <1>7, <1>8, <1>9, <1>10, <1>11, <1>12, <1>13, <1>14
     DEF Step

\* A step of the world around the runs drifts, bounds kept.
LEMMA WorldDrifts ==
  ASSUME TypeOK, TrustInv, Flickers = {},
         Change \/ LoseSnapshot \/ RemoveStaleLock \/ UNCHANGED vars
  PROVE  Drifts /\ WorldBounded'
<1>1. CASE Change
  BY <1>1, ChangeDrifts DEF TrustInv, RunInv
<1>2. CASE LoseSnapshot
  <2>1. UNCHANGED <<commits, head, index, indexStamp, work, newest>>
    BY <1>2 DEF LoseSnapshot
  <2>2. \A c \in 0..Len(commits) : TreeOf(c)' = TreeOf(c)
    BY <2>1 DEF TreeOf
  <2> QED
    BY <2>1, <2>2, WorldNumbers DEF Drifts, TrustInv, WorldBounded
<1>3. CASE RemoveStaleLock \/ UNCHANGED vars
  <2>1. UNCHANGED worldVars
    BY <1>3 DEF RemoveStaleLock, vars
  <2> QED
    BY <2>1, StillDrifts DEF TrustInv, WorldBounded, worldVars
<1> QED
  BY <1>1, <1>2, <1>3

\* A step of the world around the runs: they all rest.
LEMMA WorldTrust ==
  ASSUME TypeOK, TypeOK', TrustInv, Flickers = {},
         Change \/ LoseSnapshot \/ RemoveStaleLock \/ UNCHANGED vars
  PROVE  TrustInv'
<1>1. \A r \in Runner : Rests(r)
  BY DEF Change, LoseSnapshot, RemoveStaleLock, vars, runVars, Rests
<1>2. Drifts /\ WorldBounded'
  BY WorldDrifts
<1>3. SnapshotBounded(snapshot)' /\ Faithful(snapshot)'
  <2>1. CASE LoseSnapshot
    <3>1. snapshot' = NoSnapshot \/ snapshot' = DamagedSnapshot
      BY <2>1 DEF LoseSnapshot
    <3>2. UNCHANGED <<commits, work, index, newest>>
      BY <2>1 DEF LoseSnapshot
    <3> QED
      BY <3>1, <3>2, NothingBounded
         DEF SnapshotBounded, Faithful, NoSnapshot, DamagedSnapshot
  <2>2. CASE Change \/ RemoveStaleLock \/ UNCHANGED vars
    BY <1>2, <2>2, SnapshotStays DEF Change, RemoveStaleLock, vars
  <2> QED
    BY <2>1, <2>2
<1> QED
  BY <1>1, <1>2, <1>3, RunStays DEF TrustInv

\* What runs know and what snapshots say is never undone, unless files or
\* rules flicker under a build.
THEOREM TrustIsKept == Flickers = {} => (Spec => []TrustInv)
<1> SUFFICES ASSUME Flickers = {} PROVE Spec => []TrustInv
  OBVIOUS
<1>1. TypeOK /\ TypeOK' /\ TrustInv /\ [RefreshNext]_vars => TrustInv'
  BY StepTrust, WorldTrust DEF RefreshNext
<1> QED
  BY <1>1, InitTrust, TypeCorrect, PTL DEF Spec

----------------------------------------------------------------------------
(* What a faithful snapshot is good for.                                   *)

\* Rule files are never hidden, so clean rules are the rules of HEAD.
LEMMA CleanRules ==
  ASSUME TypeOK, Status(RuleFile) = {}
  PROVE  work[RuleFile] = TreeOf(head)[RuleFile]
<1>1. work[RuleFile] \in 0..MaxVersion /\ RuleFile \in Path
  BY DEF TypeOK, WorldType, Tree, Path, Version
<1>2. RuleFile \notin Hidden
  BY <1>1, HidesAssumption, RuleFileAssumption DEF Hidden
<1> QED
  BY <1>1, <1>2, CleanStatus

\* A snapshot whose rules are in force now says what it said under them.
LEMMA FaithfulNow ==
  ASSUME TypeOK, NEW s, Faithful(s), s.disk = "ready", s.digest = Digest(Now.kinds),
         TreeOf(s.head)[RuleFile] = TreeOf(head)[RuleFile]
  PROVE  /\ HiddenBy(s) = Hidden
         /\ s.skipped \subseteq Hidden
         /\ \A p \in Source :
              /\ s.files[p] # Absent => p \notin Hidden
              /\ p \notin s.dirty => RecordHolds(s, p)
<1>1. work[RuleFile] \in Nat /\ RuleFile \in Path
  BY WorldNumbers DEF Path
<1>2. Now.kinds[RuleFile] = Status(RuleFile)
  BY <1>1 DEF Now
<1>3. RulesOf(s) = work[RuleFile]
  BY <1>1, <1>2, CleanRules DEF RulesOf, Digest
<1>4. ~Lost(RuleFile, RulesOf(s)) /\ HiddenBy(s) = Hidden
  BY <1>3 DEF Lost, HiddenBy, Hidden
<1> QED
  BY <1>4 DEF Faithful

\* A record that holds, of a clean path that no commit changed since, is the
\* record of a rebuild, or its deletion is known to be unrecorded.
LEMMA RecordIsTrue ==
  ASSUME TypeOK, NEW s, NEW p \in Source, RecordHolds(s, p), HiddenBy(s) = Hidden,
         Status(p) = {}, TreeOf(s.head)[p] = TreeOf(head)[p]
  PROVE  s.files[p] = Rebuilt(p) \/ (s.files[p] = Absent /\ p \in s.gone)
<1>1. p \in Path
  BY DEF Path
<1>2. /\ index[p] = TreeOf(head)[p]
      /\ index[p] = Absent => work[p] = Absent \/ p \in Hidden
      /\ index[p] # Absent => work[p] = index[p]
  BY <1>1, CleanStatus
<1>3. ~Lost(p, TreeOf(s.head)[p])
  BY <1>2 DEF Lost
<1> QED
  BY <1>2, <1>3 DEF RecordHolds, CleanRecord, Rebuilt, Collected

\* A path whose last version HEAD removed, and that is clean, has no record.
LEMMA RemovedIsTrue ==
  ASSUME TypeOK, NEW p \in Source, Status(p) = {}, TreeOf(head)[p] = Absent
  PROVE  Rebuilt(p) = Absent
<1>1. p \in Path
  BY DEF Path
<1> QED
  BY <1>1, CleanStatus DEF Rebuilt, Collected

\* A path whose only change is a deletion is not collected.
LEMMA DeletedIsTrue ==
  ASSUME TypeOK, NEW p \in Source, Status(p) = {"Deleted"}
  PROVE  Rebuilt(p) = Absent
<1>1. "Untracked" \notin Status(p) /\ "Modified" \notin Status(p) /\ "Added" \notin Status(p)
      /\ "Deleted" \in Status(p)
  OBVIOUS
<1> QED
  BY <1>1 DEF Status, TreeIndex, IndexWorktree, Kind, Rebuilt, Collected

\* The planner brings a faithful snapshot up to date.
LEMMA FaithfulIsTrustworthy ==
  ASSUME TypeOK, NEW s, Faithful(s)
  PROVE  Trustworthy(s)
<1> DEFINE pl == PlanFor("Incremental", s, Now)
<1> SUFFICES ASSUME pl.mode = "Incremental", NEW p \in Source \ pl.touched
             PROVE  s.files[p] = Rebuilt(p) \/ (s.files[p] = Absent /\ p \in s.gone)
  BY DEF Trustworthy
<1>1. s.disk = "ready" /\ Comparable(s, Now) /\ s.digest = Digest(Now.kinds)
  BY DEF PlanFor
<1>2. Now.head = head /\ p \in Path /\ RuleFile \in Path /\ Now.kinds[p] = Status(p)
  BY DEF Now, Path
<1>3. TreeOf(s.head)[RuleFile] = TreeOf(head)[RuleFile]
  BY <1>1, <1>2 DEF Comparable, CommittedDelta
<1>4. /\ HiddenBy(s) = Hidden /\ s.skipped \subseteq Hidden
      /\ s.files[p] # Absent => p \notin Hidden
      /\ p \notin s.dirty => RecordHolds(s, p)
  BY <1>1, <1>3, FaithfulNow
<1>5. /\ ~(Gone(s, Now, p) /\ Holds(s, p))
      /\ Present(s, Now, p) => Declined(s, p) \/ AlreadyRecorded(s, p)
  BY DEF PlanFor, Touched
<1>6. ASSUME Declined(s, p) PROVE s.files[p] = Rebuilt(p)
  BY <1>4, <1>6 DEF Declined, Holds, Rebuilt, Collected
<1>7. ASSUME AlreadyRecorded(s, p) PROVE s.files[p] = Rebuilt(p)
  BY <1>4, <1>7 DEF AlreadyRecorded, Holds, Rebuilt, Collected
<1>8. CASE Present(s, Now, p)
  BY <1>5, <1>6, <1>7, <1>8
<1>9. CASE ~Present(s, Now, p) /\ Status(p) # {}
  <2>1. Status(p) = {"Deleted"}
    BY <1>2, <1>9 DEF Present
  <2>2. s.files[p] = Absent
    BY <1>2, <1>5, <2>1 DEF Gone, Holds
  <2> QED
    BY <2>1, <2>2, DeletedIsTrue
<1>10. CASE ~Present(s, Now, p) /\ Status(p) = {}
  <2>1. p \notin s.dirty
        /\ ~(p \in CommittedDelta(s.head, head) /\ TreeOf(head)[p] # Absent)
    BY <1>2, <1>10 DEF Present
  <2>2. CASE p \in CommittedDelta(s.head, head)
    <3>1. Gone(s, Now, p) /\ TreeOf(head)[p] = Absent
      BY <1>2, <1>10, <2>1, <2>2 DEF Gone
    <3> QED
      BY <1>5, <1>10, <3>1, RemovedIsTrue DEF Holds
  <2>3. CASE p \notin CommittedDelta(s.head, head)
    <3>1. TreeOf(s.head)[p] = TreeOf(head)[p]
      BY <1>2, <2>3 DEF CommittedDelta
    <3> QED
      BY <1>4, <1>10, <2>1, <3>1, RecordIsTrue
  <2> QED
    BY <2>2, <2>3
<1> QED
  BY <1>8, <1>9, <1>10

\* A query that follows HEAD may believe a faithful snapshot.
LEMMA FaithfulFollowsHead ==
  ASSUME TypeOK, Faithful(snapshot)
  PROVE  MovedHeadTrusted
<1> SUFFICES ASSUME snapshot.disk = "ready", CommitsLeftIndexTrue(snapshot, head),
                    snapshot.digest = Digest(Now.kinds),
                    NEW p \in Source \ snapshot.dirty, Status(p) = {}
             PROVE  \/ snapshot.files[p] = Rebuilt(p)
                    \/ snapshot.files[p] = Absent /\ p \in snapshot.gone
  BY DEF MovedHeadTrusted
<1>1. p \in Path /\ RuleFile \in Path
  BY DEF Path
<1>2. TreeOf(snapshot.head)[RuleFile] = TreeOf(head)[RuleFile]
  BY <1>1 DEF CommitsLeftIndexTrue, CommittedDelta
<1>3. /\ HiddenBy(snapshot) = Hidden /\ snapshot.skipped \subseteq Hidden
      /\ RecordHolds(snapshot, p)
  BY <1>2, FaithfulNow
<1>4. CASE TreeOf(snapshot.head)[p] = TreeOf(head)[p]
  BY <1>3, <1>4, RecordIsTrue
<1>5. CASE TreeOf(snapshot.head)[p] # TreeOf(head)[p]
  <2>1. IF TreeOf(head)[p] = Absent THEN ~Holds(snapshot, p)
        ELSE Declined(snapshot, p) \/ AlreadyRecorded(snapshot, p)
    BY <1>1, <1>5 DEF CommitsLeftIndexTrue, CommittedDelta
  <2>2. CASE TreeOf(head)[p] = Absent
    BY <2>1, <2>2, RemovedIsTrue DEF Holds
  <2>3. CASE TreeOf(head)[p] # Absent
    BY <1>3, <2>1, <2>3 DEF Declined, AlreadyRecorded, Holds, Rebuilt, Collected
  <2> QED
    BY <2>2, <2>3
<1> QED
  BY <1>4, <1>5

\* plan.rs and refresh.rs: however runs, crashes and changes interleave, the
\* planner leaves no stale record behind in the snapshot on disk, nor in one a
\* run is working from, as long as no file or rule flickers under a build.
THEOREM SnapshotIsTrustworthy == Flickers = {} => (Spec => []SnapshotTrustworthy)
<1> SUFFICES ASSUME Flickers = {} PROVE Spec => []SnapshotTrustworthy
  OBVIOUS
<1>1. TypeOK /\ TrustInv => SnapshotTrustworthy
  BY FaithfulIsTrustworthy DEF TrustInv, RunInv, SnapshotTrustworthy
<1> QED
  BY <1>1, TrustIsKept, TypeCorrect, PTL

\* plan.rs, commits_left_index_true: a snapshot a query accepts after HEAD has
\* moved is right about every source that HEAD and the working tree agree on.
THEOREM MovedHeadIsTrusted == Flickers = {} => (Spec => []MovedHeadTrusted)
<1> SUFFICES ASSUME Flickers = {} PROVE Spec => []MovedHeadTrusted
  OBVIOUS
<1>1. TypeOK /\ TrustInv => MovedHeadTrusted
  BY FaithfulFollowsHead DEF TrustInv
<1> QED
  BY <1>1, TrustIsKept, TypeCorrect, PTL

----------------------------------------------------------------------------
(* What `prepare` has confirmed when it returns: however the repository    *)
(* moves under a build, every record it hands over has been the bytes on   *)
(* disk, and has been let through by the rules, since the build ended.     *)
(*                                                                         *)
(* The rules the plan was made under never come back once they have left,  *)
(* so a confirmation that finds them finds them unmoved since the build;   *)
(* a path the confirming scan calls clean is as its commit has it; and     *)
(* what was read is read again.                                            *)

\* The planned rules are in force, or the confirming scan has found them clean.
RulesSeen(r) ==
  /\ pc[r] = "confirm" /\ Steady(r)
  /\ \/ SameRules(r)
     \/ plan[r].digest = 0 /\ RuleFile \notin todo[r] /\ seen[r].kinds[RuleFile] = {}

\* A dirty path whose record the plan keeps is one the planner has read.
VouchedHolds(r) ==
  pc[r] \in {"walk", "build", "confirm", "verify"} =>
    \A p \in Source :
      /\ plan[r].mode = "Incremental" /\ p \notin plan[r].touched
      /\ loaded[r].files[p] # Absent /\ believed[r].kinds[p] # {}
      => p \in plan[r].vouched

\* Nothing recorded for p, and rightly so, or its deletion is in `gone`.
MissingWitnessed(r, p) ==
  built[r][p] = Absent =>
    p \in next[r].gone \/ p \in witness[r].disk \cap witness[r].rules

\* A clean record that was kept is its commit's, and the scan has seen it.
KeptWitnessed(r, p) ==
  built[r][p] # Absent /\ believed[r].kinds[p] = {} /\ p \notin Acquired(r) =>
    \/ p \in witness[r].disk
    \/ built[r][p] = Clean(r, p) /\ (p \in todo[r] \/ seen[r].kinds[p] # {})

ConfirmWitnessed(r) ==
  RulesSeen(r) =>
    \A p \in Source :
      /\ built[r][p] # Absent => p \in witness[r].rules
      /\ MissingWitnessed(r, p)
      /\ KeptWitnessed(r, p)

VerifyWitnessed(r) ==
  pc[r] = "verify" =>
    \A p \in Source :
      /\ built[r][p] # Absent =>
           /\ p \in witness[r].rules
           /\ p \in witness[r].disk \/ p \in todo[r] \/ p \in plan[r].vouched
      /\ MissingWitnessed(r, p)

WitnessInv(r) == VouchedHolds(r) /\ ConfirmWitnessed(r) /\ VerifyWitnessed(r)

----------------------------------------------------------------------------

\* What a step adds to the witnesses of a run, and that it takes none away.
LEMMA WitnessGrows ==
  ASSUME Witnessed, NEW r \in Runner, pc'[r] \in Confirming
  PROVE  /\ AsOnDisk(r)' \subseteq witness'[r].disk
         /\ AsRuled(r)' \subseteq witness'[r].rules
         /\ pc[r] \in Confirming => /\ witness[r].disk \subseteq witness'[r].disk
                                    /\ witness[r].rules \subseteq witness'[r].rules
  BY DEF Witnessed

\* Planned rules in force after a step were in force before it.
LEMMA RulesNeverReturn ==
  ASSUME TypeOK, TypeOK', Drifts, NEW r \in Runner, Rests(r), RunBounded(r),
         RulesHold(r), pc[r] = "confirm", Steady(r), SameRules(r)'
  PROVE  SameRules(r)
<1>1. PlannedRules(r)' = PlannedRules(r)
  BY BelievedTree
<1>2. /\ PlannedRules(r) <= newest[RuleFile]
      /\ PlannedRules(r) = Absent => work[RuleFile] = Absent
  BY DEF RulesHold
<1>3. \/ work'[RuleFile] \in {work[RuleFile], Absent}
      \/ newest[RuleFile] < work'[RuleFile]
  BY DEF Drifts, MidBuild
<1>4. PlannedRules(r) \in Nat /\ newest[RuleFile] \in Nat
  BY PlannedNumbers, WorldNumbers DEF Path
<1> QED
  BY <1>1, <1>2, <1>3, <1>4 DEF SameRules

\* Every step of another run or of the repository keeps what r has confirmed.
LEMMA WitnessRests ==
  ASSUME TypeOK, TypeOK', Drifts, NEW r \in Runner, Rests(r), RunBounded(r),
         RulesHold(r), Witnessed, WitnessInv(r)
  PROVE  WitnessInv(r)'
<1>1. VouchedHolds(r)'
  BY DEF WitnessInv, VouchedHolds, Rests
<1>2. Acquired(r)' = Acquired(r)
  BY DEF Acquired, Retained, Rests
<1>3. pc[r] \in Confirming => /\ witness[r].disk \subseteq witness'[r].disk
                              /\ witness[r].rules \subseteq witness'[r].rules
  BY WitnessGrows DEF Rests
<1>4. pc[r] \in Confirming =>
        \A p \in Source : MissingWitnessed(r, p) => MissingWitnessed(r, p)'
  BY <1>3 DEF MissingWitnessed, Rests
<1>5. ConfirmWitnessed(r)'
  <2> SUFFICES ASSUME RulesSeen(r)' PROVE ConfirmWitnessed(r)'
    BY DEF ConfirmWitnessed
  <2>1. pc[r] = "confirm" /\ Steady(r) /\ pc[r] \in Confirming
    BY DEF RulesSeen, Steady, Rests, Confirming
  <2>2. RulesSeen(r)
    BY <2>1, RulesNeverReturn DEF RulesSeen, Rests
  <2>3. \A p : Clean(r, p)' = Clean(r, p)
    BY BelievedTree
  <2>4. \A p \in Source : KeptWitnessed(r, p) => KeptWitnessed(r, p)'
    BY <1>2, <1>3, <2>1, <2>3 DEF KeptWitnessed, Rests
  <2> QED
    BY <1>3, <1>4, <2>1, <2>2, <2>4 DEF WitnessInv, ConfirmWitnessed, Rests
<1>6. VerifyWitnessed(r)'
  BY <1>3, <1>4 DEF WitnessInv, VerifyWitnessed, Rests, Confirming
<1> QED
  BY <1>1, <1>5, <1>6 DEF WitnessInv

\* A run that is not building has nothing to confirm.
LEMMA NothingToConfirm ==
  ASSUME NEW r \in Runner, pc'[r] \notin {"walk", "build", "confirm", "verify"}
  PROVE  WitnessInv(r)'
  BY DEF WitnessInv, VouchedHolds, ConfirmWitnessed, RulesSeen, VerifyWitnessed

\* The plan of a run: a dirty record it keeps was read.
LEMMA PlanVouches ==
  ASSUME NEW m, NEW s, NEW o, NEW p \in Source, PlanFor(m, s, o).mode = "Incremental",
         p \notin PlanFor(m, s, o).touched, s.files[p] # Absent, o.kinds[p] # {}
  PROVE  p \in PlanFor(m, s, o).vouched
<1>1. p \notin Touched(s, o) /\ PlanFor(m, s, o).vouched = Vouched(s, o)
  BY DEF PlanFor
<1>2. Holds(s, p) /\ ~Declined(s, p)
  BY DEF Holds, Declined
<1>3. "Deleted" \notin o.kinds[p]
  BY <1>1, <1>2 DEF Touched, Gone
<1>4. Present(s, o, p)
  BY <1>3 DEF Present
<1> QED
  BY <1>1, <1>2, <1>4 DEF Touched, Vouched

\* Replan.
LEMMA ReplanWitnessed ==
  ASSUME TypeOK, NEW r \in Runner, Replan(r)
  PROVE  WitnessInv(r)'
<1>1. /\ plan'[r] = PlanFor(mode[r], loaded[r], seen[r]) /\ believed'[r] = seen[r]
      /\ loaded'[r] = loaded[r] /\ pc'[r] \in {"walk", "build"}
  BY DEF Replan, TypeOK
<1>2. VouchedHolds(r)'
  BY <1>1, PlanVouches DEF VouchedHolds
<1> QED
  BY <1>1, <1>2 DEF WitnessInv, ConfirmWitnessed, RulesSeen, VerifyWitnessed

\* The walk and the build leave the plan as it is.
LEMMA BuildWitnessed ==
  ASSUME TypeOK, NEW r \in Runner, WitnessInv(r),
         Walk(r) \/ \E p \in Source : Retain(r, p) \/ Process(r, p)
  PROVE  WitnessInv(r)'
<1>1. /\ pc[r] \in {"walk", "build"} /\ pc'[r] = "build"
      /\ plan'[r] = plan[r] /\ believed'[r] = believed[r] /\ loaded'[r] = loaded[r]
  BY DEF Walk, Retain, Process, TypeOK
<1> QED
  BY <1>1 DEF WitnessInv, VouchedHolds, ConfirmWitnessed, RulesSeen, VerifyWitnessed

\* assemble: under the rules of the plan, what was not built would not be built
\* now either, and what was built is let through.
LEMMA AssembleWitnessed ==
  ASSUME TypeOK, TypeOK', TrustInv, NEW r \in Runner, Assemble(r), Witnessed, WitnessInv(r)
  PROVE  WitnessInv(r)'
<1>1. UNCHANGED worldVars /\ pc[r] = "build" /\ RunHolds(r)
  BY DEF Assemble, TrustInv, RunInv
<1>2. /\ seen'[r] = [head |-> head, index |-> indexStamp, kinds |-> NoKinds]
      /\ todo'[r] = Path
  BY <1>1, LookBegins DEF Assemble
<1>3. /\ pc'[r] = "confirm" /\ loaded'[r] = loaded[r] /\ believed'[r] = believed[r]
      /\ plan'[r] = plan[r] /\ built'[r] = built[r]
  BY DEF Assemble, TypeOK
<1>4. VouchedHolds(r)'
  BY <1>1, <1>3 DEF WitnessInv, VouchedHolds
<1>5. ConfirmWitnessed(r)'
  <2> SUFFICES ASSUME RulesSeen(r)' PROVE ConfirmWitnessed(r)'
    BY DEF ConfirmWitnessed
  <2>1. Steady(r)' /\ SameRules(r)'
    BY <1>2 DEF RulesSeen, Path
  <2>2. TreeOf(believed[r].head)' = TreeOf(believed[r].head)
    BY <1>1, <1>3 DEF TreeOf, worldVars
  <2>3. /\ PlannedRules(r)' = PlannedRules(r) /\ PlannedHidden(r)' = PlannedHidden(r)
        /\ \A p : Clean(r, p)' = Clean(r, p)
    BY <1>3, <2>2 DEF PlannedRules, PlannedHidden, Clean
  <2>4. Standing(r) /\ SameRules(r)
    BY <1>1, <1>2, <1>3, <2>1, <2>3 DEF Steady, Standing, SameRules, worldVars
  <2>5. CleanHolds(r)
    BY <1>1, <2>4 DEF RunHolds, BuildHolds
  <2>6. AsBuilt(r)'
    <3>1. ConfirmHolds(r)'
      BY AssembleKnows DEF RunInv, RunHolds
    <3>2. ~Lost(RuleFile, PlannedRules(r))'
      BY <2>1 DEF Lost, SameRules
    <3> QED
      BY <1>3, <2>1, <3>1, <3>2 DEF ConfirmHolds
  <2>7. Hidden' = PlannedHidden(r) /\ work' = work
    BY <1>1, <2>4 DEF Hidden, PlannedHidden, SameRules, worldVars
  <2>8. /\ AsOnDisk(r)' \subseteq witness'[r].disk
        /\ AsRuled(r)' \subseteq witness'[r].rules
    BY <1>3, WitnessGrows DEF Confirming
  <2>9. ASSUME NEW p \in Source, built'[r][p] # Absent PROVE p \in witness'[r].rules
    <3>1. p \notin Hidden'
      BY <2>3, <2>6, <2>7, <2>9 DEF AsBuilt
    <3> QED
      BY <2>8, <2>9, <3>1 DEF AsRuled
  <2>10. ASSUME NEW p \in Source PROVE MissingWitnessed(r, p)'
    <3> SUFFICES ASSUME built'[r][p] = Absent, p \notin next'[r].gone
                 PROVE  p \in witness'[r].disk /\ p \in witness'[r].rules
      BY DEF MissingWitnessed
    <3>1. \/ p \in PlannedHidden(r) \/ work[p] = Absent
          \/ believed[r].kinds[p] = {} /\ Clean(r, p) = Absent
      BY <1>3, <2>3, <2>6, <2>7 DEF AsBuilt
    <3>2. p \in PlannedHidden(r) \/ work[p] = Absent
      BY <2>5, <3>1 DEF CleanHolds
    <3>3. Rebuilt(p)' = Absent
      BY <2>7, <3>2 DEF Rebuilt, Collected
    <3> QED
      BY <2>8, <3>3 DEF AsOnDisk, AsRuled
  <2>11. ASSUME NEW p \in Source PROVE KeptWitnessed(r, p)'
    BY <1>2, <2>6 DEF KeptWitnessed, AsBuilt, Path
  <2> QED
    BY <2>9, <2>10, <2>11 DEF ConfirmWitnessed
<1> QED
  BY <1>3, <1>4, <1>5 DEF WitnessInv, VerifyWitnessed

\* A step of the confirming scan: a clean path is as HEAD has it, rules included.
LEMMA ScanWitnessed ==
  ASSUME TypeOK, TypeOK', TrustInv, NEW r \in Runner, NEW p \in Path, Scan(r, p),
         Witnessed, WitnessInv(r)
  PROVE  WitnessInv(r)'
<1> USE Scanned
<1>0. CASE pc[r] # "confirm"
  <2>1. pc'[r] \in {"look", "relook"}
    BY <1>0 DEF Scan
  <2> QED
    BY <2>1, NothingToConfirm
<1>a. CASE pc[r] = "confirm"
  <2>1. UNCHANGED worldVars /\ RunHolds(r)
    BY DEF TrustInv, RunInv
  <2>2. VouchedHolds(r)'
    BY DEF WitnessInv, VouchedHolds
  <2>3. TreeOf(believed[r].head)' = TreeOf(believed[r].head)
    BY <2>1 DEF TreeOf, worldVars
  <2>4. /\ PlannedRules(r)' = PlannedRules(r)
        /\ \A q : Clean(r, q)' = Clean(r, q)
        /\ Acquired(r)' = Acquired(r)
    BY <2>3 DEF PlannedRules, Clean, Acquired, Retained
  <2>5. /\ AsOnDisk(r)' \subseteq witness'[r].disk
        /\ AsRuled(r)' \subseteq witness'[r].rules
        /\ witness[r].disk \subseteq witness'[r].disk
        /\ witness[r].rules \subseteq witness'[r].rules
    BY <1>a, WitnessGrows DEF Confirming
  <2>6. ConfirmWitnessed(r)'
    <3> SUFFICES ASSUME RulesSeen(r)' PROVE ConfirmWitnessed(r)'
      BY DEF ConfirmWitnessed
    <3>1. Steady(r) /\ next[r].head = believed[r].head
      BY <1>a, <2>1 DEF RulesSeen, Steady, RunHolds, NextIsBuilt
    <3>2. CASE head # believed[r].head
      <4>1. head' # next'[r].head
        BY <2>1, <3>1, <3>2 DEF worldVars
      <4>2. \A q \in Source : q \in witness'[r].disk /\ q \in witness'[r].rules
        BY <2>5, <4>1 DEF AsOnDisk, AsRuled
      <4> QED
        BY <4>2 DEF ConfirmWitnessed, MissingWitnessed, KeptWitnessed
    <3>3. CASE head = believed[r].head
      <4>1. RulesSeen(r)
        <5>1. CASE SameRules(r)'
          BY <1>a, <2>1, <2>4, <3>1, <5>1 DEF RulesSeen, SameRules, worldVars
        <5>2. CASE plan[r].digest = 0 /\ RuleFile = p /\ Status(p) = {}
          <6>1. work[RuleFile] = PlannedRules(r)
            BY <3>3, <5>2, CleanRules DEF PlannedRules
          <6> QED
            BY <1>a, <3>1, <6>1 DEF RulesSeen, SameRules
        <5>3. CASE /\ plan[r].digest = 0 /\ RuleFile # p
                   /\ RuleFile \notin todo'[r] /\ seen'[r].kinds[RuleFile] = {}
          BY <1>a, <3>1, <5>3 DEF RulesSeen, Path
        <5> QED
          BY <5>1, <5>2, <5>3 DEF RulesSeen
      <4>2. \A q \in Source : MissingWitnessed(r, q)'
        BY <2>5, <4>1 DEF WitnessInv, ConfirmWitnessed, MissingWitnessed
      <4>3. ASSUME NEW q \in Source PROVE KeptWitnessed(r, q)'
        <5> SUFFICES ASSUME built[r][q] # Absent, believed[r].kinds[q] = {},
                            q \notin Acquired(r), q \notin witness'[r].disk
                     PROVE  /\ built[r][q] = Clean(r, q)
                            /\ q \in todo'[r] \/ seen'[r].kinds[q] # {}
          BY <2>4 DEF KeptWitnessed
        <5>1. /\ built[r][q] = Clean(r, q)
              /\ q \in todo[r] \/ seen[r].kinds[q] # {}
          BY <2>5, <4>1 DEF WitnessInv, ConfirmWitnessed, KeptWitnessed
        <5>2. CASE q = p /\ Status(p) = {}
          <6>1. work[q] = built[r][q]
            BY <3>3, <5>1, <5>2, CleanStatus DEF Clean
          <6>2. q \in AsOnDisk(r)'
            BY <2>1, <6>1 DEF AsOnDisk, worldVars
          <6> QED
            BY <2>5, <6>2
        <5>3. CASE q = p /\ Status(p) # {}
          BY <5>1, <5>3
        <5>4. CASE q # p
          BY <5>1, <5>4 DEF Path
        <5> QED
          BY <5>1, <5>2, <5>3, <5>4
      <4> QED
        BY <2>5, <4>1, <4>2, <4>3 DEF WitnessInv, ConfirmWitnessed
    <3> QED
      BY <3>2, <3>3
  <2> QED
    BY <1>a, <2>2, <2>6 DEF WitnessInv, VerifyWitnessed
<1> QED
  BY <1>0, <1>a

\* confirm_unchanged passes: the rules were seen, and so was every clean path.
LEMMA ConfirmPassesWitnessed ==
  ASSUME TypeOK, TypeOK', TrustInv, NEW r \in Runner, Confirm(r), Witnessed, WitnessInv(r)
  PROVE  WitnessInv(r)'
<1>1. UNCHANGED worldVars /\ pc[r] = "confirm" /\ todo[r] = {} /\ Unchanged(r) /\ RunHolds(r)
  BY DEF Confirm, TrustInv, RunInv
<1>2. /\ pc'[r] = "verify" /\ todo'[r] = Acquired(r) /\ next'[r] = next[r]
      /\ loaded'[r] = loaded[r] /\ believed'[r] = believed[r]
      /\ plan'[r] = plan[r] /\ built'[r] = built[r]
  BY <1>1 DEF Confirm, TypeOK
<1>3. VouchedHolds(r)'
  BY <1>1, <1>2 DEF WitnessInv, VouchedHolds
<1>4. Steady(r) /\ seen[r] = believed[r] /\ Digest(seen[r].kinds) = plan[r].digest
  BY <1>1 DEF Unchanged, Steady
<1>5. RulesSeen(r)
  <2>1. work[RuleFile] \in Nat
    BY WorldNumbers DEF Path
  <2>2. CASE plan[r].digest = 0
    BY <1>1, <1>4, <2>1, <2>2 DEF RulesSeen, Digest
  <2>3. CASE plan[r].digest # 0
    BY <1>1, <1>4, <2>1, <2>3 DEF RulesSeen, Digest, SameRules, PlannedRules
  <2> QED
    BY <2>2, <2>3
<1>6. /\ witness[r].disk \subseteq witness'[r].disk
      /\ witness[r].rules \subseteq witness'[r].rules
  BY <1>1, <1>2, WitnessGrows DEF Confirming
<1>7. ASSUME NEW p \in Source
      PROVE  /\ built[r][p] # Absent =>
                  /\ p \in witness'[r].rules
                  /\ p \in witness'[r].disk \/ p \in Acquired(r) \/ p \in plan[r].vouched
             /\ MissingWitnessed(r, p)'
  <2>1. MissingWitnessed(r, p)'
    BY <1>2, <1>5, <1>6 DEF WitnessInv, ConfirmWitnessed, MissingWitnessed
  <2> SUFFICES ASSUME built[r][p] # Absent
               PROVE  /\ p \in witness'[r].rules
                      /\ p \in witness'[r].disk \/ p \in Acquired(r) \/ p \in plan[r].vouched
    BY <2>1
  <2>2. p \in witness'[r].rules
    BY <1>5, <1>6 DEF WitnessInv, ConfirmWitnessed
  <2>3. CASE p \notin Acquired(r) /\ believed[r].kinds[p] = {}
    BY <1>1, <1>4, <1>5, <1>6, <2>3 DEF WitnessInv, ConfirmWitnessed, KeptWitnessed
  <2>4. CASE p \notin Acquired(r) /\ believed[r].kinds[p] # {}
    <3>1. Retained(plan[r], loaded[r], p) = built[r][p]
      BY <2>4 DEF Acquired
    <3>2. /\ plan[r].mode = "Incremental" /\ p \notin plan[r].touched
          /\ loaded[r].files[p] # Absent
      BY <3>1 DEF Retained
    <3> QED
      BY <1>1, <2>2, <2>4, <3>2 DEF WitnessInv, VouchedHolds
  <2> QED
    BY <2>2, <2>3, <2>4
<1>8. VerifyWitnessed(r)'
  BY <1>2, <1>7 DEF VerifyWitnessed
<1> QED
  BY <1>2, <1>3, <1>8 DEF WitnessInv, ConfirmWitnessed, RulesSeen

\* confirm_content on one path: the bytes read are on disk now.
LEMMA RereadWitnessed ==
  ASSUME TypeOK, NEW r \in Runner, NEW p \in Source, Reread(r, p), Witnessed, WitnessInv(r)
  PROVE  WitnessInv(r)'
<1>1. UNCHANGED worldVars /\ pc[r] = "verify" /\ work[p] = built[r][p]
  BY DEF Reread
<1>2. /\ pc'[r] = "verify" /\ todo'[r] = todo[r] \ {p} /\ next'[r] = next[r]
      /\ loaded'[r] = loaded[r] /\ believed'[r] = believed[r]
      /\ plan'[r] = plan[r] /\ built'[r] = built[r]
  BY <1>1 DEF Reread, TypeOK
<1>3. VouchedHolds(r)'
  BY <1>1, <1>2 DEF WitnessInv, VouchedHolds
<1>4. /\ AsOnDisk(r)' \subseteq witness'[r].disk
      /\ witness[r].disk \subseteq witness'[r].disk
      /\ witness[r].rules \subseteq witness'[r].rules
  BY <1>1, <1>2, WitnessGrows DEF Confirming
<1>5. p \in witness'[r].disk
  BY <1>1, <1>2, <1>4 DEF AsOnDisk, worldVars
<1>6. VerifyWitnessed(r)'
  BY <1>1, <1>2, <1>4, <1>5 DEF WitnessInv, VerifyWitnessed, MissingWitnessed
<1> QED
  BY <1>2, <1>3, <1>6 DEF WitnessInv, ConfirmWitnessed, RulesSeen

\* A step of run r keeps what r has confirmed.
LEMMA OwnStepWitnessed ==
  ASSUME TypeOK, TypeOK', TrustInv, NEW r \in Runner, Start(r) \/ Step(r) \/ Interrupt(r),
         Witnessed, WitnessInv(r)
  PROVE  WitnessInv(r)'
<1>1. ASSUME NEW held, End(r, held) PROVE WitnessInv(r)'
  BY <1>1, NothingToConfirm DEF End, TypeOK
<1>2. ASSUME \/ UpToDate(r) \/ HoldNothing(r) \/ Locked(r) \/ Moved(r) \/ Finish(r)
             \/ Interrupt(r) \/ \E p \in Source : Differs(r, p)
      PROVE  WitnessInv(r)'
  BY <1>1, <1>2 DEF UpToDate, HoldNothing, Locked, Moved, Finish, Interrupt, Refuse, Cancel,
     Die, KillHard, Differs, Return
<1>3. ASSUME \/ Start(r) \/ TextStale(r) \/ Decide(r) \/ Hold(r) \/ Acquire(r) \/ Publish(r)
      PROVE  WitnessInv(r)'
  BY <1>3, NothingToConfirm DEF Start, TextStale, Decide, Hold, Acquire, Publish, TypeOK
<1>4. ASSUME Replan(r) PROVE WitnessInv(r)'
  BY <1>4, ReplanWitnessed
<1>5. ASSUME Walk(r) \/ \E p \in Source : Retain(r, p) \/ Process(r, p) PROVE WitnessInv(r)'
  BY <1>5, BuildWitnessed
<1>6. ASSUME Assemble(r) PROVE WitnessInv(r)'
  BY <1>6, AssembleWitnessed
<1>7. ASSUME NEW p \in Path, Scan(r, p) PROVE WitnessInv(r)'
  BY <1>7, ScanWitnessed
<1>8. ASSUME Confirm(r) PROVE WitnessInv(r)'
  BY <1>8, ConfirmPassesWitnessed
<1>9. ASSUME NEW p \in Source, Reread(r, p) PROVE WitnessInv(r)'
  BY <1>9, RereadWitnessed
<1> QED
  BY <1>2, <1>3, <1>4, <1>5, <1>6, <1>7, <1>8, <1>9 DEF Step

\* Every step, stuttering included, keeps what every run has confirmed.
LEMMA NextWitnessed ==
  ASSUME Flickers = {}, TypeOK, TypeOK', TrustInv, \A r \in Runner : WitnessInv(r),
         [WitnessNext]_<<vars, witness>>
  PROVE  \A r \in Runner : WitnessInv(r)'
<1> SUFFICES ASSUME NEW r \in Runner PROVE WitnessInv(r)'
  OBVIOUS
<1>0. WitnessInv(r) /\ RunBounded(r) /\ RulesHold(r)
  BY DEF TrustInv, RunInv, RunHolds
<1>1. CASE UNCHANGED <<vars, witness>>
  <2>1. UNCHANGED <<worldVars, runVars, witness>>
    BY <1>1 DEF vars
  <2>2. /\ AsOnDisk(r)' = AsOnDisk(r) /\ AsRuled(r)' = AsRuled(r)
        /\ RulesSeen(r)' = RulesSeen(r) /\ Acquired(r)' = Acquired(r)
        /\ \A p : Clean(r, p)' = Clean(r, p)
    BY <2>1 DEF worldVars, runVars, AsOnDisk, AsRuled, RulesSeen, Acquired, Retained, Clean,
       TreeOf, Steady, SameRules, PlannedRules, Rebuilt, Collected, Hidden
  <2> QED
    BY <1>0, <2>1, <2>2 DEF runVars, WitnessInv, VouchedHolds, ConfirmWitnessed,
       VerifyWitnessed, MissingWitnessed, KeptWitnessed
<1>2. CASE WitnessNext
  <2>0. Witnessed /\ RefreshNext
    BY <1>2 DEF WitnessNext
  <2>1. ASSUME NEW q \in Runner, Start(q) \/ Step(q) \/ Interrupt(q) PROVE WitnessInv(r)'
    <3>1. CASE q = r
      BY <1>0, <2>0, <2>1, <3>1, OwnStepWitnessed
    <3>2. CASE q # r
      <4>1. UNCHANGED worldVars /\ Rests(r)
        BY <2>1, <3>2, OthersRest
      <4>2. Drifts
        BY <4>1, StillDrifts
      <4> QED
        BY <1>0, <2>0, <4>1, <4>2, WitnessRests
    <3> QED
      BY <3>1, <3>2
  <2>2. ASSUME Change \/ LoseSnapshot \/ RemoveStaleLock PROVE WitnessInv(r)'
    <3>1. Rests(r)
      BY <2>2 DEF Change, LoseSnapshot, RemoveStaleLock, runVars, Rests
    <3>2. Drifts
      BY <2>2, WorldDrifts
    <3> QED
      BY <1>0, <2>0, <3>1, <3>2, WitnessRests
  <2> QED
    BY <2>0, <2>1, <2>2 DEF RefreshNext
<1> QED
  BY <1>1, <1>2

\* What the witnesses amount to when prepare returns.
LEMMA WitnessedIsCurrent ==
  ASSUME \A r \in Runner : WitnessInv(r)
  PROVE  PreparedIsCurrent
  BY DEF PreparedIsCurrent, Prepared, WitnessInv, VerifyWitnessed, MissingWitnessed

\* The history variable observes: a witnessed behaviour is one of Refresh.
LEMMA WitnessObserves == WitnessSpec => Spec
<1>1. WitnessInit => RefreshInit
  BY DEF WitnessInit
<1>2. [WitnessNext]_<<vars, witness>> => [RefreshNext]_vars
  BY DEF WitnessNext
<1> QED
  BY <1>1, <1>2, PTL DEF WitnessSpec, Spec

\* confirm_unchanged and confirm_content: what `prepare` hands over has been on
\* disk, and let through by the rules, since the build ended.
THEOREM PreparedWasConfirmed == Flickers = {} => (WitnessSpec => []PreparedIsCurrent)
<1> SUFFICES ASSUME Flickers = {} PROVE WitnessSpec => []PreparedIsCurrent
  OBVIOUS
<1> DEFINE Inv == \A r \in Runner : WitnessInv(r)
<1>1. WitnessInit => Inv
  BY DEF WitnessInit, RefreshInit, RunInit, WitnessInv, VouchedHolds, ConfirmWitnessed,
     RulesSeen, VerifyWitnessed
<1>2. TypeOK /\ TypeOK' /\ TrustInv /\ Inv /\ [WitnessNext]_<<vars, witness>> => Inv'
  BY NextWitnessed
<1>3. Inv => PreparedIsCurrent
  BY WitnessedIsCurrent
<1>4. Spec => [](TypeOK /\ TrustInv)
  BY TrustIsKept, TypeCorrect, PTL
<1> QED
  BY <1>1, <1>2, <1>3, <1>4, WitnessObserves, PTL DEF WitnessSpec
==============================================================================
