------------------------------ MODULE Worktree ------------------------------
(***************************************************************************)
(* The Git repository a refresh describes, and everything the people and   *)
(* tools around it may do to it: write and delete files, stage, commit,    *)
(* move HEAD.  rr only ever reads it, through `observe_state` (repo/state)  *)
(* and through the content acquisition of content.rs.                      *)
(*                                                                         *)
(* A file's bytes are a version number.  `Fresh` versions are never reused *)
(* by a path; the only old bytes that may come back are the ones the index *)
(* holds (an undo).  `indexStamp` stands for the bytes of the index file:   *)
(* every Git command that writes the index changes them.                   *)
(***************************************************************************)
EXTENDS Naturals, Sequences

CONSTANTS
  Source,        \* paths whose name is one of an indexable language
  RuleFile,      \* an in-tree rule file, such as .gitignore
  Hides,         \* Hides[v]: the sources that version v of the rule file ignores
  InitialTrees,  \* the trees the repository may start with
  MaxVersion,    \* bound on the versions written to one path
  MaxCommits,    \* bound on the number of commits
  MaxChanges     \* bound on the number of changes made to the repository

ASSUME RuleFileAssumption == RuleFile \notin Source
ASSUME BoundAssumption == MaxVersion \in Nat /\ MaxCommits \in Nat /\ MaxChanges \in Nat
ASSUME HidesAssumption == Hides \in [0..MaxVersion -> SUBSET Source]

Path == Source \cup {RuleFile}
Absent == 0
Unborn == 0
Version == 0..MaxVersion
Tree == [Path -> Version]
EmptyTree == [p \in Path |-> Absent]
ASSUME TreeAssumption == InitialTrees \subseteq Tree

VARIABLES
  commits,     \* the trees of the commits made so far
  head,        \* the commit HEAD names, or Unborn
  index,       \* the staged version of each path
  indexStamp,  \* the identity of the index file's bytes
  work,        \* the version of each path in the working tree
  newest,      \* the newest version ever written at each path
  changes      \* how many changes were made so far (bound only)

worldVars == <<commits, head, index, indexStamp, work, newest, changes>>

Kind == {"Added", "Modified", "Deleted", "Untracked"}

TreeOf(c) == IF c = Unborn THEN EmptyTree ELSE commits[c]

\* What the ignore rules now in the working tree hide.
Hidden == Hides[work[RuleFile]]

\* The HEAD-to-index half of a status.
TreeIndex(p) ==
  {k \in Kind :
     \/ k = "Added"    /\ TreeOf(head)[p] = Absent /\ index[p] # Absent
     \/ k = "Deleted"  /\ TreeOf(head)[p] # Absent /\ index[p] = Absent
     \/ k = "Modified" /\ TreeOf(head)[p] # Absent /\ index[p] # Absent
                       /\ TreeOf(head)[p] # index[p]}

\* The index-to-worktree half; ignored files are not reported as untracked.
IndexWorktree(p) ==
  {k \in Kind :
     \/ k = "Untracked" /\ index[p] = Absent /\ work[p] # Absent /\ p \notin Hidden
     \/ k = "Deleted"   /\ index[p] # Absent /\ work[p] = Absent
     \/ k = "Modified"  /\ index[p] # Absent /\ work[p] # Absent /\ index[p] # work[p]}

\* The changes a status of the current state reports for p.
Status(p) == TreeIndex(p) \cup IndexWorktree(p)

\* Whether the walk collects p: a regular file no rule hides.
Collected(p) == p \in Source /\ work[p] # Absent /\ p \notin Hidden

\* The record a full rebuild of the tree as it is now would hold for p.
Rebuilt(p) == IF Collected(p) THEN work[p] ELSE Absent

Init ==
  /\ \E tree \in InitialTrees :
       /\ commits = <<tree>>
       /\ index = tree
       /\ work = tree
       /\ newest = tree
  /\ head = 1
  /\ indexStamp = 0
  /\ changes = 0

\* Every action of this module counts against the bound.
Changing == changes < MaxChanges /\ changes' = changes + 1

\* Somebody saves p: bytes never seen before, or the ones the index holds.
Save(p) ==
  /\ Changing
  /\ \/ /\ newest[p] < MaxVersion
        /\ newest' = [newest EXCEPT ![p] = @ + 1]
        /\ work' = [work EXCEPT ![p] = newest[p] + 1]
     \/ /\ index[p] \notin {Absent, work[p]}
        /\ work' = [work EXCEPT ![p] = index[p]]
        /\ UNCHANGED newest
  /\ UNCHANGED <<commits, head, index, indexStamp>>

Delete(p) ==
  /\ Changing
  /\ work[p] # Absent
  /\ work' = [work EXCEPT ![p] = Absent]
  /\ UNCHANGED <<commits, head, index, indexStamp, newest>>

\* git add (or git rm --cached of a file that is gone).
Stage(p) ==
  /\ Changing
  /\ index[p] # work[p]
  /\ index' = [index EXCEPT ![p] = work[p]]
  /\ indexStamp' = indexStamp + 1
  /\ UNCHANGED <<commits, head, work, newest>>

\* git commit, possibly --allow-empty.
Commit ==
  /\ Changing
  /\ Len(commits) < MaxCommits
  /\ commits' = Append(commits, index)
  /\ head' = Len(commits) + 1
  /\ UNCHANGED <<index, indexStamp, work, newest>>

\* git reset --soft: HEAD alone moves.
MoveHead(c) ==
  /\ Changing
  /\ c # head
  /\ head' = c
  /\ UNCHANGED <<commits, index, indexStamp, work, newest>>

WorldType ==
  /\ commits \in Seq(Tree)
  /\ head \in 0..Len(commits)
  /\ index \in Tree
  /\ indexStamp \in Nat
  /\ work \in Tree
  /\ newest \in Tree
  /\ changes \in 0..MaxChanges
=============================================================================
