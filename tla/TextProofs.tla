----------------------------- MODULE TextProofs -----------------------------
(***************************************************************************)
(* Proofs about TextArtifacts, for any tree of maps, any generations and   *)
(* any purposes: its state keeps its type, a person's purpose survives,    *)
(* and a run leaves alone what is not its own.                             *)
(***************************************************************************)
EXTENDS TextArtifacts, TLAPS

USE DEF PC, Stage, Outcome, Kind, Generation, Paths, Purpose

\* What a file is given is a content.
LEMMA ContentType ==
  /\ \A k \in Kind : Bare(k) \in Contents
  /\ \A g \in Generation, text \in Purpose : Whole(g, text) \in Contents
  /\ NoPurposes \in [Maps -> Purpose]
BY DEF Bare, Whole, Contents, NoPurposes

\* The staging's sets are sets of paths, and its purposes are purposes.
LEMMA StagingType ==
  ASSUME TypeOK
  PROVE  /\ Stale \cup Missing \subseteq Paths
         /\ Removable \subseteq Maps
         /\ ExistingPurposes \in [Maps -> Purpose]
<1>1. Planned[goal] \subseteq Maps
  BY PlanAssumption DEF TypeOK
<1>2. ExistingPurposes \in [Maps -> Purpose]
  BY DEF TypeOK, ExistingPurposes, Contents
<1>3. QED
  BY <1>1, <1>2 DEF Stale, Missing, Files, Removable, Unplanned, Fresh

\* The state keeps its type: for every tree, generations and bounds.
THEOREM TypeCorrect == Spec => []TypeOK
<1>1. Init => TypeOK
  <2> SUFFICES ASSUME Init PROVE TypeOK
    OBVIOUS
  <2>1. disk \in [Paths -> Contents] /\ told \in [Maps -> Purpose]
    BY ContentType DEF Init
  <2>2. changes \in 0..MaxChanges
    BY ChangeAssumption DEF Init
  <2>3. QED
    BY <2>1, <2>2, ContentType DEF Init, TypeOK
<1>2. TypeOK /\ [Next]_vars => TypeOK'
  <2> SUFFICES ASSUME TypeOK, [Next]_vars PROVE TypeOK'
    OBVIOUS
  <2> USE ContentType
  <2>1. ASSUME NEW result \in Outcome, Ends(result), published' \in Generation,
               UNCHANGED <<disk, ignore, changes, touched, told, unseen>>,
               fault' \in BOOLEAN
        PROVE  TypeOK'
    BY <2>1 DEF TypeOK, Ends
  <2>2. CASE Begin
    BY <2>2 DEF Begin, TypeOK
  <2>3. CASE ReadPurposes
    BY <2>3, StagingType DEF ReadPurposes, TypeOK
  <2>4. CASE Unreadable
    BY <2>4, <2>1 DEF Unreadable, TypeOK, history
  <2>5. CASE LookIsUpToDate
    BY <2>5, <2>1 DEF LookIsUpToDate, TypeOK, history
  <2>6. CASE LookIsStale
    BY <2>6 DEF LookIsStale, TypeOK, history
  <2>7. CASE Refuse
    BY <2>7, <2>1 DEF Refuse, TypeOK, history
  <2>8. CASE Publish
    BY <2>8, StagingType DEF Publish, TypeOK
  <2>9. CASE Open
    <3>1. PICK p \in todo : /\ \E k \in {"foreign", "damaged"} : disk' = [disk EXCEPT ![p] = Bare(k)]
                            /\ opened' = p
      BY <2>9 DEF Open
    <3>2. disk' \in [Paths -> Contents]
      BY <3>1 DEF TypeOK
    <3>3. QED
      BY <2>9, <3>1, <3>2 DEF Open, TypeOK, history
  <2>10. CASE Fill
    <3>1. opened \in Paths => Rendered(opened) \in Contents
      BY DEF Rendered, TypeOK
    <3>2. disk' \in [Paths -> Contents] /\ told' \in [Maps -> Purpose]
      BY <2>10, <3>1, PathAssumption DEF Fill, TypeOK
    <3>3. QED
      BY <2>10, <3>2 DEF Fill, TypeOK
  <2>11. CASE Written
    BY <2>11 DEF Written, TypeOK, history
  <2>12. CASE Remove
    BY <2>12 DEF Remove, TypeOK
  <2>13. CASE Removed
    BY <2>13 DEF Removed, TypeOK, history
  <2>14. CASE OpenIgnore
    BY <2>14 DEF OpenIgnore, TypeOK, history
  <2>15. CASE StartConfirm
    BY <2>15 DEF StartConfirm, TypeOK, history
  <2>16. CASE Confirm
    BY <2>16, <2>1 DEF Confirm, TypeOK, history
  <2>17. CASE Stuck
    BY <2>17, <2>1 DEF Stuck, TypeOK, history
  <2>18. CASE Fail
    BY <2>18, <2>1 DEF Fail, TypeOK
  <2>19. CASE Die
    BY <2>19, <2>1 DEF Die, TypeOK, history
  <2>20. ASSUME NEW p \in Paths \cup {Ignore}, Touches(p), disk' \in [Paths -> Contents],
                ignore' \in {"plain", "block", "malformed"}, told' \in [Maps -> Purpose]
         PROVE  TypeOK'
    <3>1. changes' \in 0..MaxChanges
      BY <2>20, ChangeAssumption DEF Touches, TypeOK
    <3>2. /\ outcome' \in Outcome /\ unseen' \subseteq Maps
          /\ touched' \subseteq Paths \cup {Ignore}
      BY <2>20 DEF Touches, TypeOK
    <3>3. fault' \in BOOLEAN
      BY <2>20, Zenon DEF Touches, TypeOK
    <3>4. QED
      BY <2>20, <3>1, <3>2, <3>3 DEF Touches, TypeOK
  <2>21. CASE People
    <3>1. ASSUME NEW m \in Maps, NEW text \in Text, Describe(m, text) PROVE TypeOK'
      <4>1. disk' \in [Paths -> Contents]
        <5>1. [disk[m] EXCEPT !.purpose = text] \in Contents
          BY DEF TypeOK, Contents
        <5>2. QED
          BY <3>1, <5>1 DEF Describe, TypeOK
      <4>2. QED
        BY <3>1, <4>1, <2>20 DEF Describe, TypeOK
    <3>2. ASSUME NEW m \in Maps, NEW g \in Generation, NEW text \in Purpose,
                 Checkout(m, g, text)
          PROVE  TypeOK'
      BY <3>2, <2>20 DEF Checkout, TypeOK
    <3>3. ASSUME NEW p \in Paths, NEW k \in Kind, Spoil(p, k) PROVE TypeOK'
      BY <3>3, <2>20 DEF Spoil, TypeOK
    <3>4. ASSUME EditIgnore PROVE TypeOK'
      BY <3>4, <2>20 DEF EditIgnore, TypeOK
    <3>5. QED
      BY <2>21, <3>1, <3>2, <3>3, <3>4 DEF People
  <2>22. CASE UNCHANGED vars
    BY <2>22 DEF vars, runVars, history, TypeOK
  <2>23. QED
    BY <2>2, <2>3, <2>4, <2>5, <2>6, <2>7, <2>8, <2>9, <2>10, <2>11, <2>12, <2>13,
       <2>14, <2>15, <2>16, <2>17, <2>18, <2>19, <2>21, <2>22 DEF Next, Run
<1>3. QED
  BY <1>1, <1>2, PTL DEF Spec

----------------------------------------------------------------------------
(* A person's purpose survives.                                            *)

\* Where a run has no file cut open.
Closed ==
  /\ pc \notin {"write", "ignore"} => opened = None
  /\ pc = "write" => opened \in todo \cup {None}

\* An absent map has no purpose to keep.
AbsentUntold == \A m \in Maps : disk[m].kind = "none" => told[m] = Seed

\* What staging read is what a person said, until someone touches the map ...
StagedTold ==
  pc = "compare" /\ stage = "held" =>
    \A m \in Planned[goal] \ touched :
      disk[m].kind \in {"whole", "none"} => purposes[m] = told[m]

\* ... and so is what the run is about to write.
PendingTold ==
  pc = "write" => \A m \in (todo \cap Maps) \ touched : purposes[m] = told[m]

Survival == PurposeKept /\ Closed /\ AbsentUntold /\ StagedTold /\ PendingTold

\* A run's end, and every step that leaves the files alone and is not on its
\* way to write, keeps the invariant.
LEMMA QuietStep ==
  ASSUME Survival, UNCHANGED <<disk, told>>, opened' = None,
         pc' \in {"idle", "read", "remove", "ignore"}
  PROVE  Survival'
BY DEF Survival, PurposeKept, Closed, AbsentUntold, StagedTold, PendingTold

\* The touch of a person, who may set the purpose of the map touched.
LEMMA TouchedStep ==
  ASSUME TypeOK, Survival, NEW p \in Paths \cup {Ignore}, Touches(p),
         \A m \in Maps \ {p} : disk'[m] = disk[m] /\ told'[m] = told[m],
         p \in Maps => /\ disk'[p].kind = "whole" => disk'[p].purpose = told'[p]
                       /\ disk'[p].kind = "none" => told'[p] = Seed
  PROVE  Survival'
<1>1. PurposeKept' /\ AbsentUntold'
  BY DEF Survival, PurposeKept, AbsentUntold
<1>2. Closed'
  BY DEF Touches, Survival, Closed
<1>3. pc # "idle" => touched' = touched \cup {p}
  BY DEF Touches
<1>4. StagedTold'
  BY <1>3, PlanAssumption DEF Touches, Survival, StagedTold, TypeOK
<1>5. PendingTold'
  BY <1>3 DEF Touches, Survival, PendingTold
<1>6. QED
  BY <1>1, <1>2, <1>4, <1>5 DEF Survival

\* What people do keeps the invariant.
LEMMA PeopleSurvive == ASSUME TypeOK, Survival, People PROVE Survival'
<1>1. ASSUME NEW m \in Maps, NEW text \in Text, Describe(m, text) PROVE Survival'
  <2>1. /\ disk'[m].purpose = text /\ disk'[m].kind = "whole" /\ told'[m] = text
        /\ \A n \in Maps \ {m} : disk'[n] = disk[n] /\ told'[n] = told[n]
    BY <1>1 DEF Describe, TypeOK, Contents
  <2>2. QED
    BY <1>1, <2>1, TouchedStep DEF Describe
<1>2. ASSUME NEW m \in Maps, NEW g \in Generation, NEW text \in Purpose,
             Checkout(m, g, text)
      PROVE  Survival'
  <2>1. /\ disk'[m] = Whole(g, text) /\ told'[m] = text
        /\ \A n \in Maps \ {m} : disk'[n] = disk[n] /\ told'[n] = told[n]
    BY <1>2 DEF Checkout, TypeOK
  <2>2. QED
    BY <1>2, <2>1, TouchedStep DEF Checkout, Whole
<1>3. ASSUME NEW p \in Paths, NEW k \in Kind \ {"whole"}, Spoil(p, k) PROVE Survival'
  <2>1. /\ disk'[p] = Bare(k) /\ (p \in Maps => told'[p] = Seed)
        /\ \A n \in Maps \ {p} : disk'[n] = disk[n] /\ told'[n] = told[n]
    BY <1>3 DEF Spoil, TypeOK
  <2>2. QED
    BY <1>3, <2>1, TouchedStep DEF Spoil, Bare
<1>4. ASSUME EditIgnore PROVE Survival'
  <2>1. Touches(Ignore) /\ UNCHANGED <<disk, told>>
    BY <1>4 DEF EditIgnore
  <2>2. QED
    BY <2>1, TouchedStep, PathAssumption
<1>5. QED
  BY <1>1, <1>2, <1>3, <1>4 DEF People

\* The purpose slot is copied through: every map that stands whole holds the
\* purpose it was last given, unless someone touched it during the run that
\* wrote it.  The invariant that is inductive follows the purpose from the
\* staging (StagedTold) to the write (PendingTold).
THEOREM PurposesSurvive == Spec => []PurposeKept
<1>1. Init => Survival
  BY PathAssumption DEF Init, Survival, PurposeKept, Closed, AbsentUntold, StagedTold,
     PendingTold, Bare
<1>2. TypeOK /\ Survival /\ [Next]_vars => Survival'
  <2> SUFFICES ASSUME TypeOK, Survival, [Next]_vars PROVE Survival'
    OBVIOUS
  <2>1. CASE Begin
    BY <2>1, QuietStep DEF Begin, Survival, Closed
  <2>2. CASE ReadPurposes
    <3>1. PurposeKept' /\ AbsentUntold' /\ Closed' /\ PendingTold'
      BY <2>2 DEF ReadPurposes, Survival, PurposeKept, AbsentUntold, Closed, PendingTold
    <3>2. StagedTold'
      BY <2>2, PlanAssumption
      DEF ReadPurposes, ExistingPurposes, Survival, PurposeKept, AbsentUntold, StagedTold,
          TypeOK
    <3>3. QED
      BY <3>1, <3>2 DEF Survival
  <2>3. CASE Unreadable \/ LookIsUpToDate \/ Refuse \/ Confirm \/ Stuck \/ Fail \/ Die
    BY <2>3, QuietStep
    DEF Unreadable, LookIsUpToDate, Refuse, Confirm, Stuck, Fail, Die, Ends, history
  <2>4. CASE LookIsStale
    BY <2>4, QuietStep DEF LookIsStale, history, Survival, Closed
  <2>5. CASE Publish
    <3>1. PurposeKept' /\ AbsentUntold' /\ Closed' /\ StagedTold'
      BY <2>5 DEF Publish, Survival, PurposeKept, AbsentUntold, Closed, StagedTold
    <3>2. ASSUME NEW m \in (todo' \cap Maps) \ touched PROVE purposes[m] = told[m]
      <4>1. m \in Planned[goal] /\ disk[m].kind \in {"whole", "none"}
        BY <2>5, <3>2, PathAssumption
        DEF Publish, Stale, Missing, Files, Repairs, Present
      <4>2. QED
        BY <2>5, <3>2, <4>1 DEF Publish, Survival, StagedTold
    <3>3. PendingTold'
      BY <2>5, <3>2 DEF Publish, PendingTold
    <3>4. QED
      BY <3>1, <3>3 DEF Survival
  <2>6. CASE Open
    <3>1. PICK p \in todo : /\ \E k \in {"foreign", "damaged"} : disk' = [disk EXCEPT ![p] = Bare(k)]
                            /\ opened' = p
      BY <2>6 DEF Open
    <3>2. \A m \in Maps : disk'[m] = disk[m] \/ disk'[m].kind \in {"foreign", "damaged"}
      BY <3>1 DEF TypeOK, Bare
    <3>3. PurposeKept' /\ AbsentUntold'
      BY <2>6, <3>2 DEF Open, history, Survival, PurposeKept, AbsentUntold
    <3>4. Closed' /\ StagedTold' /\ PendingTold'
      BY <2>6, <3>1 DEF Open, history, Survival, Closed, StagedTold, PendingTold
    <3>5. QED
      BY <3>3, <3>4 DEF Survival
  <2>7. CASE Fill
    <3>1. opened \in todo /\ todo \subseteq Paths
      BY <2>7 DEF Fill, Survival, Closed, TypeOK
    <3>2. /\ disk'[opened] = Rendered(opened)
          /\ \A m \in Maps \ {opened} : disk'[m] = disk[m] /\ told'[m] = told[m]
      BY <2>7, <3>1 DEF Fill, TypeOK
    <3>3. opened \in Maps => told'[opened] = purposes[opened]
      BY <2>7, <3>1 DEF Fill, TypeOK, Survival, PendingTold
    <3>4. PurposeKept' /\ AbsentUntold'
      BY <3>2, <3>3, PathAssumption DEF Rendered, Whole, Survival, PurposeKept, AbsentUntold
    <3>5. Closed' /\ StagedTold'
      BY <2>7 DEF Fill, Survival, Closed, StagedTold
    <3>6. PendingTold'
      BY <2>7, <3>2 DEF Fill, Survival, PendingTold
    <3>7. QED
      BY <3>4, <3>5, <3>6 DEF Survival
  <2>8. CASE Written \/ Removed \/ StartConfirm
    BY <2>8, QuietStep DEF Written, Removed, StartConfirm, history, Survival, Closed
  <2>9. CASE Remove
    <3>1. PICK m \in doomed : /\ disk' = [disk EXCEPT ![m] = Bare("none")]
                              /\ told' = [told EXCEPT ![m] = Seed]
      BY <2>9 DEF Remove
    <3>2. m \in Maps
      BY DEF TypeOK
    <3>3. PurposeKept' /\ AbsentUntold'
      BY <3>1, <3>2 DEF TypeOK, Bare, Survival, PurposeKept, AbsentUntold
    <3>4. Closed' /\ StagedTold' /\ PendingTold'
      BY <2>9 DEF Remove, Survival, Closed, StagedTold, PendingTold
    <3>5. QED
      BY <3>3, <3>4 DEF Survival
  <2>10. CASE OpenIgnore
    BY <2>10
    DEF OpenIgnore, history, Survival, PurposeKept, AbsentUntold, Closed, StagedTold, PendingTold
  <2>11. CASE People
    BY <2>11, PeopleSurvive
  <2>12. CASE UNCHANGED vars
    BY <2>12
    DEF vars, runVars, history, Survival, PurposeKept, AbsentUntold, Closed, StagedTold,
        PendingTold
  <2>13. QED
    BY <2>1, <2>2, <2>3, <2>4, <2>5, <2>6, <2>7, <2>8, <2>9, <2>10, <2>11, <2>12
    DEF Next, Run
<1>3. QED
  BY <1>1, <1>2, TypeCorrect, PTL DEF Spec, Survival

----------------------------------------------------------------------------
(* A run leaves alone what is not its own, and writes the root map last.   *)

\* What the run still has to write is its own, or touched meanwhile.
WritesMine == pc = "write" => \A p \in todo \ touched : Mine(p)

\* So is what it has to remove, and it is none of what it writes.
RemovesMine ==
  /\ pc \in {"write", "remove"} => \A m \in doomed \ touched : disk[m].kind = "whole"
  /\ pc = "write" => doomed \cap todo = {}

\* What the run need not write, or has written, is of the generation it writes.
WrittenSoFar ==
  pc = "write" =>
    /\ todo \subseteq Files
    /\ \A p \in Files \ (todo \cup touched) : disk[p] = Whole(goal, disk[p].purpose)

\* The file that is open is the first of those left to write.
OpenedFirst ==
  pc = "write" /\ opened # None => \A q \in todo : WrittenBefore(opened, q)

Order == Closed /\ WritesMine /\ RemovesMine /\ WrittenSoFar /\ OpenedFirst

\* A step to a place where nothing is left to write or remove.
LEMMA IdleStep ==
  ASSUME Order, opened' = None, pc' \in {"idle", "read", "compare", "ignore"}
  PROVE  Order'
BY DEF Order, Closed, WritesMine, RemovesMine, WrittenSoFar, OpenedFirst

\* A person's touch excuses the file touched, and no other changes.
LEMMA TouchedOrder ==
  ASSUME TypeOK, Order, NEW p \in Paths \cup {Ignore}, Touches(p),
         \A q \in Paths \ {p} : disk'[q] = disk[q]
  PROVE  Order'
<1>1. /\ UNCHANGED <<pc, stage, goal, todo, doomed, opened>>
      /\ pc # "idle" => touched' = touched \cup {p}
  BY DEF Touches
<1>2. Closed' /\ OpenedFirst'
  BY <1>1 DEF Order, Closed, OpenedFirst, WrittenBefore, ByBytes
<1>3. WritesMine'
  BY <1>1 DEF Order, WritesMine, Mine, TypeOK
<1>4. RemovesMine'
  BY <1>1 DEF Order, RemovesMine, TypeOK
<1>5. WrittenSoFar'
  BY <1>1, PlanAssumption DEF Order, WrittenSoFar, Files, Whole, TypeOK
<1>6. QED
  BY <1>2, <1>3, <1>4, <1>5 DEF Order

\* Every person's step is a touch.
LEMMA PeopleTouch ==
  ASSUME TypeOK, People
  PROVE  /\ changes' # changes
         /\ \E p \in Paths \cup {Ignore} :
              Touches(p) /\ \A q \in Paths \ {p} : disk'[q] = disk[q]
<1>1. ASSUME NEW p \in Paths \cup {Ignore}, Touches(p) PROVE changes' # changes
  BY <1>1, ChangeAssumption DEF Touches, TypeOK
<1>2. ASSUME NEW m \in Maps, NEW text \in Text, Describe(m, text)
      PROVE  Touches(m) /\ \A q \in Paths \ {m} : disk'[q] = disk[q]
  BY <1>2 DEF Describe, TypeOK
<1>3. ASSUME NEW m \in Maps, NEW g \in Generation, NEW text \in Purpose,
             Checkout(m, g, text)
      PROVE  Touches(m) /\ \A q \in Paths \ {m} : disk'[q] = disk[q]
  BY <1>3 DEF Checkout, TypeOK
<1>4. ASSUME NEW p \in Paths, NEW k \in Kind, Spoil(p, k)
      PROVE  Touches(p) /\ \A q \in Paths \ {p} : disk'[q] = disk[q]
  BY <1>4 DEF Spoil, TypeOK
<1>5. EditIgnore => Touches(Ignore) /\ \A q \in Paths : disk'[q] = disk[q]
  BY DEF EditIgnore
<1>6. \E p \in Paths \cup {Ignore} :
        Touches(p) /\ \A q \in Paths \ {p} : disk'[q] = disk[q]
  BY <1>2, <1>3, <1>4, <1>5 DEF People
<1>7. QED
  BY <1>1, <1>6

\* What the invariant says at the start, and across a step.
LEMMA OrderInductive ==
  /\ Init => Order
  /\ TypeOK /\ Order /\ [Next]_vars => Order'
<1>1. Init => Order
  BY DEF Init, Order, Closed, WritesMine, RemovesMine, WrittenSoFar, OpenedFirst
<1>2. TypeOK /\ Order /\ [Next]_vars => Order'
  <2> SUFFICES ASSUME TypeOK, Order, [Next]_vars PROVE Order'
    OBVIOUS
  <2>1. CASE Begin \/ ReadPurposes \/ Unreadable \/ LookIsUpToDate \/ LookIsStale \/ Refuse
             \/ Removed \/ StartConfirm \/ Confirm \/ Stuck \/ Fail \/ Die
    BY <2>1, IdleStep
    DEF Begin, ReadPurposes, Unreadable, LookIsUpToDate, LookIsStale, Refuse, Removed,
        StartConfirm, Confirm, Stuck, Fail, Die, Ends, Order, Closed
  <2>2. CASE Publish
    <3>1. opened' = None /\ Closed' /\ OpenedFirst'
      BY <2>2 DEF Publish, Order, Closed, OpenedFirst
    <3>2. WritesMine'
      BY <2>2 DEF Publish, WritesMine, Mine, Stale, Missing, Repairs, Present
    <3>3. RemovesMine'
      BY <2>2, PathAssumption
      DEF Publish, RemovesMine, Removable, Unplanned, Stale, Missing, Files
    <3>4. ASSUME NEW p \in Files \ (Stale \cup Missing)
          PROVE  disk[p] = Whole(goal, disk[p].purpose)
      <4>1. p \in Fresh
        BY <2>2, <3>4 DEF Publish, Conflicts
      <4>2. disk[p] = Rendered(p)
        BY <4>1 DEF Fresh
      <4>3. QED
        BY <4>2 DEF Rendered, Whole
    <3>5. WrittenSoFar'
      BY <2>2, <3>4 DEF Publish, WrittenSoFar, Files, Stale, Missing, Whole
    <3>6. QED
      BY <3>1, <3>2, <3>3, <3>5 DEF Order
  <2>3. CASE Open
    <3>1. PICK p \in todo :
            /\ \A q \in todo : WrittenBefore(p, q)
            /\ \E k \in {"foreign", "damaged"} : disk' = [disk EXCEPT ![p] = Bare(k)]
            /\ opened' = p
      BY <2>3 DEF Open
    <3>2. /\ UNCHANGED <<pc, goal, todo, doomed, touched>> /\ pc = "write"
          /\ \A q \in Paths \ {p} : disk'[q] = disk[q]
      BY <2>3, <3>1 DEF Open, history, TypeOK
    <3>3. Closed' /\ OpenedFirst'
      BY <3>1, <3>2 DEF Closed, OpenedFirst, WrittenBefore, ByBytes
    <3>4. WritesMine'
      BY <2>3, <3>1, <3>2, PathAssumption DEF Open, Order, WritesMine, Mine, TypeOK
    <3>5. RemovesMine'
      BY <3>1, <3>2 DEF Order, RemovesMine, TypeOK
    <3>6. WrittenSoFar'
      BY <3>1, <3>2, PlanAssumption, SMTT(30) DEF Order, WrittenSoFar, Files, Whole, TypeOK
    <3>7. QED
      BY <3>3, <3>4, <3>5, <3>6 DEF Order
  <2>4. CASE Fill
    <3>1. opened \in todo /\ todo \subseteq Paths /\ pc = "write"
      BY <2>4 DEF Fill, Order, Closed, TypeOK
    <3>2. /\ UNCHANGED <<pc, goal, doomed, touched>>
          /\ todo' = todo \ {opened} /\ opened' = None
          /\ disk'[opened] = Rendered(opened)
          /\ \A q \in Paths \ {opened} : disk'[q] = disk[q]
      BY <2>4, <3>1 DEF Fill, TypeOK
    <3>3. Closed' /\ OpenedFirst'
      BY <3>2 DEF Closed, OpenedFirst
    <3>4. WritesMine'
      BY <3>1, <3>2 DEF Order, WritesMine, Mine
    <3>5. RemovesMine'
      BY <3>1, <3>2 DEF Order, RemovesMine, TypeOK
    <3>6. WrittenSoFar'
      BY <3>1, <3>2, PlanAssumption DEF Order, WrittenSoFar, Files, Rendered, Whole, TypeOK
    <3>7. QED
      BY <3>3, <3>4, <3>5, <3>6 DEF Order
  <2>5. CASE Written
    BY <2>5
    DEF Written, history, Order, Closed, WritesMine, RemovesMine, WrittenSoFar, OpenedFirst
  <2>6. CASE Remove
    <3>1. PICK m \in doomed : /\ disk' = [disk EXCEPT ![m] = Bare("none")]
                              /\ doomed' = doomed \ {m}
      BY <2>6 DEF Remove
    <3>2. RemovesMine'
      BY <2>6, <3>1 DEF Remove, Order, RemovesMine, TypeOK
    <3>3. QED
      BY <2>6, <3>2
      DEF Remove, Order, Closed, WritesMine, WrittenSoFar, OpenedFirst
  <2>7. CASE OpenIgnore
    BY <2>7
    DEF OpenIgnore, Order, Closed, WritesMine, RemovesMine, WrittenSoFar, OpenedFirst
  <2>8. CASE People
    BY <2>8, PeopleTouch, TouchedOrder
  <2>9. CASE UNCHANGED vars
    BY <2>9
    DEF vars, runVars, history, Order, Closed, WritesMine, RemovesMine, WrittenSoFar,
        OpenedFirst, Mine, Files, Whole, WrittenBefore, ByBytes
  <2>10. QED
    BY <2>1, <2>2, <2>3, <2>4, <2>5, <2>6, <2>7, <2>8, <2>9 DEF Next, Run
<1>3. QED
  BY <1>1, <1>2

\* No step of a run writes over or removes what is not its own, however long
\* ago it was classified, except what was touched since.
THEOREM RunsKeepTheirHandsOff == Spec => HandsOff
<1>1. ASSUME TypeOK, Order, [Next]_vars, NEW p \in Paths, disk'[p] # disk[p],
             changes' = changes
      PROVE  Mine(p) \/ p \in touched
  <2>1. Open \/ Fill \/ Remove
    BY <1>1, PeopleTouch
    DEF Next, Run, Begin, ReadPurposes, Unreadable, LookIsUpToDate, LookIsStale, Refuse,
        Publish, Written, Removed, OpenIgnore, StartConfirm, Confirm, Stuck, Fail, Die, vars
  <2>2. CASE Open
    BY <1>1, <2>2 DEF Open, Order, WritesMine, TypeOK
  <2>3. CASE Fill
    BY <1>1, <2>3 DEF Fill, Mine, TypeOK
  <2>4. CASE Remove
    BY <1>1, <2>4 DEF Remove, Order, RemovesMine, Mine, TypeOK
  <2>5. QED
    BY <2>1, <2>2, <2>3, <2>4
<1>2. TypeOK /\ Order /\ [Next]_vars =>
        [\A p \in Paths :
           disk'[p] # disk[p] /\ changes' = changes => Mine(p) \/ p \in touched]_vars
  BY <1>1
<1>3. QED
  BY <1>2, OrderInductive, TypeCorrect, PTL DEF Spec, HandsOff

\* When a run writes the root map, all else of its generation is on disk.
THEOREM RootComesLast == Spec => RootMarksGeneration
<1>1. ASSUME TypeOK, Order, [Next]_vars, opened = RootMap, opened' = None, pc' = "write",
             NEW p \in Files \ touched
      PROVE  disk'[p] = Whole(goal, disk'[p].purpose)
  <2>1. Fill
    BY <1>1, PathAssumption, PeopleTouch
    DEF Next, Run, Begin, ReadPurposes, Unreadable, LookIsUpToDate, LookIsStale, Refuse,
        Publish, Open, Written, Remove, Removed, OpenIgnore, StartConfirm, Confirm, Stuck,
        Fail, Die, Ends, vars, runVars, Touches, Order, Closed
  <2>2. todo \subseteq {RootMap}
    BY <1>1, <2>1, PathAssumption, OrderAssumption
    DEF Fill, Order, OpenedFirst, WrittenBefore, TypeOK
  <2>3. /\ disk'[RootMap] = Rendered(RootMap)
        /\ \A q \in Paths \ {RootMap} : disk'[q] = disk[q]
    BY <1>1, <2>1, PathAssumption DEF Fill, TypeOK
  <2>4. CASE p = RootMap
    BY <2>3, <2>4 DEF Rendered, Whole
  <2>5. CASE p # RootMap
    BY <1>1, <2>1, <2>2, <2>3, <2>5, PlanAssumption
    DEF Fill, Order, WrittenSoFar, Files, TypeOK
  <2>6. QED
    BY <2>4, <2>5
<1>2. TypeOK /\ Order /\ [Next]_vars =>
        [opened = RootMap /\ opened' = None /\ pc' = "write" =>
           \A p \in Files \ touched : disk'[p] = Whole(goal, disk'[p].purpose)]_vars
  BY <1>1
<1>3. QED
  BY <1>2, OrderInductive, TypeCorrect, PTL DEF Spec, RootMarksGeneration

----------------------------------------------------------------------------
(* Staging decides: a run that passed it is stopped only by what it could   *)
(* not know.                                                               *)

\* Where a run has passed staging, up to its confirmation.
Decided ==
  pc \in {"write", "remove", "ignore"} \/ (pc \in {"read", "compare"} /\ stage = "confirm")

\* Every file of the generation is on disk, but those left to write.
FilesStand ==
  \A p \in Files \ todo :
    disk[p] = Whole(goal, disk[p].purpose) /\ (p = Symbols => disk[p].purpose = Seed)

\* Every other map there is will be removed, or lay beyond the scan.
OthersGo ==
  /\ doomed \cap Planned[goal] = {}
  /\ \A m \in Maps \ Planned[goal] : Present(m) => m \in doomed \cup unseen

\* .rr/.gitignore can be written, or was.
IgnoreStands ==
  /\ ignore = "malformed" => pc = "ignore" /\ opened = Ignore
  /\ stage = "confirm" /\ pc \in {"read", "compare"} => ignore = "block"

\* The loops behind the run are over, and the confirmation reads what it wrote.
LoopsAreOver ==
  /\ pc # "write" => todo = {}
  /\ pc \notin {"write", "remove"} => doomed = {}
  /\ pc = "compare" => \A m \in Planned[goal] : purposes[m] = disk[m].purpose

Staged ==
  /\ pc # "idle" => outcome = "none"
  /\ Decided /\ touched = {} =>
       published = goal /\ FilesStand /\ OthersGo /\ IgnoreStands /\ LoopsAreOver

\* A step that does not take the run past staging.
LEMMA UndecidedStep ==
  ASSUME pc' # "idle" => outcome' = "none", ~Decided'
  PROVE  Staged'
BY DEF Staged

\* Publishing: nothing conflicts, so all there is stands, is to be written, is
\* to be removed, or was not scanned.
LEMMA PublishStages ==
  ASSUME TypeOK, Staged, Publish
  PROVE  Staged'
<1>1. /\ pc' = "write" /\ outcome' = outcome /\ outcome = "none" /\ Conflicts = {}
      /\ UNCHANGED <<disk, ignore, goal, purposes>>
      /\ published' = goal /\ todo' = Stale \cup Missing /\ doomed' = Removable
      /\ unseen' = {m \in Maps : Present(m) /\ ~Reached(m)}
  BY DEF Publish, Staged
<1>2. FilesStand'
  <2>1. ASSUME NEW p \in Files \ (Stale \cup Missing)
        PROVE  disk[p] = Whole(goal, disk[p].purpose) /\ (p = Symbols => disk[p].purpose = Seed)
    <3>1. disk[p] = Rendered(p)
      BY <1>1, <2>1 DEF Conflicts, Fresh
    <3> QED
      BY <3>1 DEF Rendered, Whole
  <2> QED
    BY <1>1, <2>1 DEF FilesStand, Files, Whole
<1>3. OthersGo'
  <2>1. Removable \cap Planned[goal] = {}
    BY DEF Removable, Unplanned
  <2>2. ASSUME NEW m \in Maps \ Planned[goal], Present(m)
        PROVE  m \in Removable \/ ~Reached(m)
    BY <1>1, <2>2 DEF Conflicts, Unplanned
  <2> QED
    BY <1>1, <2>1, <2>2 DEF OthersGo, Present
<1>4. ignore # "malformed"
  BY <1>1 DEF Conflicts, IgnoreConflict
<1>5. IgnoreStands' /\ LoopsAreOver'
  BY <1>1, <1>4 DEF IgnoreStands, LoopsAreOver
<1> QED
  BY <1>1, <1>2, <1>3, <1>5 DEF Staged

\* Writing and removing, file by file.
LEMMA WritingStages ==
  ASSUME TypeOK, Order, Staged, Open \/ Fill \/ Written \/ Remove \/ Removed
  PROVE  Staged'
<1>1. pc \in {"write", "remove"} /\ pc' # "idle" /\ outcome' = outcome /\ outcome = "none"
      /\ UNCHANGED <<ignore, goal, published, purposes, touched, unseen, stage>>
  BY DEF Open, Fill, Written, Remove, Removed, history, Staged
<1> SUFFICES ASSUME touched = {}
             PROVE  FilesStand' /\ OthersGo' /\ IgnoreStands' /\ LoopsAreOver'
  BY <1>1 DEF Staged, Decided
<1>2. FilesStand /\ OthersGo /\ IgnoreStands /\ LoopsAreOver
  BY <1>1 DEF Staged, Decided
<1>3. Files' = Files /\ Symbols \notin Maps /\ Files \subseteq Paths
  BY <1>1, PathAssumption, PlanAssumption DEF Files, TypeOK
<1>4. pc = "write" => todo \subseteq Files
  BY DEF Order, WrittenSoFar
<1>5. CASE Open
  <2>1. PICK p \in todo : \E k \in {"foreign", "damaged"} : disk' = [disk EXCEPT ![p] = Bare(k)]
    BY <1>5 DEF Open
  <2>2. p \in Files /\ \A q \in Paths \ {p} : disk'[q] = disk[q]
    BY <1>4, <1>5, <2>1 DEF Open, TypeOK
  <2>3. UNCHANGED <<pc, todo, doomed>> /\ pc = "write"
    BY <1>5 DEF Open
  <2>4. FilesStand'
    BY <1>1, <1>2, <1>3, <2>1, <2>2, <2>3 DEF FilesStand, Whole
  <2>5. OthersGo'
    BY <1>1, <1>2, <1>3, <2>2, <2>3 DEF OthersGo, Present, Files
  <2> QED
    BY <1>1, <1>2, <2>3, <2>4, <2>5 DEF IgnoreStands, LoopsAreOver
<1>6. CASE Fill
  <2>1. opened \in todo /\ todo \subseteq Paths /\ pc = "write"
    BY <1>6 DEF Fill, Order, Closed, TypeOK
  <2>2. /\ UNCHANGED <<pc, doomed>> /\ todo' = todo \ {opened}
        /\ disk'[opened] = Rendered(opened)
        /\ \A q \in Paths \ {opened} : disk'[q] = disk[q]
    BY <1>6, <2>1 DEF Fill, TypeOK
  <2>3. FilesStand'
    BY <1>1, <1>2, <1>3, <2>1, <2>2 DEF FilesStand, Rendered, Whole
  <2>4. OthersGo'
    BY <1>1, <1>2, <1>3, <1>4, <2>1, <2>2 DEF OthersGo, Present, Files
  <2> QED
    BY <1>1, <1>2, <2>1, <2>2, <2>3, <2>4 DEF IgnoreStands, LoopsAreOver
<1>7. CASE Written \/ Removed
  <2>1. UNCHANGED <<disk, todo, doomed>>
        /\ \/ pc = "write" /\ pc' = "remove" /\ todo = {}
           \/ pc = "remove" /\ pc' = "ignore" /\ doomed = {}
    BY <1>7 DEF Written, Removed
  <2> QED
    BY <1>1, <1>2, <1>3, <2>1
    DEF FilesStand, OthersGo, IgnoreStands, LoopsAreOver, Present, Whole
<1>8. CASE Remove
  <2>1. PICK m \in doomed : /\ disk' = [disk EXCEPT ![m] = Bare("none")]
                            /\ doomed' = doomed \ {m}
    BY <1>8 DEF Remove
  <2>2. m \in Maps \ Planned[goal] /\ disk'[m].kind = "none"
        /\ \A q \in Paths \ {m} : disk'[q] = disk[q]
    BY <1>2, <2>1 DEF OthersGo, TypeOK, Bare
  <2>3. UNCHANGED <<pc, todo>> /\ pc = "remove"
    BY <1>8 DEF Remove
  <2>4. FilesStand'
    BY <1>1, <1>2, <1>3, <2>2, <2>3 DEF FilesStand, Files, Whole
  <2>5. OthersGo'
    BY <1>1, <1>2, <2>1, <2>2 DEF OthersGo, Present
  <2> QED
    BY <1>1, <1>2, <2>3, <2>4, <2>5 DEF IgnoreStands, LoopsAreOver
<1> QED
  BY <1>5, <1>6, <1>7, <1>8

\* The ignore file, and the staging that confirms.
LEMMA ClosingStages ==
  ASSUME TypeOK, Order, Staged, OpenIgnore \/ StartConfirm \/ ReadPurposes
  PROVE  Staged'
<1>1. pc' # "idle" /\ outcome' = outcome /\ outcome = "none"
      /\ UNCHANGED <<disk, goal, published, unseen, todo, doomed>>
  BY DEF OpenIgnore, StartConfirm, ReadPurposes, history, Staged
<1> SUFFICES ASSUME Decided', touched' = {}
             PROVE  /\ published' = goal' /\ FilesStand' /\ OthersGo'
                    /\ IgnoreStands' /\ LoopsAreOver'
  BY <1>1 DEF Staged
<1>2. Decided /\ touched = {}
  BY DEF Decided, OpenIgnore, StartConfirm, ReadPurposes, history
<1>3. published = goal /\ FilesStand /\ OthersGo /\ IgnoreStands /\ LoopsAreOver
  BY <1>2 DEF Staged
<1>4. FilesStand' /\ OthersGo'
  BY <1>1, <1>3 DEF FilesStand, OthersGo, Files, Present, Whole
<1>5. IgnoreStands'
  BY <1>3 DEF IgnoreStands, OpenIgnore, StartConfirm, ReadPurposes
<1>6. LoopsAreOver'
  <2>1. CASE OpenIgnore \/ StartConfirm
    BY <1>1, <1>3, <2>1 DEF LoopsAreOver, OpenIgnore, StartConfirm
  <2>2. CASE ReadPurposes
    <3>1. todo = {} /\ doomed = {} /\ pc' = "compare"
      BY <1>3, <2>2 DEF LoopsAreOver, ReadPurposes
    <3>2. ASSUME NEW m \in Planned[goal]
          PROVE  disk[m].kind = "whole" /\ m \in Maps
      <4>1. m \in Maps
        BY <3>2, PlanAssumption DEF TypeOK
      <4>2. m \in Files \ todo
        BY <3>1, <3>2 DEF Files
      <4>3. disk[m] = Whole(goal, disk[m].purpose)
        BY <1>3, <4>2 DEF FilesStand
      <4> HIDE DEF Kind, Generation
      <4>4. Whole(goal, disk[m].purpose).kind = "whole"
        BY DEF Whole
      <4> QED
        BY <4>1, <4>3, <4>4
    <3>3. \A m \in Planned[goal] : purposes'[m] = disk[m].purpose
      BY <2>2, <3>2 DEF ReadPurposes, ExistingPurposes
    <3> QED
      BY <1>1, <3>1, <3>3 DEF LoopsAreOver
  <2> QED
    BY <2>1, <2>2
<1> QED
  BY <1>1, <1>3, <1>4, <1>5, <1>6

\* Nobody's touch takes a run past staging, and a touched run promises nothing.
LEMMA TouchStages ==
  ASSUME TypeOK, Staged, People
  PROVE  Staged'
<1>1. PICK p \in Paths \cup {Ignore} : Touches(p)
  BY PeopleTouch
<1>2. pc' = pc /\ stage' = stage
  BY <1>1 DEF Touches
<1>3. CASE pc = "idle"
  BY <1>2, <1>3 DEF Staged, Decided
<1>4. CASE pc # "idle"
  BY <1>1, <1>2, <1>4 DEF Staged, Decided, Touches
<1> QED
  BY <1>3, <1>4

\* Staged holds of every reachable state.
LEMMA StagedInductive == Spec => []Staged
<1>1. Init => Staged
  BY DEF Init, Staged, Decided
<1>2. TypeOK /\ Order /\ Staged /\ [Next]_vars => Staged'
  <2> SUFFICES ASSUME TypeOK, Order, Staged, [Next]_vars
               PROVE  Staged'
    OBVIOUS
  <2>1. CASE Begin
    BY <2>1 DEF Begin, Staged, Decided
  <2>2. CASE LookIsStale
    BY <2>2 DEF LookIsStale, Staged, Decided, history
  <2>3. CASE Unreadable \/ LookIsUpToDate \/ Refuse \/ Confirm \/ Stuck \/ Fail \/ Die
    <3>1. pc' = "idle"
      BY <2>3 DEF Unreadable, LookIsUpToDate, Refuse, Confirm, Stuck, Fail, Die, Ends
    <3> QED
      BY <3>1 DEF Staged, Decided
  <2>4. CASE UNCHANGED vars
    BY <2>4
    DEF vars, runVars, history, Staged, Decided, FilesStand, OthersGo, IgnoreStands,
        LoopsAreOver, Files, Whole, Present
  <2> QED
    BY <2>1, <2>2, <2>3, <2>4, PublishStages, WritingStages, ClosingStages, TouchStages
    DEF Next, Run
<1> QED
  BY <1>1, <1>2, OrderInductive, TypeCorrect, PTL DEF Spec

\* Past staging and untouched, a run meets nothing it did not decide on.
LEMMA NothingIsStuck ==
  ASSUME TypeOK, Order, Staged, Stuck
  PROVE  touched # {}
<1> SUFFICES ASSUME touched = {}
             PROVE  FALSE
  OBVIOUS
<1>1. FilesStand /\ OthersGo /\ IgnoreStands /\ LoopsAreOver
  BY DEF Staged, Decided, Stuck
<1>2. ASSUME pc = "write", opened = None, NEW p \in todo, disk[p].kind = "locked"
      PROVE  FALSE
  BY <1>2, PathAssumption DEF TypeOK, Order, WritesMine, Mine
<1>3. ASSUME pc = "remove", NEW m \in doomed, ~Present(m)
      PROVE  FALSE
  BY <1>3 DEF Order, RemovesMine, Present
<1>4. ASSUME pc = "ignore", opened = None, ignore = "malformed"
      PROVE  FALSE
  BY <1>1, <1>4, PathAssumption DEF IgnoreStands
<1> QED
  BY <1>2, <1>3, <1>4 DEF Stuck

\* ... can read back what it wrote, ...
LEMMA ReadsBack ==
  ASSUME TypeOK, Staged, Unreadable, stage = "confirm"
  PROVE  touched # {}
<1> SUFFICES ASSUME touched = {}
             PROVE  FALSE
  OBVIOUS
<1>1. pc = "read" /\ FilesStand /\ LoopsAreOver
  BY DEF Staged, Decided, Unreadable
<1>2. PICK m \in Planned[goal] : disk[m].kind = "locked"
  BY DEF Unreadable
<1>3. m \in Files \ todo
  BY <1>1 DEF LoopsAreOver, Files
<1>4. disk[m] = Whole(goal, disk[m].purpose)
  BY <1>1, <1>3 DEF FilesStand
<1>5. Whole(goal, disk[m].purpose).kind = "whole"
  BY DEF Whole
<1> QED
  BY <1>2, <1>4, <1>5

\* ... and is confirmed, unless the scan now reaches a map it did not reach.
LEMMA ConfirmsWhatItWrote ==
  ASSUME TypeOK, Staged, Confirm, ~UpToDate, touched = {}
  PROVE  \E m \in unseen \ Planned[published] : Reached(m)
<1>1. /\ pc = "compare" /\ stage = "confirm"
      /\ published = goal /\ FilesStand /\ OthersGo /\ IgnoreStands /\ LoopsAreOver
  BY DEF Staged, Decided, Confirm
<1>2. todo = {} /\ doomed = {} /\ ignore = "block"
  BY <1>1 DEF LoopsAreOver, IgnoreStands
<1>3. Symbols \notin Maps /\ Planned[goal] \subseteq Maps
  BY PathAssumption, PlanAssumption DEF TypeOK
<1>4. ASSUME NEW p \in Files
      PROVE  p \in Fresh /\ disk[p].kind = "whole"
  <2>1. disk[p] = Whole(goal, disk[p].purpose) /\ (p = Symbols => disk[p].purpose = Seed)
    BY <1>1, <1>2, <1>4 DEF FilesStand
  <2>2. p # Symbols => purposes[p] = disk[p].purpose
    BY <1>1, <1>4 DEF LoopsAreOver, Files
  <2>3. disk[p] = Rendered(p)
    BY <2>1, <2>2 DEF Rendered
  <2>4. Whole(goal, disk[p].purpose).kind = "whole"
    BY DEF Whole
  <2> QED
    BY <1>4, <2>1, <2>3, <2>4 DEF Fresh
<1>5. Stale = {} /\ Missing = {} /\ Files \ (Fresh \cup Stale \cup Missing) = {}
  BY <1>4 DEF Stale, Missing, Present
<1>6. IgnoreConflict = {}
  BY <1>2 DEF IgnoreConflict
<1>7. Unplanned # {}
  BY <1>5, <1>6 DEF UpToDate, Conflicts, Removable
<1>8. PICK m \in Maps \ Planned[goal] : Present(m) /\ Reached(m)
  BY <1>7 DEF Unplanned
<1>9. m \in unseen
  BY <1>1, <1>2, <1>8 DEF OthersGo
<1> QED
  BY <1>1, <1>8, <1>9

\* A run that passed staging is stopped half-way, or is not confirmed, only by
\* a failing system call, by something touched meanwhile, or by a file that lay
\* beyond the staging's scan and came within it.
THEOREM StagingIsEnough == Spec => []StagingSuffices
<1>1. Init => StagingSuffices
  BY DEF Init, StagingSuffices
<1>2. TypeOK /\ Order /\ Staged /\ StagingSuffices /\ [Next]_vars => StagingSuffices'
  <2> SUFFICES ASSUME TypeOK, Order, Staged, StagingSuffices, [Next]_vars
               PROVE  StagingSuffices'
    OBVIOUS
  <2>1. CASE Stuck
    <3>1. touched # {} /\ touched' = touched
      BY <2>1, NothingIsStuck DEF Stuck, history
    <3> QED
      BY <3>1 DEF StagingSuffices
  <2>2. CASE Fail
    BY <2>2 DEF Fail, StagingSuffices
  <2>3. CASE Unreadable
    <3>1. stage = "confirm" => touched # {}
      BY <2>3, ReadsBack
    <3>2. touched' = touched /\ outcome' = IF stage = "confirm" THEN "unconfirmed" ELSE "failed"
      BY <2>3 DEF Unreadable, history, Ends
    <3> QED
      BY <3>1, <3>2 DEF StagingSuffices
  <2>4. CASE Confirm
    <3>1. UNCHANGED <<disk, touched, unseen, published>>
          /\ outcome' = IF UpToDate THEN "done" ELSE "unconfirmed"
      BY <2>4 DEF Confirm, history, Ends
    <3>2. ~UpToDate /\ touched = {} => \E m \in unseen \ Planned[published] : Reached(m)
      BY <2>4, ConfirmsWhatItWrote
    <3> QED
      BY <3>1, <3>2 DEF StagingSuffices, Reached, Present
  <2>5. CASE LookIsUpToDate \/ Refuse \/ Die
    <3>1. outcome' \in {"unchanged", "refused", "died"}
      BY <2>5 DEF LookIsUpToDate, Refuse, Die, Ends
    <3> QED
      BY <3>1 DEF StagingSuffices
  <2>6. CASE People
    <3>1. PICK p \in Paths \cup {Ignore} : Touches(p)
      BY <2>6 DEF People, Describe, Checkout, Spoil, EditIgnore
    <3> QED
      BY <3>1 DEF Touches, StagingSuffices
  <2>7. CASE \/ Begin \/ ReadPurposes \/ LookIsStale \/ Publish \/ Open \/ Fill \/ Written
             \/ Remove \/ Removed \/ OpenIgnore \/ StartConfirm
    <3>1. outcome' = "none"
      BY <2>7
      DEF Begin, ReadPurposes, LookIsStale, Publish, Open, Fill, Written, Remove, Removed,
          OpenIgnore, StartConfirm, Staged
    <3> QED
      BY <3>1 DEF StagingSuffices
  <2>8. CASE UNCHANGED vars
    BY <2>8 DEF vars, runVars, history, StagingSuffices, Reached, Present
  <2> QED
    BY <2>1, <2>2, <2>3, <2>4, <2>5, <2>6, <2>7, <2>8 DEF Next, Run
<1> QED
  BY <1>1, <1>2, StagedInductive, OrderInductive, TypeCorrect, PTL DEF Spec
=============================================================================
