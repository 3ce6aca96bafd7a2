---------------------------- MODULE Publication ----------------------------
(***************************************************************************)
(* What `rr refresh` promises of the published snapshot, in the abstract.  *)
(* Any number of runs share one published value.  A run that builds enters *)
(* alone, replaces the whole value at most once, and then writes the text  *)
(* that goes with it; a run that only has text to write enters alone over  *)
(* the value it finds.  Either may give up or die at any point.  The value *)
(* changes in no other way, but for damage from outside.                   *)
(*                                                                         *)
(* There is no lock here, and no crash that leaves one behind: those, and  *)
(* all that a run observes, reads and confirms, are how the code does it.  *)
(***************************************************************************)
CONSTANTS
  Runner,   \* the runs
  Content,  \* what a load of the published file may yield
  Usable    \* the part of it that is a snapshot

VARIABLES
  published,  \* what a load of the published file yields
  building,   \* the runs that are inside and have replaced nothing
  writing     \* the runs that are inside and write text

Free == building = {} /\ writing = {}

Init == published \in Content \ Usable /\ Free

Enter(r) ==
  /\ Free
  /\ building' = {r}
  /\ UNCHANGED <<published, writing>>

\* Over the snapshot that is there, to write its text.
Resume(r) ==
  /\ Free
  /\ published \in Usable
  /\ writing' = {r}
  /\ UNCHANGED <<published, building>>

Replace(r) ==
  /\ building = {r}
  /\ published' \in Usable
  /\ building' = {}
  /\ writing' = {r}

Leave ==
  /\ ~Free
  /\ building' = {} /\ writing' = {}
  /\ UNCHANGED published

Damage ==
  /\ published \in Usable
  /\ published' \in Content \ Usable
  /\ UNCHANGED <<building, writing>>

Next ==
  \/ \E r \in Runner : Enter(r) \/ Resume(r) \/ Replace(r)
  \/ Leave
  \/ Damage

Spec == Init /\ [][Next]_<<published, building, writing>>
=============================================================================
