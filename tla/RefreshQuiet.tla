---------------------------- MODULE RefreshQuiet ----------------------------
(***************************************************************************)
(* Refresh in a world that at some point comes to rest: from then on the   *)
(* repository changes no more and nobody interrupts a run, while refreshes *)
(* are still asked for.  What it is for is convergence: nothing a run does *)
(* may leave a snapshot that later runs never bring up to date.  The       *)
(* history variable of RefreshWitness is kept along.                       *)
(***************************************************************************)
EXTENDS RefreshWitness

VARIABLE quiet  \* whether the changes and the interruptions are over

\* The steps of the runs themselves, and the removal of an orphaned lock.
RunNext ==
  \/ \E r \in Runner : Start(r) \/ Step(r)
  \/ RemoveStaleLock

QuietInit == WitnessInit /\ quiet = FALSE

QuietNext ==
  /\ \/ ~quiet /\ RefreshNext /\ UNCHANGED quiet
     \/ ~quiet /\ quiet' = TRUE /\ UNCHANGED vars
     \/ quiet /\ RunNext /\ UNCHANGED quiet
  /\ Witnessed

\* Fairness: a process that was started gets to run, refreshes keep being
\* asked for, and somebody removes a lock file that a killed run left.
FairSpec ==
  /\ QuietInit /\ [][QuietNext]_<<vars, witness, quiet>>
  /\ \A r \in Runner : WF_vars(Step(r)) /\ WF_vars(Start(r))
  /\ WF_vars(RemoveStaleLock)

\* Whether the snapshot says of every source what a rebuild would, but for
\* deletions nobody wrote down.
Current ==
  /\ snapshot.disk = "ready"
  /\ \A p \in Source :
       \/ snapshot.files[p] = Rebuilt(p)
       \/ snapshot.files[p] = Absent /\ p \in snapshot.gone

\* Once the world is at rest, the refreshes bring the snapshot up to date
\* for good: no run is refused forever, no confirmation fails forever, and
\* nothing stale is kept as up to date.
Settles == <>quiet => <>[]Current
=============================================================================
