------------------------------- MODULE Sigpipe -------------------------------
(***************************************************************************)
(* rr-git/src/sigpipe.rs: the process restores a terminating SIGPIPE, so   *)
(* that a reader who stops reading ends it; a thread that pipes a blob     *)
(* through a clean filter must be spared.  The disposition belongs to the  *)
(* whole process and the users overlap, so the first one in ignores the    *)
(* signal and the last one out puts back what was there.                   *)
(***************************************************************************)
EXTENDS Integers, FiniteSets

CONSTANTS
  Threads,    \* of the rayon pool
  MaxNest     \* how deep one thread's guards nest

ASSUME SigpipeAssumption == IsFiniteSet(Threads) /\ MaxNest \in Nat

VARIABLES
  disposition,  \* what SIGPIPE does to the process
  depth,        \* State.depth
  previous,     \* State.previous
  guards        \* guards[t]: how many Ignore values t holds

sigpipeVars == <<disposition, depth, previous, guards>>

Dispositions == {"terminate", "ignore"}

\* main installs the terminating disposition before it starts a thread.
\* SIG_DFL, the initial value of State.previous, terminates as well.
SigpipeInit ==
  /\ disposition = "terminate" /\ previous = "terminate"
  /\ depth = 0 /\ guards = [t \in Threads |-> 0]

\* Mutation: every user saves what it finds.
SavedByAll == disposition
Saved == IF depth = 0 THEN disposition ELSE previous

\* acquire, one critical section.
Ignore(t) ==
  /\ guards[t] < MaxNest
  /\ previous' = Saved
  /\ disposition' = IF depth = 0 THEN "ignore" ELSE disposition
  /\ depth' = depth + 1
  /\ guards' = [guards EXCEPT ![t] = @ + 1]

Restored(d) == IF d = 0 THEN previous ELSE disposition

\* release, one critical section; a guard is dropped once.
DropGuard(t) ==
  /\ guards[t] > 0
  /\ depth' = (IF depth > 0 THEN depth - 1 ELSE 0)
  /\ disposition' = Restored(depth')
  /\ guards' = [guards EXCEPT ![t] = @ - 1]
  /\ UNCHANGED previous

SigpipeNext == \E t \in Threads : Ignore(t) \/ DropGuard(t)
SigpipeSpec == SigpipeInit /\ [][SigpipeNext]_sigpipeVars

----------------------------------------------------------------------------
Inside == {t \in Threads : guards[t] > 0}

\* sigpipe.rs: "Nested and overlapping calls therefore cannot restore a
\* terminating disposition under a sibling that is still writing", and once
\* the last one has left a closed pipe ends the process again.
SigpipeContained == disposition = IF Inside = {} THEN "terminate" ELSE "ignore"
=============================================================================
