------------------------- MODULE RefreshPublication -------------------------
(* Refresh as an implementation of Publication. *)
EXTENDS Refresh

\* The runs inside the guard, before and after they have something published.
Building == {r \in Runner : pc[r] \in Holding \ {"published"}}
Writing == {r \in Runner : pc[r] = "published"}

P == INSTANCE Publication WITH
       Content <- Snapshots,
       Usable <- {s \in Snapshots : s.disk = "ready"},
       published <- snapshot,
       building <- Building,
       writing <- Writing

\* guard.rs:3, of two refreshes at once "the second would erase the first's
\* work"; refresh.rs:133, "anything that must happen under it happens before
\* then".  Every run, however it ends and whatever it leaves behind, replaces
\* the published snapshot at most once, as a whole, and with no other run
\* building or writing between its entry and its leaving.
ImplementsPublication == P!Spec
=============================================================================
