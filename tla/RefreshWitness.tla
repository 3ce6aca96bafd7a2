--------------------------- MODULE RefreshWitness ---------------------------
(***************************************************************************)
(* Refresh with a history variable: for every run between the end of its   *)
(* build and its publication, the sources whose record has, at some moment  *)
(* since the build ended, been the bytes on disk, and the ones the rules    *)
(* have let through.  A commit made in that time settles every source: the  *)
(* snapshot names the commit before it, so the next plan hears of what it   *)
(* changed.  Nothing reads the variable; the properties use it to say what  *)
(* the confirmations of `prepare` buy.                                      *)
(***************************************************************************)
EXTENDS Refresh

VARIABLE witness

Confirming == {"confirm", "verify"}

\* The sources run r's records agree with the disk about, and the ones they
\* agree with the rules about, in the state they are asked for.  A source that
\* is not recorded agrees with both when a rebuild would not record it.
AsOnDisk(r) ==
  {p \in Source : built[r][p] \in {work[p], Rebuilt(p)} \/ head # next[r].head}
AsRuled(r) ==
  {p \in Source : \/ built[r][p] = Rebuilt(p)
                  \/ built[r][p] # Absent /\ p \notin Hidden
                  \/ head # next[r].head}

NoWitness == [disk |-> {}, rules |-> {}]

Witnessed ==
  witness' = [r \in Runner |->
    IF pc'[r] \in Confirming
    THEN LET before == IF pc[r] \in Confirming THEN witness[r] ELSE NoWitness
         IN  [disk |-> before.disk \cup AsOnDisk(r)',
              rules |-> before.rules \cup AsRuled(r)']
    ELSE NoWitness]

WitnessInit == RefreshInit /\ witness = [r \in Runner |-> NoWitness]
WitnessNext == RefreshNext /\ Witnessed
WitnessSpec == WitnessInit /\ [][WitnessNext]_<<vars, witness>>

----------------------------------------------------------------------------

\* confirm_unchanged and confirm_content: when prepare returns, every record
\* has been, at some moment after the build had ended and not only when it was
\* read or planned, the bytes on disk, and the rules have let it through; or
\* HEAD has moved since.  Not both at one moment: the rules are asked before
\* the content is, and may change in between.  Two kinds of record are exempt:
\* the ones the planner read and vouched for, which already_recorded leaves out
\* of what confirm_content reads again, and a record missing since a deletion
\* nobody wrote down.
PreparedIsCurrent ==
  \A r \in Runner : Prepared(r) =>
    \A p \in Source :
      \/ p \in witness[r].disk \cap witness[r].rules
      \/ p \in plan[r].vouched
      \/ p \in next[r].gone
=============================================================================
