------------------------------ MODULE PlanDraft ------------------------------
(***************************************************************************)
(* rr-core/src/refresh/mod.rs: the draft that collects what the items of a *)
(* Git status claim of each path, in the order they come, and the plan it  *)
(* freezes into.                                                           *)
(***************************************************************************)
EXTENDS SequencesExt

CONSTANTS
  Paths,
  NoSource                  \* no source is recorded for a target

ASSUME PlanAssumption == NoSource \notin Paths

Sound == "sound"

NewDraft == [dispositions |-> [p \in Paths |-> "unclaimed"], renames |-> [p \in Paths |-> NoSource],
             conflicted |-> {}, failure |-> Sound]

\* Latches the first contradiction.
Fail(draft, reason) == IF draft.failure = Sound THEN [draft EXCEPT !.failure = reason] ELSE draft

RecheckPath(draft, path) == [draft EXCEPT !.dispositions[path] = "recheck"]
\* Mutation: the last claim about a path wins.
RemoveLast(draft, path) == [draft EXCEPT !.dispositions[path] = "remove"]
RemovePath(draft, path) ==
  [draft EXCEPT !.dispositions[path] = IF @ = "unclaimed" THEN "remove" ELSE @]

RenamePath(draft, source, target) ==
  LET claimed == draft.renames[target]
      recorded == [draft EXCEPT !.renames[target] = source]
  IN  CASE source = target -> Fail(draft, "source-is-target")
        [] source # target /\ claimed \notin {NoSource, source} -> Fail(recorded, "two-sources")
        [] OTHER -> RecheckPath(RemovePath(recorded, source), target)

Claim(draft, item) ==
  CASE item.is = "remove" -> RemovePath(draft, item.path)
    [] item.is = "rename" -> RenamePath(draft, item.source, item.path)
    [] item.is = "conflict" ->
         RecheckPath([draft EXCEPT !.conflicted = @ \cup {item.path}], item.path)
    [] OTHER -> RecheckPath(draft, item.path)

Draft(items) == FoldLeft(Claim, NewDraft, items)

Freeze(draft) ==
  LET paths(disposition) == {p \in Paths : draft.dispositions[p] = disposition}
      renames == {<<draft.renames[t], t>> : t \in {u \in Paths : draft.renames[u] # NoSource}}
      forked == \E r, s \in renames : r[1] = s[1] /\ r[2] # s[2]
  IN  [refused |-> draft.failure # Sound \/ forked, recheck |-> paths("recheck"),
       remove |-> paths("remove"), renames |-> renames, conflicted |-> draft.conflicted]

----------------------------------------------------------------------------
\* The plan depends on what the items claim and never on their order or on how
\* often one comes: a path any item still sees is rechecked even when another says
\* it is gone, and a status whose renames contradict each other is refused.
PlanIgnoresOrder(items) ==
  LET plan == Freeze(Draft(items))
      of(kind) == {items[i] : i \in {j \in DOMAIN items : items[j].is = kind}}
      renames == {<<r.source, r.path>> : r \in of("rename")}
      seen == {item.path : item \in of("recheck") \cup of("copy") \cup of("conflict") \cup of("rename")}
      gone == {item.path : item \in of("remove")} \cup {r[1] : r \in renames}
      contradict == \/ \E r \in renames : r[1] = r[2]
                    \/ \E r, s \in renames : r # s /\ (r[1] = s[1] \/ r[2] = s[2])
  IN  /\ plan.refused <=> contradict
      /\ ~plan.refused => /\ plan.recheck = seen /\ plan.remove = gone \ seen
                          /\ plan.renames = renames
                          /\ plan.conflicted = {item.path : item \in of("conflict")}
=============================================================================
