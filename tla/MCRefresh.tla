----------------------------- MODULE MCRefresh -----------------------------
(* Small instances of Refresh for TLC. *)
EXTENDS RefreshPublication, TLC

CONSTANTS b, c, rules, r1, r2

MCSource == {b}
TwoSources == {b, c}
Symmetry == Permutations({r1, r2})
SourceSymmetry == Permutations({b, c})
\* Version 1 of the rules hides everything.
MCHides == [v \in 0..MaxVersion |-> IF v = 1 THEN Source ELSE {}]
\* Nothing yet; files and no rules; files that the rules hide.
MCTrees == {[p \in Path |-> 0],
            [p \in Path |-> IF p \in Source THEN 1 ELSE 0],
            [p \in Path |-> 1]}
OneTree == {[p \in Path |-> IF p \in Source THEN 1 ELSE 0]}
=============================================================================
