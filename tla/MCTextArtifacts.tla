-------------------------- MODULE MCTextArtifacts --------------------------
(* Small instances of TextArtifacts for TLC: the root, `a` and `a/b`. *)
EXTENDS TextArtifacts

CONSTANTS root, a, ab

MCMaps == {root, a, ab}
MCAbove == [m \in MCMaps |-> IF m = ab THEN {a} ELSE {}]
MCDepth == [m \in MCMaps |-> CASE m = root -> 0 [] m = a -> 1 [] m = ab -> 2]
\* MAP.md, a/MAP.md, a/b/MAP.md.
MCNameRank == MCDepth
\* Sources everywhere; none under `a`.
MCPlanned == <<{root, a, ab}, {root}>>
\* Also sources in `a` alone.
MorePlanned == <<{root, a, ab}, {root}, {root, a}>>
=============================================================================
