------------------------------- MODULE Check -------------------------------
(***************************************************************************)
(* rr-core/src/check.rs: `rr check`, one pass over what the owners of the  *)
(* artifacts report.  A world is what they would answer:                   *)
(*   snapshot:  "missing", "ready" or why it must be rebuilt;              *)
(*   label:     what `rr status` says of the tree, "none" if it cannot;    *)
(*   conflicts, missing, stale, overBudget: validate_text_artifacts, the   *)
(*              first a set of <<path, reason>>;                           *)
(*   fault, routes: load_routes, routes a set of [anchor, api, resolves],  *)
(*              and corpus, the API identity of the corpus;                *)
(*   factsDir, ignoreStamp, opens, damaged: the fact cache;                *)
(*   quality:   what --quality-report contributes, or NoReport;            *)
(*   cancelled: the stages of the check the caller lets pass.              *)
(***************************************************************************)
EXTENDS FiniteSetsExt, Naturals

CONSTANTS SymbolsPath, IgnorePath, RoutesPath, NoReport, NoPath

Damage == {"bad-magic", "length-mismatch", "checksum-mismatch", "invalid-payload",
           "trailing-bytes", "invalid-invariant"}
Vintage == {"unsupported-version", "build-version-mismatch", "ranking-profile-mismatch",
            "lexical-mismatch"}
NotWritable == {"not-owned", "symlink", "merge-conflict", "case-collision", "unreadable"}
Malformed == {"frontmatter", "unsupported-format", "marker", "purpose", "generated-edited", "anchor"}
ConflictReasons == NotWritable \cup Malformed \cup {"managed-ignore"}

EmittedRules ==
  {"RR0001", "RR0002", "RR0003", "RR0004", "RR0101", "RR0102", "RR0103", "RR0104", "RR0106",
   "RR0201", "RR0202", "RR0203", "RR0206", "RR0301", "RR0302", "RR0303", "RR0401", "RR0604"}

\* DiagnosticV1; `what` is the anchor or the spelling of what was found.
Diagnostic(rule, severity, path, what) ==
  [rule |-> rule, severity |-> severity, path |-> path, what |-> what]

SnapshotMissing == Diagnostic("RR0001", "fatal", NoPath, "missing")
UnusableSnapshot(reason) ==
  Diagnostic(IF reason \in Damage THEN "RR0002" ELSE "RR0003", "error", NoPath, reason)
StaleSnapshot == Diagnostic("RR0004", "warning", NoPath, "stale")

Family(path) ==
  CASE path = SymbolsPath -> "symbols"
    [] path = IgnorePath -> "ignore"
    [] OTHER -> "map"
\* rule_for, class_of.
RuleFor(family, reason) ==
  CASE family = "ignore" -> "RR0604"
    [] family = "map" -> IF reason \in NotWritable THEN "RR0106" ELSE "RR0102"
    [] OTHER -> IF reason \in NotWritable THEN "RR0206" ELSE "RR0202"
ConflictDiagnostic(conflict) ==
  Diagnostic(RuleFor(Family(conflict[1]), conflict[2]), "error", conflict[1], conflict[2])
AbsentArtifact(path) ==
  Diagnostic(IF Family(path) = "symbols" THEN "RR0201" ELSE "RR0101", "error", path, "absent")
StaleArtifact(path) ==
  Diagnostic(IF Family(path) = "symbols" THEN "RR0203" ELSE "RR0103", "warning", path, "stale")
OverBudget(scope) == Diagnostic("RR0104", "warning", scope, "over-budget")

TextDiagnostics(world) ==
  {ConflictDiagnostic(c) : c \in world.conflicts} \cup {AbsentArtifact(p) : p \in world.missing}
  \cup {StaleArtifact(p) : p \in world.stale} \cup {OverBudget(s) : s \in world.overBudget}

RoutesInvalid(fault) == Diagnostic("RR0301", "warning", RoutesPath, fault)
RouteAnchorMissing(route) == Diagnostic("RR0302", "warning", RoutesPath, route.anchor)
\* Mutation: a table with no route has nothing to say, and its fault is lost.
QuietWhenEmpty(world) ==
  IF world.routes = {} THEN {} ELSE {RoutesInvalid(f) : f \in world.fault}
                                    \cup {RouteAnchorMissing(r) : r \in {x \in world.routes : ~x.resolves}}
\* route_diagnostics: one stale route stands for all.
RouteDiagnostics(world) ==
  LET dead == {r \in world.routes : ~r.resolves}
      old == {r \in world.routes : r.api # world.corpus}
  IN  {RoutesInvalid(f) : f \in world.fault} \cup {RouteAnchorMissing(r) : r \in dead}
      \cup (IF old = {} THEN {} ELSE {Diagnostic("RR0303", "warning", RoutesPath, "api")})

\* cache_diagnostics: the cache is opened only where one is, and a cache that
\* cannot be opened says nothing.
CacheDiagnostics(world) ==
  IF world.factsDir /\ world.ignoreStamp /\ world.opens
  THEN {Diagnostic("RR0401", "warning", p, "corrupt") : p \in world.damaged}
  ELSE {}

SnapshotDiagnostics(world) ==
  CASE world.snapshot = "missing" -> {SnapshotMissing}
    [] world.snapshot = "ready" -> IF world.label = "stale" THEN {StaleSnapshot} ELSE {}
    [] OTHER -> {UnusableSnapshot(world.snapshot)}

CountsOfCheck(diagnostics) ==
  [s \in {"fatal", "error", "warning"} |-> Cardinality({d \in diagnostics : d.severity = s})]
CheckStatus(counts) ==
  IF counts["fatal"] > 0 THEN "snapshot-missing"
  ELSE IF counts["error"] > 0 THEN "errors"
  ELSE IF counts["warning"] > 0 THEN "warnings"
  ELSE "ok"
ExitCode(status) ==
  CASE status = "ok" -> 0 [] status = "warnings" -> 1 [] status = "errors" -> 3 [] OTHER -> 4

\* check: a cancelled run is an error and no report.
CheckReport(world) ==
  LET ready == world.snapshot = "ready"
      diagnostics ==
        SnapshotDiagnostics(world)
        \cup (IF ready THEN TextDiagnostics(world) \cup RouteDiagnostics(world) \cup CacheDiagnostics(world)
              ELSE {})
        \cup (IF world.quality = NoReport THEN {} ELSE world.quality)
      counts == CountsOfCheck(diagnostics)
  IN  IF world.cancelled THEN [failed |-> TRUE]
      ELSE [failed |-> FALSE, diagnostics |-> diagnostics, counts |-> counts,
            exit |-> ExitCode(CheckStatus(counts))]

----------------------------------------------------------------------------
\* A check that exits 0 speaks for the whole repository: nothing any owner had
\* to report is lost on the way, whatever else it had to report.  A route cache
\* is ignored while there is no snapshot to resolve it in, and what the fact
\* cache holds only where it can be opened without making one.  And whatever the
\* outcome, every finding is published under a rule the command documents.
GreenIsClean(world, report) ==
  /\ ~report.failed =>
       \A d \in report.diagnostics : d.rule \in EmittedRules \/ d \in world.quality
  /\ (~report.failed /\ report.exit = 0) =>
       /\ world.snapshot = "ready" /\ world.label # "stale"
       /\ world.conflicts = {} /\ world.missing = {} /\ world.stale = {} /\ world.overBudget = {}
       /\ world.fault = {} /\ \A r \in world.routes : r.resolves /\ r.api = world.corpus
       /\ (world.factsDir /\ world.ignoreStamp /\ world.opens) => world.damaged = {}
       /\ world.quality \in {NoReport, {}}
=============================================================================
