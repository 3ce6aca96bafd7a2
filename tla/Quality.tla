------------------------------ MODULE Quality ------------------------------
(***************************************************************************)
(* rr-core/src/quality.rs, the release gate: the shards of a corpus run    *)
(* are aggregated, measured, judged and written as the report that         *)
(* `rr check --quality-report` reads.  An Option is a set of at most one.  *)
(*   case:    [id, shard, kind], kind "routing" or "safety";               *)
(*   shard:   [version, shard, shards, digest, routing, safety], routing a *)
(*            sequence of [id, verdict] and safety of [id, passed];        *)
(*   verdict: [expect, permitted, direct, accepted, forbidden], the last   *)
(*            two the rank of the first such anchor or Nobody;             *)
(*   performance: a set of at most one [decodes, version, point, lower].   *)
(* The text of a finding is left out.                                      *)
(***************************************************************************)
EXTENDS Integers, FiniteSetsExt, SequencesExt, TLC

CONSTANTS
  CorpusShards,           \* CORPUS_SHARDS
  AnswerableCases,        \* ORACLE_ANSWERABLE_CASES
  TopThreeGate,           \* TOP3_GATE_NUMERATOR of TOP3_GATE_DENOMINATOR, as a ratio
  TopOneSlack,            \* TOP1_BASELINE_SLACK_CASES
  Nobody,                 \* a rank no anchor has
  BadDigest               \* a digest that does not parse

SchemaVersion == 1
AdjudicableRules == {"RR0502", "RR0503", "RR0504", "RR0505"}

----------------------------------------------------------------------------
(* Ratio, its comparisons in integers.                                     *)

Ratio(numerator, denominator) == [numerator |-> numerator, denominator |-> denominator]
AtLeast(r, gate) == r.numerator * gate.denominator >= gate.numerator * r.denominator
Exceeds(r, gate) == r.numerator * gate.denominator > gate.numerator * r.denominator
IsWhole(r) == r.numerator = r.denominator

----------------------------------------------------------------------------
(* RoutingCaseVerdict and routing_metrics.                                 *)

HitAt(v, rank) ==
  /\ v.accepted # Nobody /\ v.accepted <= rank
  /\ v.forbidden # Nobody => v.forbidden > v.accepted
FalseDirect(v) == v.direct /\ (~v.permitted \/ v.expect = "must-abstain" \/ ~HitAt(v, 1))

CountOf(verdicts, Satisfies(_)) == Cardinality({i \in DOMAIN verdicts : Satisfies(verdicts[i])})
RoutingMetrics(verdicts) ==
  LET answerable == CountOf(verdicts, LAMBDA v : v.expect = "answerable")
      abstaining == CountOf(verdicts, LAMBDA v : v.expect = "must-abstain")
      hits(rank) == CountOf(verdicts, LAMBDA v : v.expect = "answerable" /\ HitAt(v, rank))
      directs == CountOf(verdicts, LAMBDA v : v.direct)
      falseDirects == CountOf(verdicts, FalseDirect)
  IN  [top1 |-> Ratio(hits(1), answerable), top3 |-> Ratio(hits(3), answerable),
       directPrecision |-> Ratio(directs - falseDirects, directs), falseDirects |-> falseDirects,
       abstention |-> Ratio(CountOf(verdicts, LAMBDA v : ~v.direct), CountOf(verdicts, LAMBDA v : TRUE)),
       requiredAbstention |->
         Ratio(CountOf(verdicts, LAMBDA v : v.expect = "must-abstain" /\ ~v.direct), abstaining)]

----------------------------------------------------------------------------
(* aggregate: a fault is a string, an aggregate a record in a set.         *)

\* The first shard that cannot be taken, in the order they come.
ShardFault(shards, i) ==
  LET s == shards[i]
      before == {shards[j] : j \in 1..(i - 1)}
  IN  IF s.version # SchemaVersion THEN "unsupported-schema-version"
      ELSE IF s.shards # CorpusShards THEN "shard-count-mismatch"
      ELSE IF s.shard >= CorpusShards THEN "shard-out-of-range"
      ELSE IF s.shard \in {b.shard : b \in before} THEN "duplicate-shard"
      ELSE IF s.digest = BadDigest THEN "digest-malformed"
      ELSE IF \E b \in before : b.digest # s.digest THEN "manifest-mismatch"
      ELSE "none"

\* Mutation: a case is taken from whichever shard ran it.
PlaceAnywhere(expected, id, kind, shard) ==
  LET declared == {c \in Range(expected) : c.id = id} IN
  IF declared = {} THEN "unknown-case"
  ELSE IF \A c \in declared : c.kind # kind THEN "misfiled-case"
  ELSE "none"
Place(expected, id, kind, shard) ==
  LET declared == {c \in Range(expected) : c.id = id} IN
  IF declared = {} THEN "unknown-case"
  ELSE IF \A c \in declared : c.kind # kind THEN "misfiled-case"
  ELSE IF \A c \in declared : c.shard # shard THEN "missharded-case"
  ELSE "none"

\* Where the shards say something of the cases of a kind: the second report of the
\* first shard is at <<1, 2>>.  They are read in that order.
Filings(shards, kind) == UNION {{i} \X DOMAIN shards[i][kind] : i \in DOMAIN shards}
Filed(shards, kind, filing) == shards[filing[1]][kind][filing[2]]
Earlier(f, g) == f[1] < g[1] \/ (f[1] = g[1] /\ f[2] < g[2])

CaseFault(expected, shards, kind, filing) ==
  LET id == Filed(shards, kind, filing).id
      placed == Place(expected, id, kind, shards[filing[1]].shard)
  IN  IF placed = "none"
         /\ \E f \in Filings(shards, kind) : Earlier(f, filing) /\ Filed(shards, kind, f).id = id
      THEN "duplicate-case" ELSE placed

\* Which fault is met first is left out: every one refuses the run.
AggregationFaults(expected, shards) ==
  ({ShardFault(shards, i) : i \in DOMAIN shards}
   \cup {"missing-shard" : n \in (0..(CorpusShards - 1)) \ {s.shard : s \in Range(shards)}}
   \cup {"duplicate-case" : p \in {q \in (DOMAIN expected) \X (DOMAIN expected) :
                                     q[1] < q[2] /\ expected[q[1]].id = expected[q[2]].id}}
   \cup {CaseFault(expected, shards, "routing", p) : p \in Filings(shards, "routing")}
   \cup {CaseFault(expected, shards, "safety", p) : p \in Filings(shards, "safety")}
   \cup {"missing-case" : c \in {x \in Range(expected) :
          x.id \notin {Filed(shards, x.kind, p).id : p \in Filings(shards, x.kind)}}})
  \ {"none"}

\* The verdicts are a function of the cases of the corpus: they come in its order,
\* not in that of the shards.
Aggregate(expected, shards) ==
  LET cases(kind) == {c \in Range(expected) : c.kind = kind}
      said(c) == Filed(shards, c.kind,
                       CHOOSE p \in Filings(shards, c.kind) : Filed(shards, c.kind, p).id = c.id)
  IN  IF AggregationFaults(expected, shards) # {} THEN {}
      ELSE {[digest |-> shards[1].digest,
             routing |-> [c \in cases("routing") |-> said(c).verdict],
             safety |-> Ratio(Cardinality({c \in cases("safety") : said(c).passed}),
                              Cardinality(cases("safety")))]}

----------------------------------------------------------------------------
(* PerfDecision, adjudicate_gate, build_report.                            *)

\* load_perf_evidence: a file that does not decode strictly is no evidence.
LoadPerfEvidence(filed) == {p \in filed : p.decodes /\ p.version = SchemaVersion}
PerfBlocked(point, lower) == Exceeds(point, Ratio(11, 10)) /\ Exceeds(lower, Ratio(21, 20))

RoutingFailures(routing, baseline) ==
  (IF routing.top3.denominator # AnswerableCases THEN {"oracle-under-sized"} ELSE {})
  \cup (IF AtLeast(routing.top3, TopThreeGate) THEN {} ELSE {"top3-below-gate"})
  \cup (IF routing.falseDirects > 0 THEN {"false-direct"} ELSE {})
  \cup (IF IsWhole(routing.directPrecision) THEN {} ELSE {"direct-precision-below-one"})
  \cup (IF IsWhole(routing.requiredAbstention) THEN {} ELSE {"required-abstention-below-one"})
  \cup {"top1-regressed-beyond-slack" : b \in {x \in baseline : routing.top1.numerator + TopOneSlack < x}}

SafetyFailures(safety) ==
  CASE safety.denominator = 0 -> {"evidence-missing"}
    [] safety.denominator # 0 /\ ~IsWhole(safety) -> {"safety-case-failed"}
    [] OTHER -> {}
PerformanceFailures(p) == IF PerfBlocked(p.point, p.lower) THEN {"performance-regression"} ELSE {}

AdjudicateGate(evidence) ==
  (UNION {RoutingFailures(r, evidence.top1Baseline) : r \in evidence.routing})
  \cup (UNION {SafetyFailures(s) : s \in evidence.safety})
  \cup (UNION {PerformanceFailures(p) : p \in evidence.performance})
  \cup (IF {} \in {evidence.routing, evidence.safety, evidence.performance}
        THEN {"evidence-missing"} ELSE {})

GateRule(failure) ==
  CASE failure = "performance-regression" -> "RR0504"
    [] failure = "evidence-missing" -> "RR0505"
    [] OTHER -> "RR0503"
BuildReport(digest, failures) ==
  [version |-> SchemaVersion, digest |-> digest,
   findings |-> {[rule |-> GateRule(f), blocked |-> TRUE, why |-> f] : f \in failures}]

----------------------------------------------------------------------------
(* read_report, decode_report and adjudicate.  A file is [kind, large,     *)
(* readable, body], body a report, "malformed" or "trailing-bytes".        *)

ReportFault(file) ==
  IF file.kind = "absent" THEN "unreadable"
  ELSE IF file.kind # "file" THEN "not-a-regular-file"
  ELSE IF file.large THEN "too-large"
  ELSE IF ~file.readable THEN "unreadable"
  ELSE IF file.body.is # "report" THEN file.body.is
  ELSE IF file.body.report.version # SchemaVersion THEN "unsupported-schema-version"
  ELSE IF file.body.report.digest = BadDigest THEN "malformed"
  ELSE IF \E f \in file.body.report.findings : f.rule \notin AdjudicableRules THEN "unknown-rule-id"
  ELSE "none"

\* adjudicate: the rules of the errors it adds to the check.
Adjudicate(file) ==
  IF ReportFault(file) # "none" THEN {"RR0501"}
  ELSE {f.rule : f \in {x \in file.body.report.findings : x.blocked}}

\* The corpus harness, from the shards to the report.
EvidenceOf(run) ==
  LET aggregates == Aggregate(run.expected, run.shards)
  IN  [routing |-> {RoutingMetrics(a.routing) : a \in aggregates},
       safety |-> {a.safety : a \in aggregates},
       performance |-> LoadPerfEvidence(run.performance), top1Baseline |-> run.baseline]
Released(run) ==
  LET report == BuildReport("digest", AdjudicateGate(EvidenceOf(run)))
  IN  Adjudicate([kind |-> "file", large |-> FALSE, readable |-> TRUE,
                  body |-> [is |-> "report", report |-> report]]) = {}

----------------------------------------------------------------------------
(* Properties.                                                             *)

\* A release is earned by the whole corpus: what the four shards left out,
\* counted twice or filed elsewhere never makes the score better (aggregate,
\* "a denominator that shrank is a score that rose"), a wrong direct answer is
\* never traded for recall, and the order in which the shards finish decides
\* nothing.
ReleaseIsEarned(run) ==
  Released(run) =>
    LET ran(c) == {p \in Filings(run.shards, c.kind) : Filed(run.shards, c.kind, p).id = c.id}
        said(c) == Filed(run.shards, c.kind, CHOOSE p \in ran(c) : TRUE)
        asked == {c \in Range(run.expected) : c.kind = "routing"}
        answerable == {c \in asked : said(c).verdict.expect = "answerable"}
        right == {c \in answerable : HitAt(said(c).verdict, 3)}
    IN  /\ \A c \in Range(run.expected) :
             Cardinality(ran(c)) = 1 /\ \A p \in ran(c) : run.shards[p[1]].shard = c.shard
        /\ \A c \in Range(run.expected) \ asked : said(c).passed
        /\ \A c \in asked : said(c).verdict.direct => (c \in answerable /\ HitAt(said(c).verdict, 1))
        /\ Cardinality(answerable) = AnswerableCases
        /\ Cardinality(right) * TopThreeGate.denominator >= TopThreeGate.numerator * Cardinality(answerable)
        /\ Released([run EXCEPT !.shards = Reverse(@)])
=============================================================================
