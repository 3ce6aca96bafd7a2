------------------------------ MODULE Requests ------------------------------
(***************************************************************************)
(* The sequential algorithms that theorems cover, each put to work as rr   *)
(* does: a request is made, the algorithm answers it in one step, and the  *)
(* answer is what the module of the algorithm promises of it.  A request   *)
(* is a record whose `of` names the algorithm.                             *)
(***************************************************************************)
EXTENDS SourceWindow, ExactRouting, Check, Facts, PlanDraft, Quality, Corpus, Impact, CoChange,
        AgentContract, Languages

VARIABLES request, answer
requestVars == <<request, answer>>

Answers(algorithm, result) ==
  request.of = algorithm /\ answer = <<>> /\ answer' = <<result>> /\ UNCHANGED request

RequestNext ==
  \/ Answers("window", Window(request.text, request.first, request.last))
  \/ Answers("exact", RouteExact(request.snapshot, request.question))
  \/ Answers("owner", Lookup(request.defs, request.span, FALSE))
  \/ Answers("plan", Freeze(Draft(request.items)))
  \/ Answers("check", CheckReport(request.world))
  \/ Answers("gate", Released(request.run))
  \/ Answers("lock", Relock(request.world))
  \/ Answers("impact", ImpactReport(request.input))
  \/ Answers("cochange", LastAnswer(request.asks))
  \/ Answers("access", Settled(request.lang, request.def, request.enclosing))
  \/ Answers("init", InitRun(request.disk, request.locked))

----------------------------------------------------------------------------
(* The requests rr makes.                                                  *)

IsSpan(span) == span.from \in Nat /\ span.to \in Nat /\ span.from <= span.to

\* A file's definitions as validate_facts accepts them: spans that do not end
\* before they start, in the order of def_key.
WellOrdered(defs) ==
  /\ defs \in Seq(Range(defs))
  /\ \A i \in DOMAIN defs : IsSpan(defs[i].span)
  /\ KeySorted(defs, DefKey)

\* Symbols in some order, each of a place in that of the qualified names, in a file and
\* at a line; and the tokens and words of a question.
IsLibrary(snapshot) ==
  /\ snapshot.symbols \in Seq(Range(snapshot.symbols))
  /\ \A s \in Range(snapshot.symbols) : s.qual \in Nat /\ s.file \in Nat /\ s.line \in Nat
IsQuestion(question) ==
  question.tokens \in Seq(Range(question.tokens)) /\ IsFiniteSet(question.words)

\* What git status lists.
IsItem(item) ==
  /\ item.is \in {"recheck", "copy", "conflict", "remove", "rename"} /\ item.path \in Paths
  /\ item.is = "rename" => item.source \in Paths

Severities == {"fatal", "error", "warning"}
\* What the owners can answer: finite sets, and a quality report of diagnostics
\* that have a severity.
Answerable(world) ==
  /\ IsFiniteSet(world.conflicts) /\ IsFiniteSet(world.missing) /\ IsFiniteSet(world.stale)
  /\ IsFiniteSet(world.overBudget) /\ IsFiniteSet(world.fault) /\ IsFiniteSet(world.routes)
  /\ IsFiniteSet(world.damaged)
  /\ world.quality # NoReport =>
       IsFiniteSet(world.quality) /\ \A d \in world.quality : d.severity \in Severities

\* A corpus of cases of the two kinds, and shards that say something of some cases.
IsRun(run) ==
  /\ DOMAIN run = {"expected", "shards", "performance", "baseline"}
  /\ run.expected \in Seq(Range(run.expected)) /\ run.shards \in Seq(Range(run.shards))
  /\ \A c \in Range(run.expected) : c.kind \in {"routing", "safety"}
  /\ \A s \in Range(run.shards) :
       /\ s.routing \in Seq(Range(s.routing)) /\ s.safety \in Seq(Range(s.safety))
       /\ \A r \in Range(s.routing) : r.verdict.expect \in {"answerable", "must-abstain"}

\* A manifest as decode_manifest accepts it: a repository is vendored or generated, and
\* has what its kind has.
IsCorpus(world) ==
  /\ DOMAIN world = {"manifest", "disk", "loads", "walks"}
  /\ \A r \in Range(world.manifest.repositories) :
       /\ DOMAIN r = {"id", "tier", "provenance", "files"}
       /\ \/ /\ r.provenance.kind = "vendored"
             /\ DOMAIN r.provenance = {"kind", "https", "commit", "date", "spdx", "licenses"}
          \/ /\ r.provenance.kind = "generated"
             /\ DOMAIN r.provenance = {"kind", "version", "seed", "count", "digest"}

\* A snapshot as decode accepts it: definitions of distinct ids whose spans do not end
\* before they start, and references of the three kinds.
IsDeclared(d) == d.first \in Nat /\ d.last \in Nat /\ d.first <= d.last /\ d.at \in Nat /\ d.len \in Nat
IsOverlay(overlay) ==
  /\ overlay.refs \in Seq(Range(overlay.refs)) /\ overlay.defs \in Seq(Range(overlay.defs))
  /\ \A d \in Range(overlay.defs) : IsDeclared(d)
  /\ \A r \in Range(overlay.refs) : r.kind \in Range(EdgeKinds)
  /\ \A i, j \in DOMAIN overlay.defs : overlay.defs[i].id = overlay.defs[j].id => i = j
\* One change of a path, each with the lines its hunks take and give.
IsHunk(h) == h.old \in Nat /\ h.oldLines \in Nat /\ h.new \in Nat /\ h.newLines \in Nat
IsChangeset(changes) ==
  /\ \A c, d \in changes : c.path = d.path => c = d
  /\ \A c \in changes : \A h \in c.hunks : IsHunk(h)

\* A decoration opens with its mark, has no blank outside its brackets and nothing behind
\* them, and a blank is behind it; an attribute is brackets.  What their strings hold closes
\* no bracket and opens none.
IsDecoration(d) ==
  LET last == Len(d) - 1
  IN  /\ last > 0 /\ d[1] \in {"@", "#["} /\ d[Len(d)] = Blank
      /\ Depth(d, Bare(d, 1, last)) = 0
      /\ \A i \in 2..last :
           \/ d[i] = Blank
           \/ d[i] \in Closing /\ i \in Bare(d, 1, i)
           \/ d[i - 1] \in Closing /\ i - 1 \in Bare(d, 1, i - 1)
           => Depth(d, Bare(d, 1, i - 1)) # 0
IsAttribute(d) ==
  LET last == Len(d) - 1
  IN  /\ last > 0 /\ d[1] = "[" /\ d[Len(d)] = Blank
      /\ d[last] = "]" /\ last \in Bare(d, 1, last) /\ Depth(d, Bare(d, 1, last)) = 0
      /\ \A i \in 1..(last - 1) :
           d[i] \in Closing /\ i \in Bare(d, 1, i) => Depth(d, Bare(d, 1, i)) # 0
\* A declaration in a language that states access in words, as Spelled.
IsDeclaration(lang, parts, def) ==
  /\ lang \in {"typescript", "java", "csharp", "php", "swift"}
  /\ parts.decorations \in Seq(Seq(UNION {Range(d) : d \in Range(parts.decorations)}))
  /\ \A d \in Range(parts.decorations) : IF lang = "csharp" THEN IsAttribute(d) ELSE IsDecoration(d)
  /\ parts.modifiers \in Seq(AllowedModifiers(lang)) /\ parts.rest \in Seq(Range(parts.rest))
  /\ def = [name |-> def.name, kind |-> def.kind, isLocal |-> def.isLocal, attributes |-> def.attributes,
            signature |-> Spelled(parts), visibility |-> def.visibility]

\* A line has a length and an anchor is in the file, symbols, definitions, items, answers,
\* endpoints and declarations are as above, the asks are of one clone, and a disk holds files.
Requested ==
  /\ request.of = "window" =>
       /\ request.text \in Seq(Nat) /\ request.first \in 1..Len(request.text)
       /\ request.last \in request.first..Len(request.text)
  /\ request.of = "exact" => IsLibrary(request.snapshot) /\ IsQuestion(request.question)
  /\ request.of = "owner" => WellOrdered(request.defs) /\ IsSpan(request.span)
  /\ request.of = "plan" =>
       /\ request.items \in Seq(Range(request.items))
       /\ \A i \in DOMAIN request.items : IsItem(request.items[i])
  /\ request.of = "check" => Answerable(request.world)
  /\ request.of = "gate" => IsRun(request.run)
  /\ request.of = "lock" => IsCorpus(request.world)
  /\ request.of = "impact" =>
       /\ request.input.depth \in Nat
       /\ IsOverlay(request.input.base) /\ IsOverlay(request.input.target)
       /\ IsChangeset(request.input.changes)
  /\ request.of = "cochange" => IsSeries(request.asks)
  /\ request.of = "access" => IsDeclaration(request.lang, request.parts, request.def)
  /\ request.of = "init" => IsDisk(request.disk)

RequestInit == answer = <<>> /\ Requested
RequestSpec == RequestInit /\ [][RequestNext]_requestVars

----------------------------------------------------------------------------
(* What the modules promise of an input and its answer.                    *)

Answered(algorithm) == request.of = algorithm /\ answer # <<>>

\* The served window is right (select_window): SourceWindow.WindowIsRight.
WindowServed ==
  Answered("window") => WindowIsRight(request.text, request.first, request.last, answer[1])
\* The exact route of a question is honest (route_exact): ExactRouting.RouteIsHonest.
RouteServed ==
  Answered("exact") => RouteIsHonest(request.snapshot, request.question, answer[1])
\* A fact belongs to the definition around it (OwnerIndex): Facts.OwnerIsNearest.
OwnerServed == Answered("owner") => OwnerIsNearest(request.defs, request.span)
\* The plan of a status is that of its set of items (PlanDraft): PlanDraft.PlanIgnoresOrder.
PlanServed == Answered("plan") => PlanIgnoresOrder(request.items)
\* rr check says all is well only when it is (check): Check.GreenIsClean.
VerdictServed == Answered("check") => GreenIsClean(request.world, answer[1])
\* A release has the whole corpus behind it (aggregate): Quality.ReleaseIsEarned.
ReleaseServed == Answered("gate") => ReleaseIsEarned(request.run)
\* A lock is the corpus it was made from (relock): Corpus.LockHolds.
LockServed == Answered("lock") => LockHolds(request.world, request.later)
\* What a change reaches is reported, at its distance (impact): Impact.ReachIsExact.
ReachServed == Answered("impact") => ReachIsExact(request.input, answer[1])
\* The changed definitions are those the hunks meet, and the cycles are the rings among
\* what is affected (impact): Impact.ChangesAreFound, with Impact.CyclesAreWhole.
ChangesServed ==
  Answered("impact") =>
    ChangesAreFound(request.input, answer[1]) /\ CyclesAreWhole(request.input, answer[1])
\* What changed together is this history's word (co_changed): CoChange.CoChangeIsEarned.
CoChangeServed ==
  Answered("cochange") => CoChangeIsEarned(request.asks[Len(request.asks)].ask, answer[1])
\* The access a declaration states is the access it has (refine, enclose):
\* Languages.StatedAccessWins.
AccessServed ==
  Answered("access") => StatedAccessWins(request.lang, request.parts, request.def, answer[1])
\* Rr init keeps what is yours (run): AgentContract.InitKeepsWhatIsYours.
InitServed == Answered("init") => InitKeepsWhatIsYours(request.disk, request.locked, answer[1])

\* The inductive invariant: the request is one rr makes, and an answer is what
\* the algorithm says of that request.
RequestInvariant ==
  /\ Requested
  /\ answer # <<>> =>
       /\ request.of = "window" => answer = <<Window(request.text, request.first, request.last)>>
       /\ request.of = "exact" => answer = <<RouteExact(request.snapshot, request.question)>>
       /\ request.of = "check" => answer = <<CheckReport(request.world)>>
       /\ request.of = "gate" => answer = <<Released(request.run)>>
       /\ request.of = "impact" => answer = <<ImpactReport(request.input)>>
       /\ request.of = "cochange" => answer = <<LastAnswer(request.asks)>>
       /\ request.of = "access" => answer = <<Settled(request.lang, request.def, request.enclosing)>>
       /\ request.of = "init" => answer = <<InitRun(request.disk, request.locked)>>
=============================================================================
