--------------------------- MODULE AgentContract ---------------------------
(***************************************************************************)
(* rr init: the managed block in .rr/.gitignore and the agent files, and   *)
(* the skill file rr stamps.  A text is a sequence of lines, which says    *)
(* also how its lines end and whether the last one does.                   *)
(***************************************************************************)
EXTENDS Naturals, SequencesExt

CONSTANTS
  FileNames,      \* every file name, in any spelling
  IgnoreFile, AgentsFile, ClaudeFile, SkillFile,   \* the four targets, as rr spells them
  Folded          \* a name as a reader blind to case sees it

Targets == {IgnoreFile, AgentsFile, ClaudeFile, SkillFile}

\* No two of the targets are one file to anybody.
ASSUME ContractAssumption ==
  /\ Targets \subseteq FileNames
  /\ Folded[IgnoreFile] \notin {Folded[AgentsFile], Folded[ClaudeFile], Folded[SkillFile]}
  /\ Folded[AgentsFile] \notin {Folded[ClaudeFile], Folded[SkillFile]}
  /\ Folded[ClaudeFile] # Folded[SkillFile]

NoFile == [is |-> "absent"]
TextFile(lines, ended, newline) == [is |-> "text", lines |-> lines, ended |-> ended, newline |-> newline]
Block == <<"begin", "rule", "end">>
Refusal(reason) == [is |-> "refusal", reason |-> reason]

----------------------------------------------------------------------------
(* block.rs.                                                               *)

MarkerLines(lines, marker) == {i \in DOMAIN lines : lines[i] = marker}
Repeated(places) == \E i, j \in places : i # j

\* append_block: after one blank line, unless the text ends in one.
AppendBlock(lines) ==
  IF lines = <<>> \/ (Len(lines) > 1 /\ Last(lines) = "blank") THEN lines \o Block
  ELSE Append(lines, "blank") \o Block

\* The lines with what is from one marker to the other replaced by the block.
ReplaceRegion(lines, begin, end) ==
  SubSeq(lines, 1, begin - 1) \o Block \o SubSeq(lines, end + 1, Len(lines))

\* Mutation: the first pair of markers is taken, however many there are.
ApplyToFirst(file) ==
  LET begins == MarkerLines(file.lines, "begin")
      ends   == MarkerLines(file.lines, "end")
      Written(lines) == TextFile(lines, TRUE, file.newline)
  IN  IF begins = {} /\ ends = {} THEN Written(AppendBlock(file.lines))
      ELSE IF begins # {} /\ ends # {} /\ \A b \in begins, e \in ends : b < e
      THEN Written(ReplaceRegion(file.lines, CHOOSE b \in begins : \A i \in begins : b <= i,
                                             CHOOSE e \in ends : \A i \in ends : i <= e))
      ELSE Refusal("malformed")
\* apply_to_lf: every line of what it writes is ended.
ApplyToLf(file) ==
  LET begins == MarkerLines(file.lines, "begin")
      ends   == MarkerLines(file.lines, "end")
      Written(lines) == TextFile(lines, TRUE, file.newline)
  IN  IF Repeated(begins) \/ Repeated(ends) THEN Refusal("duplicated")
      ELSE IF begins = {} /\ ends = {} THEN Written(AppendBlock(file.lines))
      ELSE IF begins # {} /\ ends # {} /\ \A b \in begins, e \in ends : b < e
      THEN Written(ReplaceRegion(file.lines, CHOOSE b \in begins : TRUE, CHOOSE e \in ends : TRUE))
      ELSE Refusal("malformed")

\* apply_block: lines end as they did in the file.
ApplyBlock(file) ==
  IF file = NoFile THEN TextFile(Block, TRUE, "lf")
  ELSE IF file.newline = "mixed" THEN Refusal("unreadable")
  ELSE ApplyToLf(file)

----------------------------------------------------------------------------
(* agent.rs: the skill.  A digest covers the body and how many stamp lines *)
(* were blanked to take it; the value is read from the first of them.      *)

Skill(stamps, body, newline) == [is |-> "skill", stamps |-> stamps, body |-> body, newline |-> newline]
DigestOf(stamps, body) == <<Len(stamps), body>>
SkillDocument == Skill(<<<<1, "current">>>>, "current", "lf")
IsRrWrittenSkill(file) ==
  /\ file.is = "skill" /\ file.stamps # <<>>
  /\ Head(file.stamps) = DigestOf(file.stamps, file.body)

----------------------------------------------------------------------------
(* init.rs.  disk gives the content of each name; locked names cannot be   *)
(* written.                                                                *)

\* resolve_existing_name: the file that is there, in whatever spelling.
ResolveExistingName(disk, name) ==
  LET found == {n \in FileNames : disk[n] # NoFile /\ Folded[n] = Folded[name]}
  IN  IF disk[name] # NoFile \/ found = {} THEN name ELSE CHOOSE n \in found : TRUE

\* write_atomic, and the outcome: what is there already is not written again.
Conclusion(name, before, wanted, locked) ==
  LET Told(outcome, reason) == [path |-> name, outcome |-> outcome, reason |-> reason]
  IN  IF wanted.is = "refusal" THEN Told("refused", wanted.reason)
      ELSE IF wanted = before THEN Told("unchanged", "none")
      ELSE IF name \in locked THEN Told("refused", "write-failed")
      ELSE Told(IF before = NoFile THEN "created" ELSE "updated", "none")
Concluded(run, name, wanted) ==
  LET said == Conclusion(name, run.disk[name], wanted, run.locked)
  IN  [run EXCEPT !.disk[name] = IF said.outcome \in {"created", "updated"} THEN wanted ELSE @,
                  !.report = Append(@, said)]

RegionWanted(file) ==
  CASE file.is = "directory" -> Refusal("read-failed")
    [] file.is \in {"absent", "text"} -> ApplyBlock(file)
    [] OTHER -> Refusal("unreadable")
ApplyRegion(run, target) ==
  LET name == ResolveExistingName(run.disk, target)
  IN  Concluded(run, name, RegionWanted(run.disk[name]))

SkillWanted(file) ==
  CASE file.is = "directory" -> Refusal("read-failed")
    [] file.is = "binary" -> Refusal("unreadable")
    [] file \in {NoFile, SkillDocument} \/ IsRrWrittenSkill(file) -> SkillDocument
    [] OTHER -> Refusal("not-ours")
InstallSkill(run) ==
  LET name == ResolveExistingName(run.disk, SkillFile)
  IN  Concluded(run, name, SkillWanted(run.disk[name]))

\* ensure_private: a mark of its own where there is no ignore file at all.
EnsurePrivate(disk, locked) ==
  IF disk[IgnoreFile] = NoFile /\ IgnoreFile \notin locked
  THEN [disk EXCEPT ![IgnoreFile] = TextFile(<<"everything">>, TRUE, "lf")] ELSE disk

\* run.
InitRun(disk, locked) ==
  LET start  == [disk |-> EnsurePrivate(disk, locked), locked |-> locked, report |-> <<>>]
      marked == ApplyRegion(start, IgnoreFile)
      told   == IF disk[IgnoreFile] = NoFile /\ marked.report[1].outcome = "updated"
                THEN [marked EXCEPT !.report[1].outcome = "created"] ELSE marked
  IN  InstallSkill(ApplyRegion(ApplyRegion(told, AgentsFile), ClaudeFile))

InitExitCode(run) == IF \E i \in DOMAIN run.report : run.report[i].outcome = "refused" THEN 1 ELSE 0

----------------------------------------------------------------------------
(* What may be there, and what rr init promises of it.                     *)

IsFile(file) ==
  \/ file \in {NoFile, [is |-> "binary"], [is |-> "directory"]}
  \/ /\ file.is = "text" /\ file = TextFile(file.lines, file.ended, file.newline)
     /\ file.lines \in Seq(Range(file.lines)) /\ file.newline \in {"lf", "crlf", "mixed"}
     /\ ~file.ended => file.lines # <<>> /\ Last(file.lines) # "blank"
  \/ /\ file.is = "skill" /\ file = Skill(file.stamps, file.body, file.newline)
     /\ file.stamps \in Seq(Range(file.stamps))
\* A skill is a text like any other under a name that is not the skill's.
IsDisk(disk) ==
  /\ disk = [n \in FileNames |-> disk[n]]
  /\ \A n \in FileNames : IsFile(disk[n]) /\ (disk[n].is = "skill" => Folded[n] = Folded[SkillFile])

\* The lines before the region and those after it, but for one blank line that parts them
\* from it; a text without a region is all before it.
Unparted(lines) == IF Len(lines) > 1 /\ Last(lines) = "blank" THEN Front(lines) ELSE lines
Outside(lines) ==
  LET begins == MarkerLines(lines, "begin")
      b == CHOOSE i \in begins : TRUE
      e == CHOOSE i \in MarkerLines(lines, "end") : TRUE
  IN  IF begins = {} THEN <<Unparted(lines), <<>>>>
      ELSE <<Unparted(SubSeq(lines, 1, b - 1)), SubSeq(lines, e + 1, Len(lines))>>

\* The markers say which lines are rr's, if any.
Paired(lines) ==
  LET begins == MarkerLines(lines, "begin")
      ends   == MarkerLines(lines, "end")
  IN  /\ ~Repeated(begins) /\ ~Repeated(ends) /\ (begins = {} <=> ends = {})
      /\ \A b \in begins, e \in ends : b < e
HasBlock(file) ==
  /\ file.is = "text" /\ ~Repeated(MarkerLines(file.lines, "begin")) /\ ~Repeated(MarkerLines(file.lines, "end"))
  /\ \E b \in 1..(Len(file.lines) - 2) : SubSeq(file.lines, b, b + 2) = Block

\* "Nothing here overwrites bytes it cannot prove it wrote": what rr init (init.rs) changes was
\* not there, in any spelling; or was a skill rr stamped; or is a text whose lines outside
\* the one region stay as they were.  .rr/.gitignore alone is made beside another spelling.
OnlyYourRegion(disk, done) ==
  \A n \in FileNames : done.disk[n] # disk[n] =>
    \/ /\ disk[n] = NoFile
       /\ n # IgnoreFile => \A m \in FileNames : Folded[m] = Folded[n] => disk[m] = NoFile
    \/ IsRrWrittenSkill(disk[n])
    \/ /\ disk[n].is = "text" /\ Paired(disk[n].lines)
       /\ Outside(done.disk[n].lines) = Outside(disk[n].lines) /\ done.disk[n].newline = disk[n].newline

\* What is refused is left as it was, and the rest is as rr wants it (Outcome).
ReportIsTrue(disk, locked, done) ==
  \A i \in DOMAIN done.report :
    LET told == done.report[i]
    IN  IF told.outcome = "refused" THEN done.disk[told.path] = EnsurePrivate(disk, locked)[told.path]
        ELSE IF i = 4 THEN done.disk[told.path] = SkillDocument ELSE HasBlock(done.disk[told.path])

\* A run after this one writes nothing, refuses the same and finds the rest unchanged.
RunsOnce(locked, done) ==
  LET next == InitRun(done.disk, locked)
  IN  /\ next.disk = done.disk
      /\ next.report = [i \in 1..4 |-> IF done.report[i].outcome = "refused" THEN done.report[i]
                                       ELSE [done.report[i] EXCEPT !.outcome = "unchanged"]]

\* Rr init keeps what is yours, tells the truth of what it did, and is done when it is.
InitKeepsWhatIsYours(disk, locked, done) ==
  /\ OnlyYourRegion(disk, done)
  /\ ReportIsTrue(disk, locked, done)
  /\ RunsOnce(locked, done)
  /\ InitExitCode(done) = 0 <=> (\A i \in DOMAIN done.report : done.report[i].reason = "none")
=============================================================================
