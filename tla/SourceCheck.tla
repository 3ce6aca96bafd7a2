----------------------------- MODULE SourceCheck -----------------------------
(***************************************************************************)
(* `rr query --source`: the text of a direct answer is read from the       *)
(* working tree, compared with what was indexed, read once more, and only  *)
(* then served, while an editor writes, replaces or removes the file.      *)
(***************************************************************************)
EXTENDS Naturals

CONSTANTS
  Raws,        \* contents a file may have
  Clean,       \* Clean[r]: what the clean filter makes of r
  Unreadable,  \* canonical contents that are not UTF-8 text
  MaxEdits,    \* how often the path changes
  Nothing       \* nothing is open

Canonical == {Clean[r] : r \in Raws}
Refusals == {"missing", "symlink", "notRegular", "tooLarge", "raced", "stale", "notText"}

ASSUME SourceAssumption ==
  /\ Unreadable \subseteq Canonical
  /\ Nothing \notin Canonical /\ Nothing \notin Refusals /\ Nothing # "verified"
  /\ Nothing \notin [raw : Raws, attached : BOOLEAN]

VARIABLES
  indexed,   \* IndexedContentIdentity: what the snapshot recorded
  path,      \* what the path names: a kind and, for a file, its bytes
  staged,    \* the blob the Git index certifies for the path, or Nothing
  handle,    \* the file an acquisition has open, detached if it was replaced
  spc,       \* where the query is
  accepted,      \* the content verify_source accepted
  outcome,   \* what the query printed
  edits,
  yielded    \* the canonical contents the path had since `accepted` was verified

sourceVars == <<indexed, path, staged, handle, spc, accepted, outcome, edits, yielded>>

Paths == [kind : {"file"}, raw : Raws] \cup [kind : {"missing", "symlink", "notRegular", "tooLarge"}]
Handles == [raw : Raws, attached : BOOLEAN] \cup {Nothing}

SourceInit ==
  /\ indexed \in Canonical /\ path \in Paths
  /\ staged = Nothing \/ (path.kind = "file" /\ staged = Clean[path.raw])
  /\ handle = Nothing /\ spc = "acquire" /\ accepted = Nothing /\ outcome = Nothing
  /\ edits = 0 /\ yielded = {}

Stops(status) ==
  /\ outcome' = status /\ spc' = "done"
  /\ handle' = Nothing

\* open_regular_file: no component is followed, the kind is read from what was
\* opened.  The same for the acquisition and for the revalidation.
OpenSource ==
  /\ spc \in {"acquire", "revalidate"}
  /\ IF path.kind = "file"
     THEN /\ handle' = [raw |-> path.raw, attached |-> TRUE]
          /\ spc' = IF spc = "acquire" THEN "read" ELSE "reread"
          /\ UNCHANGED outcome
     ELSE Stops(path.kind)
  /\ UNCHANGED <<indexed, path, staged, accepted, edits, yielded>>

\* acquire_source: what the index certifies now, or the bytes of the handle
\* through the clean filter.
AcquiredNow == IF staged # Nothing THEN staged ELSE Clean[handle.raw]

\* verify_source: identity first, then whether it is text.
VerifySource ==
  /\ spc = "read"
  /\ CASE AcquiredNow # indexed -> Stops("stale") /\ UNCHANGED <<accepted, yielded>>
       [] AcquiredNow = indexed /\ indexed \in Unreadable ->
            Stops("notText") /\ UNCHANGED <<accepted, yielded>>
       [] OTHER -> /\ accepted' = AcquiredNow /\ spc' = "revalidate" /\ handle' = Nothing
                   /\ yielded' = IF path.kind = "file" THEN {Clean[path.raw]} ELSE {}
                   /\ UNCHANGED outcome
  /\ UNCHANGED <<indexed, path, staged, edits>>

\* Mutation: the second reading is not compared.
SameAlways(content) == TRUE
Same(content) == content = accepted

\* revalidate_source and finish_source: the whole acquisition once more.
FinishSource ==
  /\ spc = "reread"
  /\ Stops(IF Same(AcquiredNow) THEN "verified" ELSE "raced")
  /\ UNCHANGED <<indexed, path, staged, accepted, edits, yielded>>

\* Somebody writes into the file, which an open handle sees, or puts something
\* else in its place, which it does not.  The index no longer certifies it.
Edit ==
  /\ edits < MaxEdits
  /\ edits' = edits + 1
  /\ \E p \in Paths \ {path}, inPlace \in BOOLEAN :
       /\ inPlace => path.kind = "file" /\ p.kind = "file"
       /\ path' = p
       /\ handle' = IF handle = Nothing \/ ~handle.attached THEN handle
                    ELSE IF inPlace THEN [handle EXCEPT !.raw = p.raw]
                    ELSE [handle EXCEPT !.attached = FALSE]
       /\ yielded' = IF p.kind = "file" THEN yielded \cup {Clean[p.raw]} ELSE yielded
  /\ staged' = Nothing
  /\ UNCHANGED <<indexed, spc, accepted, outcome>>

\* `git add`: the index certifies what the file holds.
Stage ==
  /\ path.kind = "file" /\ staged = Nothing
  /\ staged' = Clean[path.raw]
  /\ UNCHANGED <<indexed, path, handle, spc, accepted, outcome, edits, yielded>>

SourceNext == OpenSource \/ VerifySource \/ FinishSource \/ Edit \/ Stage
SourceFairness == WF_sourceVars(OpenSource \/ VerifySource \/ FinishSource)
SourceSpec == SourceInit /\ [][SourceNext]_sourceVars /\ SourceFairness

----------------------------------------------------------------------------
SourceTypeOK ==
  /\ indexed \in Canonical
  /\ path \in Paths /\ staged \in Canonical \cup {Nothing} /\ handle \in Handles
  /\ spc \in {"acquire", "read", "revalidate", "reread", "done"}
  /\ accepted \in Canonical \cup {Nothing} /\ outcome \in Refusals \cup {"verified", Nothing}
  /\ yielded \subseteq Canonical

\* revalidate_source: "the bytes already accepted still are the content this path
\* yields".  What is served is what was indexed, it is text, and the path had it
\* after it was verified, however the file was edited, replaced or staged.
ServedIsCurrent ==
  outcome = "verified" => accepted = indexed /\ accepted \notin Unreadable /\ accepted \in yielded
=============================================================================
