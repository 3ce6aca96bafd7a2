---------------------------- MODULE SourceWindow ----------------------------
(***************************************************************************)
(* verify.rs, select_window: which lines of a verified file are served for *)
(* an anchor.  A text is the sequence of its lines' lengths, newline       *)
(* included; an anchor is the pair of its first and last line.             *)
(***************************************************************************)
EXTENDS Naturals, Sequences, FiniteSetsExt

CONSTANTS
  MaxLines,       \* MAX_SOURCE_LINES
  MaxBytes,       \* MAX_SOURCE_BYTES
  ContextBefore,  \* SOURCE_CONTEXT_BEFORE
  ContextAfter    \* SOURCE_CONTEXT_AFTER

ASSUME WindowAssumption ==
  MaxLines \in Nat \ {0} /\ MaxBytes \in Nat /\ ContextBefore \in Nat /\ ContextAfter \in Nat

\* The bytes of the lines i..j.
Bytes(text, i, j) == MapThenSumSet(LAMBDA n : text[n], i..j)

\* Whether i..j is within both budgets.
Affordable(text, i, j) == j + 1 - i <= MaxLines /\ Bytes(text, i, j) <= MaxBytes

\* The last anchor line that fits, or the one before the anchor.
AnchorLines(text, first, last) ==
  Max({first - 1} \cup {j \in first..last : \A m \in first..j : Affordable(text, first, m)})

\* Backwards from the anchor, one existing line at a time.
WindowStart(text, first, last) ==
  Min({i \in 1..first : first - i <= ContextBefore
                        /\ \A m \in i..first : Affordable(text, m, last)})

\* Mutation: context is added whether or not the budgets allow it.
EndUnbudgeted(text, start, last) == Min({Len(text), last + ContextAfter})
\* Forwards from it, with what is left.
WindowEnd(text, start, last) ==
  Max({j \in last..Len(text) : j - last <= ContextAfter
                               /\ \A m \in last..j : Affordable(text, start, m)})

TooLong == [status |-> "line-too-long"]

\* select_window and the flags verify_source derives from it.
Window(text, first, last) ==
  LET served == AnchorLines(text, first, last)
      whole  == served = last
      start  == IF whole THEN WindowStart(text, first, last) ELSE first
      end    == IF whole THEN WindowEnd(text, start, last) ELSE served
      wanted == IF whole
                THEN <<Max({1, first - ContextBefore}), Min({Len(text), last + ContextAfter})>>
                ELSE <<first, last>>
  IN IF served < first THEN TooLong
     ELSE [status |-> "verified", served |-> <<start, end>>, requested |-> wanted,
           complete |-> whole, clipped |-> whole /\ <<start, end>> # wanted,
           omittedLines |-> last - served, omittedBytes |-> Bytes(text, served + 1, last)]

----------------------------------------------------------------------------
\* The reference: budgets hold, the anchor comes before its context, nothing
\* that is claimed complete is cut, what was left out had no room, and what is
\* served and what is reported omitted make up the anchor.
WindowIsRight(text, first, last, window) ==
  IF text[first] > MaxBytes THEN window = TooLong
  ELSE LET s == window.served[1]
           e == window.served[2]
       IN /\ Affordable(text, s, e)
          /\ window.complete = Affordable(text, first, last)
          /\ window.complete => s <= first /\ e >= last
          /\ ~window.complete => s = first /\ e < last /\ ~Affordable(text, s, e + 1)
          /\ s >= window.requested[1] /\ e <= window.requested[2]
          /\ window.complete /\ s > window.requested[1] => ~Affordable(text, s - 1, e)
          /\ window.complete /\ e < window.requested[2] => ~Affordable(text, s, e + 1)
          /\ window.omittedBytes
               + Bytes(text, Max({s, first}), Min({e, last})) = Bytes(text, first, last)
=============================================================================
