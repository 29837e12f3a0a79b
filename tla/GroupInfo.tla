----------------------------- MODULE GroupInfo -----------------------------
(***************************************************************************)
(* The contents of a group's .info file, Start, End and Total, and how     *)
(* internal/group/group.go computes them: article by article in a scan of  *)
(* the directory (BuildInfo) and by increments (Post).                     *)
(***************************************************************************)
EXTENDS Integers, FiniteSets

\* What LoadInfo gets from an empty .info: all three fields keep their zeros.
ZeroInfo == [start |-> 0, end |-> 0, total |-> 0]

\* Variant: End is set by the first article only.
CountKeepsEnd(i, n) ==
  [start |-> IF i.total = 0 \/ n < i.start THEN n ELSE i.start,
   end   |-> IF i.total = 0 THEN n ELSE i.end,
   total |-> i.total + 1]

\* The running Start, End and Total after one more article.
Count(i, n) ==
  [start |-> IF i.total = 0 \/ n < i.start THEN n ELSE i.start,
   end   |-> IF i.total = 0 \/ n > i.end THEN n ELSE i.end,
   total |-> i.total + 1]

\* Variant: Start is not set by the first article of an empty group.
ExtendKeepsStart(i, n) == [start |-> i.start, end |-> n, total |-> i.total + 1]

\* Start, End and Total after the article numbered n was posted.
Extend(i, n) ==
  [start |-> IF i.total = 0 /\ i.start = 0 THEN 1 ELSE i.start,
   end   |-> n,
   total |-> i.total + 1]

\* Every number of S is in the range that i gives to readers and searches.
Covers(i, S) == \A n \in S : i.start <= n /\ n <= i.end

\* i is what a complete scan of a directory with the articles S computes.
IsSummary(i, S) ==
  /\ Covers(i, S)
  /\ i.total = Cardinality(S)
  /\ IF S = {} THEN i.start = 0 /\ i.end = 0
               ELSE i.start \in S /\ i.end \in S

=============================================================================
