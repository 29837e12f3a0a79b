---------------------------- MODULE ArticleRange ----------------------------
(***************************************************************************)
(* The ranges of article numbers that LISTGROUP, OVER, HDR and XPAT take    *)
(* (parseArticleRange of internal/nntp/server.go).                         *)
(***************************************************************************)
EXTENDS Integers

\* What a client writes: nothing that can be read as a range ("whole"), N
\* ("one", 0 when it is no number), N- ("from"), or N-M ("span").
Whole == [form |-> "whole", from |-> 0, to |-> 0]
Request(Numbers) ==
  {Whole} \cup [form : {"one", "from"}, from : Numbers, to : {0}]
          \cup [form : {"span"}, from : Numbers, to : Numbers]

\* The range as it is written.
Written(r, lo, hi) ==
  [first |-> IF r.form = "whole" THEN lo ELSE r.from,
   last  |-> IF r.form = "span" THEN r.to
             ELSE IF r.form = "one" THEN r.from ELSE hi]

\* Variant: numbers beyond the group are taken for its start.
ClampLow(n, lo, hi) == IF n < lo \/ n > hi THEN lo ELSE n

\* The two comparisons, in their order.
Clamp(n, lo, hi) ==
  LET raised == IF n < lo THEN lo ELSE n
  IN  IF raised > hi THEN hi ELSE raised

\* The range that is gone through in a group that extends from lo to hi.
ParseArticleRange(r, lo, hi) ==
  LET first == Clamp(Written(r, lo, hi).first, lo, hi)
      last  == Clamp(Written(r, lo, hi).last, lo, hi)
  IN  [first |-> IF first > last THEN last ELSE first, last |-> last]

\* The numbers in the group that the client asks for.
InRequest(n, r, lo, hi) ==
  /\ lo <= n /\ n <= hi
  /\ Written(r, lo, hi).first <= n /\ n <= Written(r, lo, hi).last

=============================================================================
