------------------------------- MODULE Wildmat -------------------------------
(***************************************************************************)
(* Patterns with * and ?, against which LIST, NEWNEWS and XPAT match        *)
(* (internal/group/group.go, doWildmat), and what they mean.               *)
(***************************************************************************)
EXTENDS Naturals, Sequences

CONSTANTS
  Char,      \* characters, * and ? among them
  MaxLength  \* bound: of patterns and names

ASSUME WildmatAssumption == "*" \in Char /\ "?" \in Char /\ MaxLength \in Nat

Strings == UNION {[1..n -> Char] : n \in 0..MaxLength}

\* The rest of s from its i-th character.
Suffix(s, i) == SubSeq(s, i, Len(s))

\* Variant: a star matches at least one character.
RestsAfter(name) == {Suffix(name, i) : i \in 2..Len(name) + 1}

\* What a star may leave of a name: any suffix, the empty one included.
Rests(name) == {Suffix(name, i) : i \in 1..Len(name) + 1}

DoWildmat(pattern, name) ==
  LET match[m \in Strings \X Strings] ==
        LET p == m[1]
            n == m[2]
        IN IF p = << >> THEN n = << >>
           ELSE IF p[1] = "*" THEN \E rest \in Rests(n) : match[<<Tail(p), rest>>]
           ELSE n # << >> /\ p[1] \in {"?", n[1]} /\ match[<<Tail(p), Tail(n)>>]
  IN match[<<pattern, name>>]

-----------------------------------------------------------------------------

\* A cut of the name into one piece for each character of the pattern.
Cuts(p, n) ==
  {cut \in [0..Len(p) -> 0..Len(n)] :
     /\ cut[0] = 0 /\ cut[Len(p)] = Len(n)
     /\ \A i \in 1..Len(p) : cut[i - 1] <= cut[i]}

\* A star stands for any piece, a question mark for any character, and every other
\* character for itself.
Fits(p, n, cut) ==
  \A i \in 1..Len(p) :
    p[i] # "*" => cut[i] = cut[i - 1] + 1 /\ p[i] \in {"?", n[cut[i]]}

Means(p, n) == \E cut \in Cuts(p, n) : Fits(p, n, cut)

=============================================================================
