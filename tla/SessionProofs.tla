---------------------------- MODULE SessionProofs ----------------------------
(***************************************************************************)
(* Proofs about Session, for any users, groups and stores, any articles,   *)
(* and any number of commands of the connection and changes of others.     *)
(*                                                                         *)
(* A command begins (BeginStep), goes through its labels, and is answered  *)
(* (EndStep); most actions are one of the two.                             *)
(***************************************************************************)
EXTENDS Session, RecursionProofs, SequenceTheorems, TLAPS

-----------------------------------------------------------------------------
(* What parseArticleRange returns.                                         *)

\* Whatever is asked for, the range lies in the group and the right way round:
\* a listing looks at no number outside it.
THEOREM RangeWithin ==
  ASSUME NEW lo \in Nat, NEW hi \in Nat, lo <= hi, NEW r \in Request(Nat)
  PROVE  LET range == ParseArticleRange(r, lo, hi)
         IN  range.first \in lo..hi /\ range.last \in lo..hi /\ range.first <= range.last
<1>1. Written(r, lo, hi).first \in Nat /\ Written(r, lo, hi).last \in Nat
  BY DEF Written, Request, Whole
<1>2. \A n \in Nat : Clamp(n, lo, hi) \in lo..hi
  BY DEF Clamp
<1> QED  BY <1>1, <1>2 DEF ParseArticleRange

\* Every number of the group that is asked for is in the range: clamping never
\* cuts off an article.
THEOREM RangeCovers ==
  ASSUME NEW lo \in Nat, NEW hi \in Nat, NEW r \in Request(Nat),
         NEW n \in Nat, InRequest(n, r, lo, hi)
  PROVE  /\ ParseArticleRange(r, lo, hi).first <= n
         /\ n <= ParseArticleRange(r, lo, hi).last
<1>1. Written(r, lo, hi).first \in Nat /\ Written(r, lo, hi).last \in Nat
  BY DEF Written, Request, Whole
<1>2. \A m \in Nat : m <= n => Clamp(m, lo, hi) <= n
  BY DEF Clamp, InRequest
<1>3. \A m \in Nat : n <= m => n <= Clamp(m, lo, hi)
  BY DEF Clamp, InRequest
<1>4. Clamp(Written(r, lo, hi).first, lo, hi) \in Nat
      /\ Clamp(Written(r, lo, hi).last, lo, hi) \in Nat
  BY <1>1 DEF Clamp
<1> QED  BY <1>1, <1>2, <1>3, <1>4 DEF ParseArticleRange, InRequest

-----------------------------------------------------------------------------
(* What doWildmat matches.                                                 *)

LEMMA StringsAreSequences ==
  ASSUME NEW s
  PROVE  s \in Strings <=> s \in Seq(Char) /\ Len(s) <= MaxLength
<1>1. ASSUME s \in Strings PROVE s \in Seq(Char) /\ Len(s) <= MaxLength
  <2>1. PICK n \in 0..MaxLength : s \in [1..n -> Char]
    BY <1>1 DEF Strings
  <2>2. n \in Nat /\ n <= MaxLength
    BY WildmatAssumption
  <2>3. s \in Seq(Char) /\ Len(s) = n
    BY <2>1, <2>2
  <2> QED  BY <2>2, <2>3
<1>2. ASSUME s \in Seq(Char), Len(s) <= MaxLength PROVE s \in Strings
  <2>1. Len(s) \in 0..MaxLength /\ s \in [1..Len(s) -> Char]
    BY <1>2, WildmatAssumption
  <2> QED  BY <2>1 DEF Strings
<1> QED  BY <1>1, <1>2

LEMMA StringTail ==
  ASSUME NEW s \in Strings, s # << >>
  PROVE  /\ Tail(s) \in Strings /\ Len(Tail(s)) = Len(s) - 1 /\ Len(s) \in Nat \ {0}
         /\ \A i \in 1..Len(s) - 1 : Tail(s)[i] = s[i + 1]
<1>1. s \in Seq(Char) /\ Len(s) <= MaxLength
  BY StringsAreSequences
<1>2. Len(s) \in Nat \ {0}
  BY <1>1
<1>3. /\ Tail(s) \in Seq(Char) /\ Len(Tail(s)) = Len(s) - 1
      /\ \A i \in 1..Len(Tail(s)) : Tail(s)[i] = s[i + 1]
  BY <1>1, HeadTailProperties
<1>4. Len(Tail(s)) <= MaxLength
  BY <1>1, <1>2, <1>3, WildmatAssumption
<1> QED  BY <1>2, <1>3, <1>4, StringsAreSequences

LEMMA StringSuffix ==
  ASSUME NEW s \in Strings, NEW c \in 0..Len(s)
  PROVE  /\ Suffix(s, c + 1) \in Strings /\ Len(Suffix(s, c + 1)) = Len(s) - c
         /\ Len(s) \in Nat
         /\ \A i \in 1..Len(s) - c : Suffix(s, c + 1)[i] = s[c + i]
<1>1. s \in Seq(Char) /\ Len(s) <= MaxLength /\ Len(s) \in Nat
  BY StringsAreSequences
<1>2. \A i \in c + 1..Len(s) : s[i] \in Char
  BY <1>1, ElementOfSeq
<1> DEFINE t == SubSeq(s, c + 1, Len(s))
<1>3. /\ t \in Seq(Char)
      /\ Len(t) = IF c + 1 <= Len(s) THEN Len(s) - (c + 1) + 1 ELSE 0
      /\ \A i \in 1..Len(s) - (c + 1) + 1 : t[i] = s[(c + 1) + i - 1]
  BY <1>1, <1>2, SubSeqProperties
<1> HIDE DEF t
<1>4. Len(t) = Len(s) - c
  BY <1>1, <1>3
<1>5. \A i \in 1..Len(s) - c : t[i] = s[c + i]
  <2> TAKE i \in 1..Len(s) - c
  <2>1. i \in 1..Len(s) - (c + 1) + 1 /\ (c + 1) + i - 1 = c + i
    BY <1>1
  <2> QED  BY <1>3, <2>1
<1>6. t \in Strings
  BY <1>1, <1>3, <1>4, StringsAreSequences, WildmatAssumption
<1> QED  BY <1>1, <1>4, <1>5, <1>6 DEF t, Suffix

\* Cuts do not go back.
LEMMA CutForward ==
  ASSUME NEW p \in Strings, NEW n \in Strings, NEW cut \in Cuts(p, n)
  PROVE  \A i \in 1..Len(p) : cut[1] <= cut[i]
<1>1. Len(p) \in Nat /\ Len(n) \in Nat
  BY StringsAreSequences
<1>2. /\ cut \in [0..Len(p) -> 0..Len(n)]
      /\ \A i \in 1..Len(p) : cut[i - 1] <= cut[i]
  BY DEF Cuts
<1> DEFINE S == {k \in Nat : k + 1 <= Len(p) => cut[1] <= cut[k + 1]}
<1>3. 0 \in S
  BY <1>1, <1>2
<1>4. \A k \in S : k + 1 \in S
  <2> SUFFICES ASSUME NEW k \in S, (k + 1) + 1 <= Len(p) PROVE cut[1] <= cut[(k + 1) + 1]
    OBVIOUS
  <2>1. /\ (k + 1) + 1 \in 1..Len(p) /\ ((k + 1) + 1) - 1 = k + 1 /\ cut[1] <= cut[k + 1]
        /\ 1 \in 0..Len(p) /\ k + 1 \in 0..Len(p) /\ (k + 1) + 1 \in 0..Len(p)
    BY <1>1
  <2>2. cut[k + 1] <= cut[(k + 1) + 1]
    BY <1>2, <2>1
  <2>3. cut[1] \in Int /\ cut[k + 1] \in Int /\ cut[(k + 1) + 1] \in Int
    BY <1>1, <1>2, <2>1
  <2> QED  BY <2>1, <2>2, <2>3
<1>5. S = Nat
  BY <1>3, <1>4, Induction
<1> TAKE i \in 1..Len(p)
<1>6. i - 1 \in Nat /\ (i - 1) + 1 = i
  BY <1>1
<1>7. i - 1 \in S
  <2> HIDE DEF S
  <2> QED  BY <1>5, <1>6
<1> QED  BY <1>6, <1>7

LEMMA MeansNothing ==
  ASSUME NEW n \in Strings
  PROVE  Means(<< >>, n) <=> n = << >>
<1>1. Len(n) \in Nat /\ n \in Seq(Char) /\ Len(<< >>) = 0
  BY StringsAreSequences
<1>2. ASSUME Means(<< >>, n) PROVE n = << >>
  BY <1>1, <1>2 DEF Means, Cuts
<1>3. ASSUME n = << >> PROVE Means(<< >>, n)
  <2> DEFINE cut == [i \in 0..0 |-> 0]
  <2>1. cut \in Cuts(<< >>, n)
    BY <1>1, <1>3 DEF Cuts
  <2>2. Fits(<< >>, n, cut)
    BY <1>1 DEF Fits
  <2> HIDE DEF cut
  <2> QED  BY <2>1, <2>2 DEF Means
<1> QED  BY <1>2, <1>3

\* A pattern means a name if its first character means the beginning and the others
\* mean the rest.
LEMMA MeansFirst ==
  ASSUME NEW p \in Strings, p # << >>, NEW n \in Strings
  PROVE  Means(p, n) <=>
           \E c \in 0..Len(n) : /\ p[1] # "*" => c = 1 /\ p[1] \in {"?", n[1]}
                                /\ Means(Tail(p), Suffix(n, c + 1))
<1>1. /\ Len(p) \in Nat \ {0} /\ Len(n) \in Nat /\ Tail(p) \in Strings
      /\ Len(Tail(p)) = Len(p) - 1
      /\ \A i \in 1..Len(p) - 1 : Tail(p)[i] = p[i + 1]
  BY StringTail, StringsAreSequences
<1>2. ASSUME Means(p, n)
      PROVE  \E c \in 0..Len(n) : /\ p[1] # "*" => c = 1 /\ p[1] \in {"?", n[1]}
                                  /\ Means(Tail(p), Suffix(n, c + 1))
  <2>1. PICK cut \in Cuts(p, n) : Fits(p, n, cut)
    BY <1>2 DEF Means
  <2>2. /\ cut \in [0..Len(p) -> 0..Len(n)]
        /\ cut[0] = 0 /\ cut[Len(p)] = Len(n)
        /\ \A i \in 1..Len(p) : cut[i - 1] <= cut[i]
    BY DEF Cuts
  <2>3. \A i \in 1..Len(p) :
          p[i] # "*" => cut[i] = cut[i - 1] + 1 /\ p[i] \in {"?", n[cut[i]]}
    BY <2>1 DEF Fits
  <2>4. \A i \in 1..Len(p) : cut[1] <= cut[i]
    BY CutForward
  <2>5. PICK c \in 0..Len(n) : c = cut[1]
    BY <1>1, <2>2
  <2>6. p[1] # "*" => c = 1 /\ p[1] \in {"?", n[1]}
    <3>1. 1 \in 1..Len(p) /\ 1 - 1 = 0 /\ 0 + 1 = 1
      BY <1>1
    <3> QED  BY <2>2, <2>3, <2>5, <3>1
  <2> DEFINE t == Tail(p)
             s == Suffix(n, c + 1)
             new == [i \in 0..Len(t) |-> cut[i + 1] - c]
  <2>7. Len(s) = Len(n) - c /\ \A i \in 1..Len(n) - c : s[i] = n[c + i]
    BY StringSuffix
  <2> HIDE DEF t, s
  <2>8. Len(t) = Len(p) - 1 /\ \A i \in 1..Len(p) - 1 : t[i] = p[i + 1]
    BY <1>1 DEF t
  <2>9. \A i \in 0..Len(t) : new[i] = cut[i + 1] - c /\ new[i] \in 0..Len(s)
    <3> TAKE i \in 0..Len(t)
    <3>1. i + 1 \in 1..Len(p) /\ i + 1 \in 0..Len(p)
      BY <1>1, <2>8
    <3>2. c <= cut[i + 1] /\ cut[i + 1] \in 0..Len(n)
      BY <2>2, <2>4, <2>5, <3>1
    <3> QED  BY <1>1, <2>7, <3>2
  <2>10. new \in Cuts(t, s)
    <3>1. new \in [0..Len(t) -> 0..Len(s)]
      BY <2>9
    <3>2. 0 \in 0..Len(t) /\ Len(t) \in 0..Len(t) /\ Len(t) + 1 = Len(p) /\ 0 + 1 = 1
      BY <1>1, <2>8
    <3>3. new[0] = 0 /\ new[Len(t)] = Len(s)
      <4> HIDE DEF new
      <4>1. new[0] = cut[1] - c /\ new[Len(t)] = cut[Len(p)] - c
        <5>1. new[0] = cut[0 + 1] - c /\ new[Len(t)] = cut[Len(t) + 1] - c
          BY <2>9, <3>2
        <5> QED  BY <3>2, <5>1
      <4>2. cut[1] = c /\ cut[Len(p)] = Len(n) /\ c \in Int
        BY <1>1, <2>2, <2>5
      <4> QED  BY <1>1, <2>7, <4>1, <4>2
    <3>4. \A i \in 1..Len(t) : new[i - 1] <= new[i]
      <4> HIDE DEF new
      <4> TAKE i \in 1..Len(t)
      <4>1. /\ i - 1 \in 0..Len(t) /\ i \in 0..Len(t) /\ (i - 1) + 1 = i /\ (i + 1) - 1 = i
            /\ i + 1 \in 1..Len(p) /\ i \in 0..Len(p) /\ i + 1 \in 0..Len(p)
        BY <1>1, <2>8
      <4>2. new[i - 1] = cut[i] - c /\ new[i] = cut[i + 1] - c /\ cut[i] <= cut[i + 1]
        BY <2>2, <2>9, <4>1
      <4>3. cut[i] \in Int /\ cut[i + 1] \in Int /\ c \in Int
        BY <1>1, <2>2, <4>1
      <4> QED  BY <4>2, <4>3
    <3> HIDE DEF new
    <3> QED  BY <3>1, <3>3, <3>4 DEF Cuts
  <2> HIDE DEF new
  <2>11. Fits(t, s, new)
    <3> SUFFICES ASSUME NEW i \in 1..Len(t), t[i] # "*"
                 PROVE  new[i] = new[i - 1] + 1 /\ t[i] \in {"?", s[new[i]]}
      BY DEF Fits
    <3>1. /\ i - 1 \in 0..Len(t) /\ i \in 0..Len(t) /\ (i - 1) + 1 = i /\ (i + 1) - 1 = i
          /\ i + 1 \in 1..Len(p) /\ i \in 0..Len(p) /\ i + 1 \in 0..Len(p) /\ t[i] = p[i + 1]
      BY <1>1, <2>8
    <3>2. cut[i + 1] = cut[i] + 1 /\ p[i + 1] \in {"?", n[cut[i + 1]]}
      BY <2>3, <3>1
    <3>3. /\ new[i - 1] = cut[i] - c /\ new[i] = cut[i + 1] - c
          /\ new[i] \in 0..Len(s) /\ new[i - 1] \in 0..Len(s)
      BY <2>9, <3>1
    <3>4. cut[i] \in Int /\ cut[i + 1] \in Int /\ c \in Int
      <4>1. cut[i] \in 0..Len(n) /\ cut[i + 1] \in 0..Len(n)
        BY <2>2, <3>1
      <4> QED  BY <1>1, <4>1
    <3>5. new[i] = new[i - 1] + 1
      BY <3>2, <3>3, <3>4
    <3>6. new[i] \in 1..Len(n) - c /\ c + new[i] = cut[i + 1]
      <4>1. Len(s) = Len(n) - c /\ Len(s) \in Int
        BY <1>1, <2>7
      <4>2. new[i] \in Int /\ new[i - 1] \in Int /\ 0 <= new[i - 1] /\ new[i] <= Len(s)
        BY <3>3, <4>1
      <4>3. 1 <= new[i]
        BY <3>5, <4>2
      <4>4. c + new[i] = cut[i + 1]
        BY <3>3, <3>4, <4>2
      <4>5. new[i] \in 1..Len(s)
        BY <4>1, <4>2, <4>3
      <4> QED  BY <4>1, <4>4, <4>5
    <3>7. s[new[i]] = n[cut[i + 1]]
      BY <2>7, <3>6
    <3> QED  BY <3>1, <3>2, <3>5, <3>7
  <2>12. Means(t, s)
    BY <2>10, <2>11 DEF Means
  <2> QED  BY <2>6, <2>12 DEF t, s
<1>3. ASSUME NEW c \in 0..Len(n), p[1] # "*" => c = 1 /\ p[1] \in {"?", n[1]},
             Means(Tail(p), Suffix(n, c + 1))
      PROVE  Means(p, n)
  <2> DEFINE t == Tail(p)
             s == Suffix(n, c + 1)
  <2>1. Len(s) = Len(n) - c /\ \A i \in 1..Len(n) - c : s[i] = n[c + i]
    BY StringSuffix
  <2>2. PICK cut \in Cuts(t, s) : Fits(t, s, cut)
    BY <1>3 DEF Means
  <2> HIDE DEF t, s
  <2>3. Len(t) = Len(p) - 1 /\ \A i \in 1..Len(p) - 1 : t[i] = p[i + 1]
    BY <1>1 DEF t
  <2>4. /\ cut \in [0..Len(t) -> 0..Len(s)]
        /\ cut[0] = 0 /\ cut[Len(t)] = Len(s)
        /\ \A i \in 1..Len(t) : cut[i - 1] <= cut[i]
    BY DEF Cuts
  <2>5. \A i \in 1..Len(t) :
          t[i] # "*" => cut[i] = cut[i - 1] + 1 /\ t[i] \in {"?", s[cut[i]]}
    BY <2>2 DEF Fits
  <2> DEFINE new == [i \in 0..Len(p) |-> IF i = 0 THEN 0 ELSE cut[i - 1] + c]
  <2>6. new[0] = 0 /\ \A i \in 1..Len(p) : /\ i - 1 \in 0..Len(t) /\ cut[i - 1] \in 0..Len(s)
                                          /\ new[i] = cut[i - 1] + c /\ new[i] \in 0..Len(n)
    <3>1. 0 \in 0..Len(p)
      BY <1>1
    <3>2. ASSUME NEW i \in 1..Len(p)
          PROVE  /\ i - 1 \in 0..Len(t) /\ cut[i - 1] \in 0..Len(s)
                 /\ new[i] = cut[i - 1] + c /\ new[i] \in 0..Len(n)
      <4>1. i - 1 \in 0..Len(t) /\ i \in 0..Len(p) /\ i # 0
        BY <1>1, <2>3
      <4>2. cut[i - 1] \in 0..Len(s)
        BY <2>4, <4>1
      <4>3. new[i] = cut[i - 1] + c
        BY <4>1
      <4> HIDE DEF new
      <4>4. new[i] \in 0..Len(n)
        BY <1>1, <2>1, <4>2, <4>3
      <4> QED  BY <4>1, <4>2, <4>3, <4>4
    <3> QED  BY <3>1, <3>2
  <2>7. new \in [0..Len(p) -> 0..Len(n)]
    <3>1. \A i \in 0..Len(p) : new[i] \in 0..Len(n)
      <4> HIDE DEF new
      <4> TAKE i \in 0..Len(p)
      <4>1. i = 0 \/ i \in 1..Len(p)
        BY <1>1
      <4> QED  BY <1>1, <2>6, <4>1
    <3> QED  BY <3>1
  <2> HIDE DEF new
  <2>8. new \in Cuts(p, n)
    <3>1. new[Len(p)] = Len(n)
      <4>1. Len(p) \in 1..Len(p) /\ Len(p) - 1 = Len(t)
        BY <1>1, <2>3
      <4> QED  BY <1>1, <2>1, <2>4, <2>6, <4>1
    <3>2. ASSUME NEW i \in 1..Len(p)
          PROVE  new[i - 1] <= new[i]
      <4>1. CASE i = 1
        <5>1. i - 1 = 0
          BY <4>1
        <5> QED  BY <1>1, <2>6, <5>1
      <4>2. CASE i # 1
        <5>1. i - 1 \in 1..Len(p) /\ i - 1 \in 1..Len(t)
          BY <1>1, <2>3, <4>2
        <5>2. cut[(i - 1) - 1] <= cut[i - 1]
          BY <2>4, <5>1
        <5>3. /\ new[i - 1] = cut[(i - 1) - 1] + c /\ new[i] = cut[i - 1] + c
              /\ cut[(i - 1) - 1] \in 0..Len(s) /\ cut[i - 1] \in 0..Len(s)
          BY <2>6, <5>1
        <5> QED  BY <1>1, <5>2, <5>3
      <4> QED  BY <4>1, <4>2
    <3> QED  BY <2>6, <2>7, <3>1, <3>2 DEF Cuts
  <2>9. Fits(p, n, new)
    <3> SUFFICES ASSUME NEW i \in 1..Len(p), p[i] # "*"
                 PROVE  new[i] = new[i - 1] + 1 /\ p[i] \in {"?", n[new[i]]}
      BY DEF Fits
    <3>1. CASE i = 1
      <4>1. /\ c = 1 /\ p[1] \in {"?", n[1]} /\ i - 1 = 0
        BY <1>3, <3>1
      <4>2. new[1] = 1 /\ new[0] = 0
        <5>1. new[1] = cut[0] + c
          BY <2>6, <3>1, <4>1
        <5> QED  BY <2>4, <2>6, <4>1, <5>1
      <4> QED  BY <3>1, <4>1, <4>2
    <3>2. CASE i # 1
      <4>1. /\ i - 1 \in 1..Len(p) /\ i - 1 \in 1..Len(t) /\ i - 1 \in 1..Len(p) - 1
            /\ (i - 1) + 1 = i
        BY <1>1, <2>3, <3>2
      <4>2. t[i - 1] = p[i]
        BY <2>3, <4>1
      <4>3. cut[i - 1] = cut[(i - 1) - 1] + 1 /\ p[i] \in {"?", s[cut[i - 1]]}
        BY <2>5, <4>1, <4>2
      <4>4. /\ new[i - 1] = cut[(i - 1) - 1] + c /\ new[i] = cut[i - 1] + c
            /\ cut[(i - 1) - 1] \in 0..Len(s) /\ cut[i - 1] \in 0..Len(s)
        BY <2>6, <4>1
      <4>5. cut[i - 1] \in 1..Len(n) - c
        BY <1>1, <2>1, <4>3, <4>4
      <4>6. s[cut[i - 1]] = n[c + cut[i - 1]] /\ c + cut[i - 1] = new[i]
        <5>1. s[cut[i - 1]] = n[c + cut[i - 1]]
          BY <2>1, <4>5
        <5>2. cut[i - 1] \in Int /\ c \in Int
          BY <1>1, <2>1, <4>5
        <5>3. c + cut[i - 1] = new[i]
          BY <4>4, <5>2
        <5> QED  BY <5>1, <5>3
      <4>7. new[i] = new[i - 1] + 1
        BY <1>1, <4>3, <4>4
      <4> QED  BY <4>3, <4>6, <4>7
    <3> QED  BY <3>1, <3>2
  <2> QED  BY <2>8, <2>9 DEF Means
<1> QED  BY <1>2, <1>3

\* doWildmat of a pattern and a name, from the answers for shorter patterns.
Answer(match, m) ==
  IF m[1] = << >> THEN m[2] = << >>
  ELSE IF m[1][1] = "*" THEN \E rest \in Rests(m[2]) : match[<<Tail(m[1]), rest>>]
  ELSE m[2] # << >> /\ m[1][1] \in {"?", m[2][1]} /\ match[<<Tail(m[1]), Tail(m[2])>>]

Answers(match) == match = [m \in Strings \X Strings |-> Answer(match, m)]

\* The suffixes of a name, by the length that is cut off.
LEMMA RestsCut ==
  ASSUME NEW n \in Strings
  PROVE  \A rest : rest \in Rests(n) <=> \E c \in 0..Len(n) : rest = Suffix(n, c + 1)
<1>1. Len(n) \in Nat
  BY StringsAreSequences
<1>2. ASSUME NEW i \in 1..Len(n) + 1
      PROVE  i - 1 \in 0..Len(n) /\ (i - 1) + 1 = i
  BY <1>1
<1>3. \A c \in 0..Len(n) : c + 1 \in 1..Len(n) + 1
  BY <1>1
<1> QED  BY Zenon, <1>2, <1>3 DEF Rests

\* What follows the first character.
LEMMA SuffixTail ==
  ASSUME NEW n \in Strings, n # << >>
  PROVE  Suffix(n, 2) = Tail(n)
<1>1. /\ Len(n) \in Nat \ {0} /\ Tail(n) \in Strings /\ Len(Tail(n)) = Len(n) - 1
      /\ \A i \in 1..Len(n) - 1 : Tail(n)[i] = n[i + 1]
  BY StringTail
<1>2. 1 \in 0..Len(n) /\ 1 + 1 = 2
  BY <1>1
<1>3. /\ Suffix(n, 2) \in Strings /\ Len(Suffix(n, 2)) = Len(n) - 1
      /\ \A i \in 1..Len(n) - 1 : Suffix(n, 2)[i] = n[1 + i]
  BY StringSuffix, <1>2
<1> DEFINE a == Suffix(n, 2)
           b == Tail(n)
<1>4. a \in Seq(Char) /\ b \in Seq(Char)
  BY <1>1, <1>3, StringsAreSequences
<1>5. Len(a) = Len(b) /\ \A i \in 1..Len(a) : a[i] = b[i]
  <2>1. \A i \in 1..Len(n) - 1 : 1 + i = i + 1
    BY <1>1
  <2> QED  BY <1>1, <1>3, <2>1
<1> HIDE DEF a, b
<1>6. a = b
  BY <1>4, <1>5, SeqEqual
<1> QED  BY <1>6 DEF a, b

\* What patterns mean answers the equation of doWildmat.
LEMMA MeaningAnswers ==
  ASSUME NEW match, match = [m \in Strings \X Strings |-> Means(m[1], m[2])]
  PROVE  Answers(match)
<1>1. ASSUME NEW p \in Strings, NEW n \in Strings
      PROVE  match[<<p, n>>] = Means(p, n)
  OBVIOUS
<1>2. ASSUME NEW p \in Strings, NEW n \in Strings
      PROVE  Means(p, n) = Answer(match, <<p, n>>)
  <2>1. CASE p = << >>
    <3>1. Answer(match, <<p, n>>) = (n = << >>)
      BY <2>1 DEF Answer
    <3>2. Means(p, n) <=> n = << >>
      BY <2>1, MeansNothing
    <3> QED  BY Zenon, <3>1, <3>2 DEF Means
  <2>2. CASE p # << >> /\ p[1] = "*"
    <3>1. Answer(match, <<p, n>>) = \E rest \in Rests(n) : match[<<Tail(p), rest>>]
      BY <2>2 DEF Answer
    <3>2. Means(p, n) <=> \E c \in 0..Len(n) : Means(Tail(p), Suffix(n, c + 1))
      BY <2>2, MeansFirst
    <3>3. Tail(p) \in Strings
      BY <2>2, StringTail
    <3>4. \A c \in 0..Len(n) : match[<<Tail(p), Suffix(n, c + 1)>>] = Means(Tail(p), Suffix(n, c + 1))
      BY <1>1, <3>3, StringSuffix
    <3>5. (\E rest \in Rests(n) : match[<<Tail(p), rest>>])
          <=> \E c \in 0..Len(n) : match[<<Tail(p), Suffix(n, c + 1)>>]
      BY Zenon, RestsCut
    <3>6. (\E c \in 0..Len(n) : match[<<Tail(p), Suffix(n, c + 1)>>])
          <=> \E c \in 0..Len(n) : Means(Tail(p), Suffix(n, c + 1))
      BY Zenon, <3>4
    <3> QED  BY Zenon, <3>1, <3>2, <3>5, <3>6 DEF Means
  <2>3. CASE p # << >> /\ p[1] # "*"
    <3> DEFINE rest == n # << >> /\ p[1] \in {"?", n[1]} /\ match[<<Tail(p), Tail(n)>>]
    <3>1. Answer(match, <<p, n>>) = rest
      BY <2>3 DEF Answer
    <3>2. Means(p, n) <=>
            \E c \in 0..Len(n) : /\ c = 1 /\ p[1] \in {"?", n[1]}
                                 /\ Means(Tail(p), Suffix(n, c + 1))
      BY <2>3, MeansFirst
    <3>3. Len(n) \in Nat /\ (n # << >> <=> Len(n) # 0) /\ Tail(p) \in Strings
      BY <2>3, StringsAreSequences, StringTail
    <3>4. CASE n = << >>
      <4>1. ~ rest /\ ~ Means(p, n)
        BY <3>2, <3>3, <3>4
      <4> QED  BY Zenon, <3>1, <4>1 DEF Means
    <3>5. CASE n # << >>
      <4>1. 1 \in 0..Len(n) /\ 1 + 1 = 2
        BY <3>3, <3>5
      <4>2. Means(p, n) <=> p[1] \in {"?", n[1]} /\ Means(Tail(p), Suffix(n, 2))
        BY <3>2, <4>1
      <4>3. Suffix(n, 2) = Tail(n) /\ Tail(n) \in Strings
        BY <3>5, SuffixTail, StringTail
      <4>4. match[<<Tail(p), Tail(n)>>] = Means(Tail(p), Tail(n))
        BY <1>1, <3>3, <4>3
      <4>5. Means(p, n) <=> rest
        BY Zenon, <3>5, <4>2, <4>3, <4>4
      <4> HIDE DEF rest
      <4>6. rest \in BOOLEAN
        BY DEF rest
      <4> QED  BY Zenon, <3>1, <4>5, <4>6 DEF Means
    <3> QED  BY <3>4, <3>5
  <2> QED  BY <2>1, <2>2, <2>3
<1>3. \A m \in Strings \X Strings : Means(m[1], m[2]) = Answer(match, m)
  <2> TAKE m \in Strings \X Strings
  <2>1. m = <<m[1], m[2]>> /\ m[1] \in Strings /\ m[2] \in Strings
    OBVIOUS
  <2> QED  BY Zenon, <1>2, <2>1
<1>4. match = [m \in Strings \X Strings |-> Answer(match, m)]
  BY Zenon, <1>3
<1> QED  BY Zenon, <1>4 DEF Answers

\* The equation has one solution: its answers for a pattern follow from those for
\* shorter ones.
LEMMA AnswersUnique ==
  ASSUME NEW f, NEW g, Answers(f), Answers(g)
  PROVE  \A p, n \in Strings : f[<<p, n>>] = g[<<p, n>>]
<1>1. ASSUME NEW p \in Strings, NEW n \in Strings
      PROVE  /\ f[<<p, n>>] = Answer(f, <<p, n>>)
             /\ g[<<p, n>>] = Answer(g, <<p, n>>)
  <2>1. <<p, n>> \in Strings \X Strings
    OBVIOUS
  <2> QED  BY Zenon, <2>1 DEF Answers
<1> DEFINE Same(k) == \A p, n \in Strings : Len(p) = k => f[<<p, n>>] = g[<<p, n>>]
           S == {k \in Nat : Same(k)}
<1>2. ASSUME NEW p \in Strings, NEW n \in Strings,
             p # << >> => \A rest \in Strings : f[<<Tail(p), rest>>] = g[<<Tail(p), rest>>]
      PROVE  f[<<p, n>>] = g[<<p, n>>]
  <2>1. \A rest \in Rests(n) : rest \in Strings
    BY RestsCut, StringSuffix
  <2>2. n # << >> => Tail(n) \in Strings
    BY StringTail
  <2>3. Answer(f, <<p, n>>) = Answer(g, <<p, n>>)
    <3>1. CASE p = << >>
      BY <3>1 DEF Answer
    <3>2. CASE p # << >> /\ p[1] = "*"
      <4>1. /\ Answer(f, <<p, n>>) = \E rest \in Rests(n) : f[<<Tail(p), rest>>]
            /\ Answer(g, <<p, n>>) = \E rest \in Rests(n) : g[<<Tail(p), rest>>]
        BY <3>2 DEF Answer
      <4>2. \A rest \in Rests(n) : f[<<Tail(p), rest>>] = g[<<Tail(p), rest>>]
        BY <1>2, <2>1, <3>2
      <4> QED  BY Zenon, <4>1, <4>2
    <3>3. CASE p # << >> /\ p[1] # "*"
      <4>1. /\ Answer(f, <<p, n>>)
                 = (n # << >> /\ p[1] \in {"?", n[1]} /\ f[<<Tail(p), Tail(n)>>])
            /\ Answer(g, <<p, n>>)
                 = (n # << >> /\ p[1] \in {"?", n[1]} /\ g[<<Tail(p), Tail(n)>>])
        BY <3>3 DEF Answer
      <4>2. n # << >> => f[<<Tail(p), Tail(n)>>] = g[<<Tail(p), Tail(n)>>]
        BY <1>2, <2>2, <3>3
      <4>3. CASE n = << >>
        <5>1. /\ Answer(f, <<p, n>>) = FALSE
              /\ Answer(g, <<p, n>>) = FALSE
          BY <4>1, <4>3
        <5> QED  BY <5>1
      <4>4. CASE n # << >>
        <5>1. f[<<Tail(p), Tail(n)>>] = g[<<Tail(p), Tail(n)>>]
          BY <4>2, <4>4
        <5> DEFINE first == n # << >> /\ p[1] \in {"?", n[1]}
                   x == f[<<Tail(p), Tail(n)>>]
                   y == g[<<Tail(p), Tail(n)>>]
        <5>2. Answer(f, <<p, n>>) = (first /\ x) /\ Answer(g, <<p, n>>) = (first /\ y)
          BY <4>1
        <5> HIDE DEF first, x, y
        <5>3. x = y
          BY <5>1 DEF x, y
        <5> QED  BY <5>2, <5>3
      <4> QED  BY <4>3, <4>4
    <3> QED  BY <3>1, <3>2, <3>3
  <2> QED  BY Zenon, <1>1, <2>3
<1>3. 0 \in S
  <2> SUFFICES ASSUME NEW p \in Strings, NEW n \in Strings, Len(p) = 0
               PROVE  f[<<p, n>>] = g[<<p, n>>]
    OBVIOUS
  <2>1. p = << >>
    BY StringsAreSequences
  <2> QED  BY <1>2, <2>1
<1>4. \A k \in S : k + 1 \in S
  <2> SUFFICES ASSUME NEW k \in S, NEW p \in Strings, NEW n \in Strings, Len(p) = k + 1
               PROVE  f[<<p, n>>] = g[<<p, n>>]
    OBVIOUS
  <2>1. p # << >>
    <3>1. k + 1 # 0
      OBVIOUS
    <3> QED  BY <3>1
  <2>2. Tail(p) \in Strings /\ Len(Tail(p)) = k
    BY <2>1, StringTail
  <2>3. \A rest \in Strings : f[<<Tail(p), rest>>] = g[<<Tail(p), rest>>]
    BY <2>2
  <2> QED  BY <1>2, <2>3
<1>5. S = Nat
  <2>1. S \in SUBSET Nat
    OBVIOUS
  <2> HIDE DEF S
  <2> QED  BY <1>3, <1>4, <2>1, Induction
<1> TAKE p, n \in Strings
<1>6. Len(p) \in Nat
  BY StringsAreSequences
<1>7. Same(Len(p))
  <2> HIDE DEF Same
  <2> QED  BY <1>5, <1>6
<1> QED  BY <1>7

\* doWildmat matches a name with a pattern exactly if the pattern means it: if the
\* name can be cut into one piece for each character, any piece for a star, any
\* character for a question mark and the character itself for every other.
THEOREM WildmatMeans ==
  ASSUME NEW pattern \in Strings, NEW name \in Strings
  PROVE  DoWildmat(pattern, name) <=> Means(pattern, name)
<1> DEFINE Match == CHOOSE match : Answers(match)
           meaning == [m \in Strings \X Strings |-> Means(m[1], m[2])]
<1>1. DoWildmat(pattern, name) = Match[<<pattern, name>>]
  BY Zenon DEF DoWildmat, Answers, Answer
<1>2. Answers(meaning)
  BY Zenon, MeaningAnswers
<1>3. Answers(Match)
  <2> HIDE DEF meaning
  <2> QED  BY Zenon, <1>2
<1>4. meaning[<<pattern, name>>] = Means(pattern, name)
  OBVIOUS
<1> HIDE DEF Match, meaning
<1>5. Match[<<pattern, name>>] = meaning[<<pattern, name>>]
  BY <1>2, <1>3, AnswersUnique
<1> QED  BY Zenon, <1>1, <1>4, <1>5

-----------------------------------------------------------------------------
(* Operators.                                                              *)

LEMMA NoCmdTyped == NoCmd \in Command /\ NoCmd.num = 0
BY SessionAssumption DEF NoCmd, Command, Num, Whole, Request

LEMMA RightsTyped == \A st, s : Rights(st, s) \subseteq Group \X Flag
BY DEF Rights

\* What canRead or canPost allows is a right of the session.
LEMMA AllowedEntitles ==
  ASSUME IndInv, NEW g \in Group, NEW f \in Flag, Allowed(g, f)
  PROVE  <<g, f>> \in Rights(store, session)
BY SessionAssumption
   DEF IndInv, TypeOK, RightsKept, Allowed, UserInGroup, Granted, Rights, Flag

LEMMA NumIsNat == Num \subseteq Nat /\ 0 \in Num /\ Num \subseteq 0..Top + 1
BY SessionAssumption DEF Num

LEMMA LoadedTyped ==
  ASSUME IndInv, NEW n \in Num
  PROVE  /\ Loaded(n) \in [group : Group \cup {NoGroup}, num : Num, valid : BOOLEAN]
         /\ Loaded(n).group = curGroup.name /\ Loaded(n).num = n
BY DEF IndInv, TypeOK, Loaded

ListOp == {"list", "over", "header"}

\* What a listing sends are numbers.
LEMMA ListableTyped ==
  ASSUME IndInv, NEW op, InGroup
  PROVE  Listable(op) \subseteq Num
<1>1. curGroup.name \in Group
  BY DEF IndInv, TypeOK, InGroup
<1>2. articles[curGroup.name] \subseteq Num /\ loadable[curGroup.name] \subseteq Num
  BY <1>1, SessionAssumption DEF IndInv, TypeOK, Num
<1> QED  BY <1>2 DEF Listable

\* A listing that begins is in the group and covers what is asked for.
LEMMA ListingRange ==
  ASSUME IndInv, NEW op \in ListOp, NEW r \in Request(Num), InGroup
  PROVE  /\ Listing(op, r) \in Command /\ Listing(op, r).num \in Num
         /\ Listing(op, r).op = op
         /\ curGroup.start <= Listing(op, r).num /\ Listing(op, r).last <= curGroup.end
         /\ AskedFor(op, r) \subseteq Listable(op) /\ AskedFor(op, r) \subseteq Num
         /\ \A n \in AskedFor(op, r) : Listing(op, r).num <= n /\ n <= Listing(op, r).last
<1> DEFINE lo == curGroup.start  hi == curGroup.end  range == ParseArticleRange(r, lo, hi)
<1>1. lo \in Nat /\ hi \in Nat /\ hi <= Top /\ lo <= hi /\ r \in Request(Nat)
  BY SessionAssumption DEF IndInv, TypeOK, GroupShape, Num, Request
<1>2. range.first \in lo..hi /\ range.last \in lo..hi /\ range.first <= range.last
  BY <1>1, RangeWithin
<1>3. \A n \in Nat : InRequest(n, r, lo, hi) => range.first <= n /\ n <= range.last
  BY <1>1, RangeCovers
<1>4. Listing(op, r) = [NoCmd EXCEPT !.op = op, !.num = range.first, !.last = range.last]
  BY DEF Listing
<1>5. Listable(op) \subseteq Num /\ Listable(op) \subseteq Nat
  BY ListableTyped, NumIsNat
<1>6. range.first \in Num /\ range.last \in Num
  BY <1>1, <1>2, SessionAssumption DEF Num
<1> HIDE DEF range
<1>7. Listing(op, r) \in Command /\ Listing(op, r).num = range.first
      /\ Listing(op, r).op = op /\ Listing(op, r).last = range.last
  <2> DEFINE from == range.first  to == range.last
  <2>1. from \in 0..Top + 1 /\ to \in Num
    BY <1>6, SessionAssumption DEF Num
  <2>2. Listing(op, r) = [NoCmd EXCEPT !.op = op, !.num = from, !.last = to]
    BY <1>4
  <2> HIDE DEF from, to
  <2>3. Listing(op, r) = [op |-> op, user |-> NoUser, group |-> NoGroup, range |-> Whole,
                      start |-> 0, end |-> 0, num |-> from, last |-> to, back |-> FALSE,
                      todo |-> {}]
    BY <2>2 DEF NoCmd
  <2>4. Listing(op, r) \in Command
    BY <2>1, <2>3, NumIsNat DEF Command, Whole, Request, ListOp
  <2> QED  BY <2>3, <2>4 DEF from, to
<1> QED  BY <1>1, <1>2, <1>3, <1>5, <1>6, <1>7 DEF AskedFor

-----------------------------------------------------------------------------
(* Beginning and end of commands.                                          *)

\* What a command has to be at the label at which it begins.
Prepared(label, c) ==
  /\ c \in Command /\ c.num \in Num
  /\ label \in {"command", "simple", "resolve", "select", "step", "find", "load", "groups", "body"}
  /\ label = "resolve" => c.user \in User
  /\ label = "select" => c.group \in Group /\ c.start <= c.end
  /\ label \in {"step", "find", "load"} => MayReadOn
  /\ label \in {"step", "load"} => InRange(c.num)
  /\ label \in {"find", "load"} /\ c.back => InRange(c.last)
  /\ label = "groups" => \A g \in c.todo : Allowed(g, "r")

LEMMA BeginStep ==
  ASSUME IndInv, NEW label, NEW c, Begin(label, c), Prepared(label, c),
         authUser' \in User \cup {NoUser},
         UNCHANGED <<environment, session, reading, shown, steady>>
  PROVE  IndInv'
<1> USE DEF environment, reading
<1>1. TypeOK'
  BY RightsTyped, SessionAssumption DEF IndInv, TypeOK, Begin, Prepared, Label, Num
<1>2. MayReadOn => InGroup /\ curGroup.name \in Group /\ <<curGroup.name, "r">> \in entitled'
  BY AllowedEntitles DEF IndInv, TypeOK, MayReadOn, InGroup, Begin, Flag
<1>3. CommandShape' /\ GroupShape'
  BY <1>2 DEF IndInv, CommandShape, GroupShape, Begin, Prepared
<1>4. RightsKept'
  BY DEF IndInv, RightsKept, Begin, Rights, Granted
<1>5. TargetInGroup' /\ ListedSoFar' /\ CurrentInGroup'
  BY DEF IndInv, TargetInGroup, ListedSoFar, CurrentInGroup, InGroup, InRange, Begin, Prepared
<1>6. ReadsEntitled'
  BY <1>2, AllowedEntitles DEF IndInv, ReadsEntitled, Begin, Prepared, Command, Flag
<1> QED  BY <1>1, <1>3, <1>4, <1>5, <1>6 DEF IndInv

\* A reply may leave an article loaded.
LEMMA EndStep ==
  ASSUME IndInv, Reply, UNCHANGED <<environment, curGroup, left>>,
         session' \in [user : User \cup {NoUser}, groups : SUBSET Group],
         session'.user = NoUser => session'.groups = {},
         authUser' \in User \cup {NoUser},
         shown' \subseteq Num, steady' = {},
         \/ pc # "first" /\ UNCHANGED curArticle
         \/ \E n \in Num : InRange(n) /\ curArticle' = Loaded(n)
  PROVE  IndInv'
<1> USE DEF environment
<1>1. TypeOK'
  BY NoCmdTyped, LoadedTyped, SessionAssumption DEF IndInv, TypeOK, Reply, Label
<1>2. TargetInGroup' /\ CurrentInGroup'
  BY LoadedTyped DEF IndInv, TargetInGroup, CurrentInGroup, InGroup, InRange, Reply
<1>3. CommandShape' /\ GroupShape' /\ RightsKept' /\ ListedSoFar' /\ ReadsEntitled'
  BY DEF IndInv, CommandShape, GroupShape, RightsKept, ListedSoFar, ReadsEntitled, Reply
<1> QED  BY <1>1, <1>2, <1>3 DEF IndInv

\* The common case: nothing but the command ends.
LEMMA PlainEnd ==
  ASSUME IndInv, pc # "first", pc # "list", Reply,
         UNCHANGED <<environment, login, reading, shown, steady, left>>
  PROVE  IndInv'
BY EndStep DEF IndInv, TypeOK, RightsKept, ListedSoFar, environment, login, reading

-----------------------------------------------------------------------------
(* The others.                                                             *)

LEMMA ReloadStep == IndInv /\ Reload => IndInv'
<1> SUFFICES ASSUME IndInv, Reload PROVE IndInv'
  OBVIOUS
<1> USE DEF Reload, Change, login, reading
<1>1. TypeOK'
  BY RightsTyped DEF IndInv, TypeOK
<1>2. CommandShape' /\ GroupShape' /\ TargetInGroup' /\ ListedSoFar' /\ CurrentInGroup'
  BY DEF IndInv, CommandShape, GroupShape, TargetInGroup, ListedSoFar, Listable,
         CurrentInGroup, InGroup, InRange
<1>3. RightsKept' /\ ReadsEntitled'
  BY DEF IndInv, RightsKept, ReadsEntitled, Rights, Granted
<1> QED  BY <1>1, <1>2, <1>3 DEF IndInv

\* An article is added beyond the index, whether or not it can be loaded.
LEMMA AddedTyped ==
  ASSUME IndInv, NEW g \in Group, NEW n, n = info[g].end + 1, n <= Top,
         NEW sound \in {{}, {n}}, Added(g, n, sound)
  PROVE  /\ articles' \in [Group -> SUBSET (1..Top)] /\ loadable' \in [Group -> SUBSET Num]
         /\ \A h \in Group : /\ loadable'[h] \subseteq articles'[h]
                            /\ articles[h] \subseteq articles'[h]
                            /\ loadable[h] \subseteq loadable'[h]
         /\ info' \in [Group -> [start : Num, end : Num, total : Nat]]
         /\ \A h \in Group : info'[h].start <= info'[h].end
<1> USE DEF Added
<1>1. n \in 1..Top /\ n \in Num
  BY SessionAssumption DEF IndInv, TypeOK, Num
<1>2. /\ Extend(info[g], n).start \in Num /\ Extend(info[g], n).end \in Num
      /\ Extend(info[g], n).total \in Nat
      /\ Extend(info[g], n).start <= Extend(info[g], n).end
  BY <1>1, SessionAssumption DEF IndInv, TypeOK, GroupShape, Extend, Num
<1>3. Extend(info[g], n) \in [start : Num, end : Num, total : Nat]
  BY <1>2 DEF IndInv, TypeOK, Extend
<1>4. info' = [info EXCEPT ![g] = Extend(info[g], n)]
  OBVIOUS
<1>5. /\ info' \in [Group -> [start : Num, end : Num, total : Nat]]
      /\ \A h \in Group : info'[h].start <= info'[h].end
  BY <1>2, <1>3, <1>4 DEF IndInv, TypeOK, GroupShape
<1>6. articles' \in [Group -> SUBSET (1..Top)] /\ loadable' \in [Group -> SUBSET Num]
  BY <1>1 DEF IndInv, TypeOK
<1>7. \A h \in Group : /\ loadable'[h] \subseteq articles'[h]
                      /\ articles[h] \subseteq articles'[h]
                      /\ loadable[h] \subseteq loadable'[h]
  BY DEF IndInv, TypeOK
<1> QED  BY <1>5, <1>6, <1>7

LEMMA PostedStep == ASSUME IndInv, NEW g \in Group, Posted(g) PROVE IndInv'
<1> DEFINE n == info[g].end + 1
<1>1. PICK sound \in {{}, {n}} : n <= Top /\ Added(g, n, sound)
  BY DEF Posted
<1>2. /\ articles' \in [Group -> SUBSET (1..Top)] /\ loadable' \in [Group -> SUBSET Num]
      /\ \A h \in Group : /\ loadable'[h] \subseteq articles'[h]
                         /\ articles[h] \subseteq articles'[h]
                         /\ loadable[h] \subseteq loadable'[h]
      /\ info' \in [Group -> [start : Num, end : Num, total : Nat]]
      /\ \A h \in Group : info'[h].start <= info'[h].end
  <2> HIDE DEF n
  <2> QED  BY <1>1, AddedTyped DEF n
<1> HIDE DEF n
<1> USE DEF Posted, Change, login, reading, history
<1>3. TypeOK'
  BY <1>2 DEF IndInv, TypeOK
<1>4. GroupShape'
  BY <1>2 DEF IndInv, GroupShape
<1>5. CommandShape' /\ TargetInGroup' /\ CurrentInGroup' /\ ReadsEntitled'
  BY DEF IndInv, TypeOK, CommandShape, TargetInGroup, CurrentInGroup,
         ReadsEntitled, InGroup, InRange
<1>6. ListedSoFar'
  BY <1>2 DEF IndInv, GroupShape, ListedSoFar, Listable
<1>7. RightsKept'
  BY DEF IndInv, RightsKept, Rights, Granted
<1> QED  BY <1>3, <1>4, <1>5, <1>6, <1>7 DEF IndInv

LEMMA RemovedStep == ASSUME IndInv, NEW g \in Group, NEW n \in Num, Removed(g, n) PROVE IndInv'
<1> USE DEF Removed, Change, login, reading
<1>1. TypeOK'
  BY DEF IndInv, TypeOK
<1>2. CommandShape' /\ GroupShape' /\ TargetInGroup' /\ CurrentInGroup' /\ ReadsEntitled'
  BY DEF IndInv, CommandShape, GroupShape, TargetInGroup, CurrentInGroup, ReadsEntitled,
         InGroup, InRange
<1>3. ListedSoFar'
  BY DEF IndInv, TypeOK, GroupShape, ListedSoFar, Listable
<1>4. RightsKept'
  BY DEF IndInv, RightsKept, Rights, Granted
<1> QED  BY <1>1, <1>2, <1>3, <1>4 DEF IndInv

LEMMA ReindexedStep == ASSUME IndInv, NEW g \in Group, Reindexed(g) PROVE IndInv'
<1> USE DEF Reindexed, login, reading, history
<1>1. PICK i \in Summary(articles[g]) : info' = [info EXCEPT ![g] = i]
  OBVIOUS
<1>2. i \in [start : Num, end : Num, total : Nat] /\ i.start <= i.end
  BY SessionAssumption DEF Summary, Index, IsSummary, Covers, Num
<1>3. TypeOK' /\ GroupShape'
  BY <1>1, <1>2 DEF IndInv, TypeOK, GroupShape
<1>4. CommandShape' /\ TargetInGroup' /\ ListedSoFar' /\ CurrentInGroup' /\ ReadsEntitled'
  BY DEF IndInv, CommandShape, TargetInGroup, ListedSoFar, Listable, CurrentInGroup,
         ReadsEntitled, InGroup, InRange
<1>5. RightsKept'
  BY DEF IndInv, RightsKept, Rights, Granted
<1> QED  BY <1>3, <1>4, <1>5 DEF IndInv

-----------------------------------------------------------------------------
(* Login and selection.                                                    *)

LEMMA LoginStep == IndInv /\ Login => IndInv'
<1> SUFFICES ASSUME IndInv, Login PROVE IndInv'
  OBVIOUS
<1> USE NoCmdTyped, NumIsNat
<1>1. ASSUME NEW u \in User, AuthUser(u) PROVE IndInv'
  BY <1>1, BeginStep DEF AuthUser, Prepared
<1>2. ASSUME NEW p \in Password, AuthPass(p) PROVE IndInv'
  <2>1. authUser \in User \cup {NoUser}
    BY DEF IndInv, TypeOK
  <2>2. [NoCmd EXCEPT !.op = "pass", !.user = authUser] \in Command
    BY <2>1 DEF NoCmd, Command
  <2>3. Prepared("resolve", [NoCmd EXCEPT !.op = "pass", !.user = authUser])
        \/ authUser = NoUser
    BY <2>1, <2>2 DEF Prepared, NoCmd
  <2>4. Prepared("command", NoCmd)
    BY DEF Prepared
  <2> QED  BY <1>2, <2>1, <2>3, <2>4, BeginStep DEF AuthPass
<1>3. CASE AuthSimple
  <2>1. [NoCmd EXCEPT !.op = "simple"] \in Command
    BY DEF NoCmd, Command
  <2>2. Prepared("simple", [NoCmd EXCEPT !.op = "simple"])
    BY <2>1 DEF Prepared, NoCmd
  <2> QED  BY <1>3, <2>2, BeginStep DEF AuthSimple, IndInv, TypeOK, login
<1>4. ASSUME NEW u \in User, NEW p \in Password, SimpleLine(u, p) PROVE IndInv'
  <2>1. CASE ValidateUser(u, p)
    <3> USE <1>4, <2>1 DEF SimpleLine, environment, login, reading
    <3>1. TypeOK'
      BY DEF IndInv, TypeOK, Command, Label
    <3>2. CommandShape' /\ GroupShape' /\ TargetInGroup' /\ ListedSoFar'
          /\ CurrentInGroup' /\ ReadsEntitled'
      BY DEF IndInv, TypeOK, Command, CommandShape, GroupShape, TargetInGroup, ListedSoFar,
             CurrentInGroup, ReadsEntitled, InGroup, InRange
    <3>3. RightsKept'
      BY DEF IndInv, RightsKept, Rights, Granted
    <3> QED  BY <3>1, <3>2, <3>3 DEF IndInv
  <2>2. CASE ~ ValidateUser(u, p)
    BY <1>4, <2>2, PlainEnd DEF SimpleLine
  <2> QED  BY <2>1, <2>2
<1>5. CASE Resolve
  <2>1. cmd.user \in User /\ cmd.user # NoUser
    BY <1>5, SessionAssumption DEF Resolve, IndInv, CommandShape
  <2>2. session' \in [user : User \cup {NoUser}, groups : SUBSET Group]
        /\ session'.user # NoUser /\ authUser' \in User \cup {NoUser}
    BY <1>5, <2>1 DEF Resolve, IndInv, TypeOK
  <2> QED  BY <1>5, <2>2, EndStep DEF Resolve, IndInv, TypeOK, ListedSoFar, reading
<1> QED  BY <1>1, <1>2, <1>3, <1>4, <1>5 DEF Login

LEMMA SelectStep == IndInv /\ Select => IndInv'
<1> SUFFICES ASSUME IndInv, Select PROVE IndInv'
  OBVIOUS
<1>1. ASSUME NEW g \in Group, NEW op \in {"group", "list"}, NEW r \in Request(Num),
             SelectGroup(g, op, r)
      PROVE  IndInv'
  <2> DEFINE c == [NoCmd EXCEPT !.op = op, !.group = g, !.range = r,
                                !.start = info[g].start, !.end = info[g].end]
  <2>1. info[g].start \in Num /\ info[g].end \in Num /\ info[g].start <= info[g].end
    BY DEF IndInv, TypeOK, GroupShape
  <2>2. c \in Command
    BY <2>1, NoCmdTyped DEF NoCmd, Command
  <2>3. Prepared("select", c)
    BY <2>1, <2>2, NumIsNat DEF Prepared, NoCmd
  <2> HIDE DEF c
  <2>4. Begin("select", c) /\ UNCHANGED <<environment, login, reading, shown, steady>>
    BY <1>1 DEF SelectGroup, c
  <2> QED  BY <2>3, <2>4, BeginStep DEF IndInv, TypeOK, login
<1>2. CASE Selected
  <2>1. CASE Allowed(cmd.group, "r")
    <3> USE <1>2, <2>1 DEF Selected, Goto, environment, login, reading
    <3>1. cmd.group \in Group /\ cmd.start \in Num /\ cmd.end \in Num /\ cmd.start <= cmd.end
      BY DEF IndInv, TypeOK, Command, CommandShape
    <3>2. TypeOK'
      BY <3>1 DEF IndInv, TypeOK, Label
    <3>3. CommandShape' /\ GroupShape' /\ TargetInGroup' /\ ListedSoFar' /\ CurrentInGroup'
      BY <3>1 DEF IndInv, TypeOK, CommandShape, GroupShape, TargetInGroup, ListedSoFar,
                  CurrentInGroup
    <3>4. RightsKept'
      BY DEF IndInv, RightsKept, Rights, Granted
    <3>5. <<cmd.group, "r">> \in Rights(store, session)
      BY <3>1, AllowedEntitles DEF Flag
    <3>6. ReadsEntitled'
      BY <3>5 DEF IndInv, RightsKept, ReadsEntitled
    <3> QED  BY <3>2, <3>3, <3>4, <3>6 DEF IndInv
  <2>2. CASE ~ Allowed(cmd.group, "r")
    BY <1>2, <2>2, PlainEnd DEF Selected, reading
  <2> QED  BY <2>1, <2>2
<1>3. CASE FirstArticle
  <2>1. curGroup.start \in Num /\ InRange(curGroup.start) /\ curGroup.name \in Group
    BY <1>3, SessionAssumption
       DEF FirstArticle, IndInv, TypeOK, GroupShape, InRange, Num
  <2>2. CASE cmd.op = "group" /\ Reply
    BY <1>3, <2>1, <2>2, EndStep DEF FirstArticle, IndInv, TypeOK, RightsKept, login, ListedSoFar
  <2>3. CASE Goto("check") /\ UNCHANGED entitled
    <3> USE <1>3, <2>3 DEF FirstArticle, Goto, environment, login
    <3>1. TypeOK'
      BY <2>1, LoadedTyped DEF IndInv, TypeOK, Label
    <3>2. CommandShape' /\ GroupShape' /\ TargetInGroup' /\ ListedSoFar' /\ CurrentInGroup'
          /\ ReadsEntitled'
      BY <2>1, LoadedTyped DEF IndInv, TypeOK, CommandShape, GroupShape, TargetInGroup,
         ListedSoFar, CurrentInGroup, ReadsEntitled, InGroup, InRange
    <3>3. RightsKept'
      BY DEF IndInv, RightsKept, Rights, Granted
    <3> QED  BY <3>1, <3>2, <3>3 DEF IndInv
  <2> QED  BY <1>3, <2>2, <2>3 DEF FirstArticle
<1>4. Ranges \subseteq Request(Num) /\ Whole \in Request(Num)
  BY RangesAssumption DEF Request
<1> QED  BY <1>1, <1>2, <1>3, <1>4 DEF Select

-----------------------------------------------------------------------------
(* Listings, NEXT and LAST.                                                *)

LEMMA ListStep == ASSUME IndInv, NEW op \in ListOp, NEW r \in Request(Num), List(op, r)
                  PROVE  IndInv'
<1> USE DEF List, Begin, environment, login, reading
<1>1. InGroup /\ curGroup.name \in Group /\ <<curGroup.name, "r">> \in Rights(store, session)
  BY AllowedEntitles DEF IndInv, TypeOK, MayReadOn, InGroup, Flag
<1>2. TypeOK'
  BY <1>1, ListingRange, RightsTyped, SessionAssumption DEF IndInv, TypeOK, Label
<1>3. ListedSoFar'
  <2>1. /\ curGroup.start <= Listing(op, r).num /\ Listing(op, r).last <= curGroup.end
        /\ AskedFor(op, r) \subseteq Listable(op) /\ Listing(op, r).op = op
        /\ \A n \in AskedFor(op, r) : n <= Listing(op, r).last /\ ~ (n < Listing(op, r).num)
    <3>1. Listing(op, r).num \in Nat /\ AskedFor(op, r) \subseteq Nat
      BY <1>1, ListingRange, NumIsNat
    <3>2. \A n \in AskedFor(op, r) : Listing(op, r).num <= n
      BY <1>1, ListingRange
    <3>3. \A n \in AskedFor(op, r) : ~ (n < Listing(op, r).num)
      BY <3>1, <3>2
    <3> QED  BY <1>1, <3>3, ListingRange
  <2> QED  BY <2>1 DEF ListedSoFar, Listable
<1>4. CommandShape' /\ GroupShape' /\ TargetInGroup' /\ CurrentInGroup' /\ ReadsEntitled'
  BY <1>1 DEF IndInv, CommandShape, GroupShape, TargetInGroup, CurrentInGroup, ReadsEntitled,
         InGroup, InRange
<1>5. RightsKept'
  BY DEF IndInv, RightsKept, Rights, Granted
<1> QED  BY <1>2, <1>3, <1>4, <1>5 DEF IndInv

LEMMA ListByIdStep == IndInv /\ ListById => IndInv'
<1> SUFFICES ASSUME IndInv, ListById PROVE IndInv'
  OBVIOUS
<1> DEFINE c == [NoCmd EXCEPT !.op = "header"]
<1>1. c \in Command
  BY NoCmdTyped DEF NoCmd, Command
<1>2. Prepared("find", c)
  BY <1>1, NumIsNat DEF Prepared, ListById, NoCmd
<1> HIDE DEF c
<1>3. Begin("find", c) /\ UNCHANGED <<environment, login, reading, shown, steady>>
  BY DEF ListById, c
<1> QED  BY <1>2, <1>3, BeginStep DEF IndInv, TypeOK, login

LEMMA ListSelectedStep == IndInv /\ ListSelected => IndInv'
<1> SUFFICES ASSUME IndInv, ListSelected PROVE IndInv'
  OBVIOUS
<1>1. CASE MayReadOn
  <2> USE <1>1 DEF ListSelected, environment, login, reading
  <2>1. InGroup /\ cmd.range \in Request(Num) /\ "list" \in ListOp
    BY DEF MayReadOn, IndInv, TypeOK, Command, ListOp
  <2>2. TypeOK'
    BY <2>1, ListingRange, SessionAssumption DEF IndInv, TypeOK, Label
  <2>3. ListedSoFar'
    <3> DEFINE c == Listing("list", cmd.range)
    <3>1. /\ curGroup.start <= c.num /\ c.last <= curGroup.end
          /\ AskedFor("list", cmd.range) \subseteq Listable("list") /\ c.op = "list"
          /\ \A n \in AskedFor("list", cmd.range) : n <= c.last /\ ~ (n < c.num)
      <4>1. c.num \in Nat /\ AskedFor("list", cmd.range) \subseteq Nat
        BY <2>1, ListingRange, NumIsNat
      <4>2. \A n \in AskedFor("list", cmd.range) : c.num <= n
        BY <2>1, ListingRange
      <4>3. \A n \in AskedFor("list", cmd.range) : ~ (n < c.num)
        BY <4>1, <4>2
      <4> QED  BY <2>1, <4>3, ListingRange
    <3> QED  BY <3>1 DEF ListedSoFar, Listable
  <2>4. CommandShape' /\ GroupShape' /\ TargetInGroup' /\ CurrentInGroup' /\ ReadsEntitled'
    BY DEF IndInv, CommandShape, GroupShape, TargetInGroup, CurrentInGroup, ReadsEntitled,
           InGroup, InRange
  <2>5. RightsKept'
    BY DEF IndInv, RightsKept, Rights, Granted
  <2> QED  BY <2>2, <2>3, <2>4, <2>5 DEF IndInv
<1>2. CASE ~ MayReadOn
  BY <1>2, PlainEnd DEF ListSelected
<1> QED  BY <1>1, <1>2

LEMMA ListOneStep == IndInv /\ ListOne => IndInv'
<1> SUFFICES ASSUME IndInv, ListOne PROVE IndInv'
  OBVIOUS
<1> USE DEF ListOne, environment, login, reading, history
<1>1. cmd.num \in 0..Top + 1 /\ cmd.last \in 0..Top /\ cmd.num <= cmd.last
  BY DEF IndInv, TypeOK, Command, Num
<1>2. cmd.num + 1 \in 0..Top + 1
  BY <1>1, SessionAssumption
<1>3. cmd' \in Command /\ cmd'.num = cmd.num + 1 /\ cmd'.last = cmd.last /\ cmd'.op = cmd.op
  BY <1>2 DEF IndInv, TypeOK, Command
<1>4. Listable(cmd.op) \subseteq Num /\ curGroup.start \in Num
  BY ListableTyped, SessionAssumption DEF IndInv, TypeOK, GroupShape, InGroup
<1>5. TypeOK'
  BY <1>3, <1>4 DEF IndInv, TypeOK
<1>6. ListedSoFar'
  <2>1. steady \subseteq Listable(cmd.op) /\ steady \subseteq Nat
    BY <1>4, NumIsNat DEF IndInv, ListedSoFar
  <2>2. curGroup.start <= cmd.num + 1 /\ cmd.last <= curGroup.end
    BY <1>1, <1>4, SessionAssumption DEF IndInv, ListedSoFar, Num
  <2>3. \A n \in steady : n < cmd.num + 1 => n < cmd.num \/ n = cmd.num
    BY <1>1, <2>1
  <2>4. \A n \in steady : n <= cmd.last /\ (n < cmd.num + 1 => n \in shown')
    BY <2>1, <2>3 DEF IndInv, ListedSoFar
  <2> QED  BY <1>3, <2>1, <2>2, <2>4 DEF ListedSoFar, Listable
<1>7. CommandShape' /\ GroupShape' /\ TargetInGroup' /\ CurrentInGroup' /\ ReadsEntitled'
  BY DEF IndInv, CommandShape, GroupShape, TargetInGroup, CurrentInGroup, ReadsEntitled,
         InGroup, InRange
<1>8. RightsKept'
  BY DEF IndInv, RightsKept, Rights, Granted
<1> QED  BY <1>5, <1>6, <1>7, <1>8 DEF IndInv

\* The articles that NEXT and LAST go to.
LEMMA MoveStep ==
  ASSUME IndInv, NEW n \in Num, InRange(n), Step(n)
  PROVE  IndInv'
<1> DEFINE c == [NoCmd EXCEPT !.op = "step", !.num = n]
<1>1. c \in Command
  BY NumIsNat, NoCmdTyped DEF NoCmd, Command
<1>2. Prepared("step", c)
  BY <1>1 DEF Prepared, Step, NoCmd
<1> HIDE DEF c
<1>3. Begin("step", c) /\ UNCHANGED <<environment, login, reading, shown, steady>>
  BY DEF Step, c
<1> QED  BY <1>2, <1>3, BeginStep DEF IndInv, TypeOK, login

LEMMA BrowseStep == IndInv /\ Browse => IndInv'
<1> SUFFICES ASSUME IndInv, Browse PROVE IndInv'
  OBVIOUS
<1>1. CASE ListEnd
  BY <1>1, EndStep DEF ListEnd, IndInv, TypeOK, RightsKept, login, ListedSoFar, reading
<1>2. CASE NextArticle
  <2>1. curArticle.num + 1 \in Num /\ InRange(curArticle.num + 1)
    BY <1>2, SessionAssumption DEF NextArticle, IndInv, TypeOK, InRange, Num
  <2> QED  BY <1>2, <2>1, MoveStep DEF NextArticle
<1>3. CASE LastArticle
  <2>1. InRange(curArticle.num)
    BY <1>3 DEF LastArticle, Step, MayReadOn, Begin, IndInv, TargetInGroup
  <2>2. curArticle.num - 1 \in Num /\ InRange(curArticle.num - 1)
    BY <1>3, <2>1, SessionAssumption DEF LastArticle, IndInv, TypeOK, InRange, Num
  <2> QED  BY <1>3, <2>2, MoveStep DEF LastArticle
<1>4. CASE StepLoad
  <2>1. cmd.num \in Num /\ InRange(cmd.num)
    BY <1>4, SessionAssumption DEF StepLoad, IndInv, TypeOK, Command, TargetInGroup, Num
  <2> QED  BY <1>4, <2>1, EndStep DEF StepLoad, IndInv, TypeOK, RightsKept, login, ListedSoFar
<1> QED  BY <1>1, <1>2, <1>3, <1>4, RangesAssumption, ListStep, ListByIdStep, ListSelectedStep, ListOneStep
     DEF Browse, ListOp

-----------------------------------------------------------------------------
(* Retrieval.                                                              *)

LEMMA RetrieveStep == ASSUME IndInv, NEW n \in Num, NEW back \in BOOLEAN, Retrieve(n, back)
                      PROVE  IndInv'
<1> DEFINE c == [NoCmd EXCEPT !.op = "article", !.num = n, !.back = back,
                              !.last = curArticle.num]
<1>1. curArticle.num \in Num /\ InRange(curArticle.num)
  BY DEF Retrieve, MayReadOn, Begin, IndInv, TypeOK, TargetInGroup
<1>2. c \in Command
  BY <1>1, NumIsNat, NoCmdTyped DEF NoCmd, Command
<1>3. Prepared("load", c)
  BY <1>1, <1>2 DEF Prepared, Retrieve, NoCmd
<1> HIDE DEF c
<1>4. Begin("load", c) /\ UNCHANGED <<environment, login, reading, shown, steady>>
  BY DEF Retrieve, c
<1> QED  BY <1>3, <1>4, BeginStep DEF IndInv, TypeOK, login

LEMMA RetrieveByIdStep == IndInv /\ RetrieveById => IndInv'
<1> SUFFICES ASSUME IndInv, RetrieveById PROVE IndInv'
  OBVIOUS
<1> DEFINE c == [NoCmd EXCEPT !.op = "article", !.back = TRUE, !.last = curArticle.num]
<1>1. curArticle.num \in Num /\ InRange(curArticle.num)
  BY DEF RetrieveById, MayReadOn, Begin, IndInv, TypeOK, TargetInGroup
<1>2. c \in Command
  BY <1>1, NoCmdTyped DEF NoCmd, Command
<1>3. Prepared("find", c)
  BY <1>1, <1>2, NumIsNat DEF Prepared, RetrieveById, NoCmd
<1> HIDE DEF c
<1>4. Begin("find", c) /\ UNCHANGED <<environment, login, reading, shown, steady>>
  BY DEF RetrieveById, c
<1> QED  BY <1>3, <1>4, BeginStep DEF IndInv, TypeOK, login

LEMMA FindStep == IndInv /\ Find => IndInv'
<1> SUFFICES ASSUME IndInv, Find PROVE IndInv'
  OBVIOUS
<1>1. pc = "find" /\ curGroup.name \in Group
  BY DEF Find, IndInv, GroupShape
<1>2. ASSUME NEW n \in articles[curGroup.name], InRange(n), UNCHANGED entitled,
             \/ pc' = "load" /\ cmd' = [cmd EXCEPT !.num = n]
             \/ pc' = "list" /\ cmd' = [cmd EXCEPT !.num = n, !.last = n]
      PROVE  IndInv'
  <2>1. n \in Num /\ n \in 0..Top + 1 /\ n # Top + 1
    <3>1. articles[curGroup.name] \subseteq 1..Top
      BY <1>1 DEF IndInv, TypeOK
    <3> QED  BY <3>1, SessionAssumption DEF Num
  <2>2. /\ cmd' \in Command /\ cmd'.num = n /\ cmd'.back = cmd.back
        /\ \/ pc' = "load" /\ cmd'.last = cmd.last
           \/ pc' = "list" /\ cmd'.last = n
    <3>1. CASE pc' = "load" /\ cmd' = [cmd EXCEPT !.num = n]
      BY <2>1, <3>1 DEF IndInv, TypeOK, Command
    <3>2. CASE pc' = "list" /\ cmd' = [cmd EXCEPT !.num = n, !.last = n]
      BY <2>1, <3>2 DEF IndInv, TypeOK, Command
    <3> QED  BY <1>2, <3>1, <3>2
  <2> USE <1>1, <1>2 DEF Find, environment, login, reading
  <2>3. TypeOK'
    BY <2>1, <2>2 DEF IndInv, TypeOK, Label
  <2>4. CommandShape' /\ GroupShape' /\ TargetInGroup' /\ CurrentInGroup' /\ ReadsEntitled'
    BY <2>2 DEF IndInv, CommandShape, GroupShape, TargetInGroup,
                CurrentInGroup, ReadsEntitled, InGroup, InRange
  <2>5. ListedSoFar'
    BY <2>2 DEF IndInv, ListedSoFar, InRange
  <2>6. RightsKept'
    BY DEF IndInv, RightsKept, Rights, Granted
  <2> QED  BY <2>3, <2>4, <2>5, <2>6 DEF IndInv
<1>3. CASE Reply
  BY <1>1, <1>3, PlainEnd DEF Find
<1>4. CASE UNCHANGED <<pc, cmd, entitled>>
  BY <1>4 DEF Find, environment, login, reading, IndInv, TypeOK, CommandShape, GroupShape,
     RightsKept, Rights, Granted, TargetInGroup, ListedSoFar, Listable, CurrentInGroup,
     ReadsEntitled, InGroup, InRange
<1> QED  BY <1>2, <1>3, <1>4 DEF Find

LEMMA LoadArticleStep == IndInv /\ LoadArticle => IndInv'
<1> SUFFICES ASSUME IndInv, LoadArticle PROVE IndInv'
  OBVIOUS
<1>1. cmd.num \in Num /\ InRange(cmd.num)
  BY SessionAssumption DEF LoadArticle, IndInv, TypeOK, Command, TargetInGroup, Num
<1>2. CASE Loaded(cmd.num).valid
  <2> USE <1>2 DEF LoadArticle, Goto, environment, login
  <2>1. TypeOK'
    BY <1>1, LoadedTyped DEF IndInv, TypeOK, Label
  <2>2. CommandShape' /\ GroupShape' /\ TargetInGroup' /\ ListedSoFar' /\ CurrentInGroup'
        /\ ReadsEntitled'
    BY <1>1, LoadedTyped DEF IndInv, CommandShape, GroupShape, TargetInGroup, ListedSoFar,
       CurrentInGroup, ReadsEntitled, InGroup, InRange
  <2>3. RightsKept'
    BY DEF IndInv, RightsKept, Rights, Granted
  <2> QED  BY <2>1, <2>2, <2>3 DEF IndInv
<1>3. CASE ~ Loaded(cmd.num).valid
  BY <1>1, <1>3, EndStep DEF LoadArticle, IndInv, TypeOK, RightsKept, login, ListedSoFar
<1> QED  BY <1>2, <1>3

LEMMA SendArticleStep == IndInv /\ SendArticle => IndInv'
<1> SUFFICES ASSUME IndInv, SendArticle PROVE IndInv'
  OBVIOUS
<1>1. CASE cmd.back
  <2> USE <1>1 DEF SendArticle, Goto, environment, login, reading
  <2>1. TypeOK'
    BY DEF IndInv, TypeOK, Label
  <2>2. CommandShape' /\ GroupShape' /\ TargetInGroup' /\ ListedSoFar' /\ CurrentInGroup'
        /\ ReadsEntitled'
    BY DEF IndInv, CommandShape, GroupShape, TargetInGroup, ListedSoFar, CurrentInGroup,
           ReadsEntitled, InGroup, InRange
  <2>3. RightsKept'
    BY DEF IndInv, RightsKept, Rights, Granted
  <2> QED  BY <2>1, <2>2, <2>3 DEF IndInv
<1>2. CASE ~ cmd.back
  BY <1>2, PlainEnd DEF SendArticle
<1> QED  BY <1>1, <1>2

LEMMA GetStep == IndInv /\ Get => IndInv'
<1> SUFFICES ASSUME IndInv, Get PROVE IndInv'
  OBVIOUS
<1>1. CASE RetrieveCurrent
  BY <1>1, RetrieveStep DEF RetrieveCurrent, IndInv, TypeOK
<1>2. ASSUME NEW n \in Num, RetrieveNumber(n) PROVE IndInv'
  BY <1>2, RetrieveStep DEF RetrieveNumber
<1>3. CASE Restore
  <2>1. cmd.last \in Num /\ InRange(cmd.last)
    BY <1>3 DEF Restore, IndInv, TypeOK, Command, TargetInGroup
  <2> QED  BY <1>3, <2>1, EndStep DEF Restore, IndInv, TypeOK, RightsKept, login, ListedSoFar
<1> QED
  BY <1>1, <1>2, <1>3, RetrieveByIdStep, FindStep, LoadArticleStep, SendArticleStep DEF Get

-----------------------------------------------------------------------------
(* Lists of groups, and POST.                                              *)

LEMMA GroupsStep == IndInv /\ (ListGroups \/ SendGroup \/ GroupsEnd) => IndInv'
<1> SUFFICES ASSUME IndInv, ListGroups \/ SendGroup \/ GroupsEnd PROVE IndInv'
  OBVIOUS
<1>1. CASE ListGroups
  <2>0. PICK pattern \in Strings :
          Begin("groups", [NoCmd EXCEPT !.op = "groups", !.todo = Listed(pattern)])
    BY <1>1 DEF ListGroups
  <2> DEFINE c == [NoCmd EXCEPT !.op = "groups", !.todo = Listed(pattern)]
  <2>1. c \in Command
    BY NoCmdTyped DEF NoCmd, Command, Listed
  <2>2. Prepared("groups", c)
    BY <2>1, NumIsNat DEF Prepared, NoCmd, Listed
  <2>3. Begin("groups", c) /\ UNCHANGED <<environment, login, reading, shown, steady>>
    BY <1>1, <2>0 DEF ListGroups
  <2> HIDE DEF c
  <2> QED  BY <2>2, <2>3, BeginStep DEF IndInv, TypeOK, login
<1>2. CASE SendGroup
  <2> USE <1>2 DEF SendGroup, environment, login, reading, history
  <2>1. PICK g \in cmd.todo : cmd' = [cmd EXCEPT !.todo = cmd.todo \ {g}]
    OBVIOUS
  <2>2. cmd' \in Command /\ cmd'.todo \subseteq cmd.todo /\ cmd'.num = cmd.num
    BY <2>1 DEF IndInv, TypeOK, Command
  <2>3. TypeOK'
    BY <2>2 DEF IndInv, TypeOK
  <2>4. CommandShape' /\ GroupShape' /\ TargetInGroup' /\ ListedSoFar' /\ CurrentInGroup'
        /\ ReadsEntitled'
    BY <2>2 DEF IndInv, CommandShape, GroupShape, TargetInGroup, ListedSoFar, CurrentInGroup,
                ReadsEntitled, InGroup, InRange
  <2>5. RightsKept'
    BY DEF IndInv, RightsKept, Rights, Granted
  <2> QED  BY <2>3, <2>4, <2>5 DEF IndInv
<1>3. CASE GroupsEnd
  BY <1>3, PlainEnd DEF GroupsEnd
<1> QED  BY <1>1, <1>2, <1>3

LEMMA BodyReadStep ==
  ASSUME IndInv, NEW g \in Group, NEW from \in User \cup {NoUser}, BodyRead(g, from)
  PROVE  IndInv'
<1> USE DEF BodyRead, environment, login, reading
<1>1. cmd' \in Command /\ cmd'.group = g /\ cmd'.num = cmd.num
  BY DEF IndInv, TypeOK, Command
<1>2. TypeOK'
  BY <1>1, RightsTyped DEF IndInv, TypeOK, Label
<1>3. CommandShape' /\ GroupShape' /\ TargetInGroup' /\ ListedSoFar' /\ CurrentInGroup'
      /\ ReadsEntitled'
  BY <1>1 DEF IndInv, CommandShape, GroupShape, TargetInGroup, ListedSoFar, CurrentInGroup,
              ReadsEntitled, InGroup, InRange
<1>4. RightsKept'
  BY DEF IndInv, RightsKept, Rights, Granted
<1> QED  BY <1>2, <1>3, <1>4 DEF IndInv

LEMMA PostCheckStep == IndInv /\ PostCheck => IndInv'
<1> SUFFICES ASSUME IndInv, PostCheck PROVE IndInv'
  OBVIOUS
<1>1. CASE Allowed(cmd.group, "w") /\ FromMatches
  <2> USE <1>1 DEF PostCheck, Goto, environment, login, reading
  <2>1. cmd.group \in Group
    BY DEF IndInv, CommandShape
  <2>2. <<cmd.group, "w">> \in Rights(store, session)
    BY <2>1, AllowedEntitles DEF Flag
  <2>3. TypeOK'
    BY DEF IndInv, TypeOK, Label
  <2>4. CommandShape' /\ GroupShape' /\ TargetInGroup' /\ ListedSoFar' /\ CurrentInGroup'
        /\ ReadsEntitled'
    BY <2>1, <2>2 DEF IndInv, CommandShape, GroupShape, RightsKept, TargetInGroup, ListedSoFar,
                      CurrentInGroup, ReadsEntitled, InGroup, InRange
  <2>5. RightsKept'
    BY DEF IndInv, RightsKept, Rights, Granted
  <2> QED  BY <2>3, <2>4, <2>5 DEF IndInv
<1>2. CASE ~ (Allowed(cmd.group, "w") /\ FromMatches)
  BY <1>2, PlainEnd DEF PostCheck
<1> QED  BY <1>1, <1>2

LEMMA PostArticleStep == IndInv /\ PostArticle => IndInv'
<1> SUFFICES ASSUME IndInv, PostArticle PROVE IndInv'
  OBVIOUS
<1> DEFINE g == cmd.group  n == info[g].end + 1
<1>1. g \in Group /\ pc = "post"
  BY DEF PostArticle, IndInv, CommandShape
<1>2. CASE UNCHANGED <<articles, loadable, info>>
  BY <1>1, <1>2, PlainEnd DEF PostArticle, environment
<1>3. ASSUME n <= Top, NEW sound \in {{}, {n}}, Added(g, n, sound) PROVE IndInv'
  <2>1. /\ articles' \in [Group -> SUBSET (1..Top)] /\ loadable' \in [Group -> SUBSET Num]
        /\ \A h \in Group : loadable'[h] \subseteq articles'[h]
        /\ info' \in [Group -> [start : Num, end : Num, total : Nat]]
        /\ \A h \in Group : info'[h].start <= info'[h].end
    <3> HIDE DEF n, g
    <3> QED  BY <1>1, <1>3, AddedTyped DEF n
  <2> HIDE DEF n, g
  <2> USE <1>1 DEF PostArticle, Reply, login, reading
  <2>2. TypeOK'
    BY <2>1, NoCmdTyped, SessionAssumption DEF IndInv, TypeOK, Label
  <2>3. GroupShape'
    BY <2>1 DEF IndInv, GroupShape
  <2>4. CommandShape' /\ RightsKept' /\ TargetInGroup' /\ ListedSoFar' /\ CurrentInGroup'
        /\ ReadsEntitled'
    BY DEF IndInv, CommandShape, RightsKept, TargetInGroup, ListedSoFar, CurrentInGroup,
           ReadsEntitled, InGroup, InRange
  <2> QED  BY <2>2, <2>3, <2>4 DEF IndInv
<1> QED  BY <1>2, <1>3 DEF PostArticle

LEMMA SubmitStep == IndInv /\ Submit => IndInv'
<1> SUFFICES ASSUME IndInv, Submit PROVE IndInv'
  OBVIOUS
<1>1. CASE Post
  <2> DEFINE c == [NoCmd EXCEPT !.op = "post"]
  <2>1. Prepared("body", c)
    BY NoCmdTyped, NumIsNat DEF NoCmd, Command, Prepared
  <2> HIDE DEF c
  <2>2. Begin("body", c) /\ UNCHANGED <<environment, login, reading, shown, steady>>
    BY <1>1 DEF Post, c
  <2> QED  BY <2>1, <2>2, BeginStep DEF IndInv, TypeOK, login
<1> QED  BY <1>1, BodyReadStep, PostCheckStep, PostArticleStep DEF Submit

-----------------------------------------------------------------------------
(* Theorems.                                                               *)

\* The inductive invariant.
THEOREM Inductive == Spec => []IndInv
<1>1. Init => IndInv
  <2> SUFFICES ASSUME Init PROVE IndInv
    OBVIOUS
  <2> USE DEF Init, NobodyYet
  <2>1. \A g \in Group : info[g] \in [start : Num, end : Num, total : Nat]
                         /\ info[g].start <= info[g].end
    BY SessionAssumption DEF Summary, Index, IsSummary, Covers, Num
  <2>2. TypeOK
    BY <2>1, NoCmdTyped, NumIsNat, SessionAssumption DEF TypeOK, Label, Index
  <2>3. CommandShape /\ GroupShape /\ RightsKept /\ TargetInGroup /\ ListedSoFar
        /\ CurrentInGroup /\ ReadsEntitled
    BY <2>1 DEF CommandShape, GroupShape, RightsKept, TargetInGroup, ListedSoFar,
                CurrentInGroup, ReadsEntitled, InGroup
  <2> QED  BY <2>2, <2>3 DEF IndInv
<1>2. IndInv /\ [Next]_vars => IndInv'
  <2> SUFFICES ASSUME IndInv, [Next]_vars PROVE IndInv'
    OBVIOUS
  <2>1. CASE UNCHANGED vars
    BY <2>1 DEF vars, environment, login, reading, history, IndInv, TypeOK, CommandShape,
       GroupShape, RightsKept, Rights, Granted, TargetInGroup, ListedSoFar, Listable,
       CurrentInGroup, ReadsEntitled, InGroup, InRange
  <2>2. CASE Others
    BY <2>2, ReloadStep, PostedStep, ReindexedStep, RemovedStep DEF Others
  <2> QED
    BY <2>1, <2>2, LoginStep, SelectStep, BrowseStep, GetStep, GroupsStep, SubmitStep
       DEF Next, Quiet
<1> QED  BY <1>1, <1>2, PTL DEF Spec

\* Type correctness; the numbers that a connection works with are bounded by
\* those there are.
THEOREM TypeCorrect == Spec => []TypeOK
<1>1. IndInv => TypeOK
  BY DEF IndInv
<1> QED  BY <1>1, Inductive, PTL

\* Nothing is sent that no row of its group granted since the command, whenever the
\* store is replaced (canRead; auth.mode has no part in it).
THEOREM OnlyEntitledRead == Spec => []ReadsEntitled
<1>1. IndInv => ReadsEntitled
  BY DEF IndInv
<1> QED  BY <1>1, Inductive, PTL

\* Nothing is stored that no row of its group granted after the body had come
\* (canPost).
THEOREM OnlyEntitledPost == Spec => []PostsEntitled
<1>1. IndInv => PostsEntitled
  BY DEF IndInv, CommandShape, PostsEntitled
<1> QED  BY <1>1, Inductive, PTL

\* The current article is in the current group.
THEOREM CurrentStaysInGroup == Spec => []CurrentInGroup
<1>1. IndInv => CurrentInGroup
  BY DEF IndInv
<1> QED  BY <1>1, Inductive, PTL

\* LISTGROUP sends every article that stays, and OVER every one that stays and can be
\* loaded, whatever is posted and cancelled meanwhile.
THEOREM ListingsComplete == Spec => []ListingComplete
<1>1. IndInv => ListingComplete
  <2> SUFFICES ASSUME IndInv PROVE ListingComplete
    OBVIOUS
  <2>1. ASSUME pc = "list", cmd.num > cmd.last, NEW n \in steady PROVE n \in shown
    <3>1. n <= cmd.last /\ (n < cmd.num => n \in shown) /\ n \in Num
      BY <2>1 DEF IndInv, TypeOK, ListedSoFar
    <3>2. cmd.num \in 0..Top + 1 /\ cmd.last \in Num
      BY DEF IndInv, TypeOK, Command
    <3>3. cmd.num \in Nat
      BY <3>2
    <3>4. cmd.last \in Nat /\ n \in Nat
      BY <3>1, <3>2, NumIsNat
    <3> QED  BY <2>1, <3>1, <3>3, <3>4
  <2> QED  BY <2>1 DEF IndInv, ListedSoFar, ListingComplete
<1> QED  BY <1>1, Inductive, PTL

\* LIST and NEWNEWS go through the groups that the session is granted to read and
\* whose name the pattern means, and no others, whatever the store has become.
THEOREM ListsAsMeant == Spec => []ListedAsMeant
<1>1. IndInv => ListedAsMeant
  <2> SUFFICES ASSUME IndInv, NEW pattern \in Strings, NEW g \in Group
               PROVE  g \in Listed(pattern) <=> /\ "r" \in Granted(store, session, g)
                                                /\ <<pattern, g>> \in Meant
    BY DEF ListedAsMeant, Listed
  <2>1. Allowed(g, "r") <=> "r" \in Granted(store, session, g)
    BY SessionAssumption
       DEF IndInv, TypeOK, RightsKept, Allowed, UserInGroup, Granted, Flag
  <2>2. <<pattern, g>> \in Matches <=> <<pattern, g>> \in Meant
    <3>1. g \in Strings
      BY SessionAssumption
    <3>2. DoWildmat(pattern, g) <=> Means(pattern, g)
      BY <3>1, WildmatMeans
    <3> QED  BY <3>2 DEF Matches, Meant
  <2> QED  BY <2>1, <2>2 DEF Listed
<1> QED  BY <1>1, Inductive, PTL

=============================================================================
