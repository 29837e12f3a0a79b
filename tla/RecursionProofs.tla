--------------------------- MODULE RecursionProofs ---------------------------
(***************************************************************************)
(* Induction over the naturals, as over the length of a pattern in          *)
(* doWildmat, and the values of a function that is defined along a         *)
(* sequence (after[i] from after[i - 1]), as the loops of ParseArticle,    *)
(* countPostLines and SendArticle are modelled.                            *)
(*                                                                         *)
(* The induction is stated for sets, so that a proof by induction applies  *)
(* it to {n \in Nat : ...}; it follows from the least element of the       *)
(* counterexamples.                                                        *)
(***************************************************************************)
EXTENDS Integers, WellFoundedInduction, TLAPS

\* Every nonempty set of naturals has a least element.
LEMMA LeastElement ==
  ASSUME NEW T \in SUBSET Nat, T # {}
  PROVE  \E x \in T : \A y \in T : x <= y
<1>1. IsWellFoundedOn(OpToRel(<, Nat), Nat)
  BY NatLessThanWellFounded
<1>2. PICK x \in T : \A y \in T : ~ (<<y, x>> \in OpToRel(<, Nat))
  BY <1>1, WFMin
<1>3. \A y \in T : ~ (y < x)
  <2>1. SUFFICES ASSUME NEW y \in T, y < x PROVE FALSE
    OBVIOUS
  <2>2. <<y, x>> \in OpToRel(<, Nat)
    BY <2>1 DEF OpToRel
  <2> QED  BY <1>2, <2>2
<1>4. \A y \in T : x <= y
  BY <1>3
<1> QED  BY <1>4

\* A set of naturals with 0 and every successor has all of them.
THEOREM Induction ==
  ASSUME NEW S \in SUBSET Nat, 0 \in S, \A n \in S : n + 1 \in S
  PROVE  S = Nat
<1> SUFFICES ASSUME Nat \ S # {} PROVE FALSE
  OBVIOUS
<1>1. PICK m \in Nat \ S : \A y \in Nat \ S : m <= y
  BY LeastElement
<1>2. m # 0 /\ m - 1 \in Nat
  BY <1>1
<1>3. m - 1 \in S
  BY <1>1, <1>2
<1>4. (m - 1) + 1 \in S
  BY <1>3
<1> QED  BY <1>1, <1>2, <1>4

\* A first value and the step to each next one, of values in A...
Steps(A, first, n, step) ==
  first \in A /\ n \in Nat /\ step \in [A \X (1..n) -> A]

\* ... and all of them.
Values(g, A, first, n, step) ==
  /\ g \in [0..n -> A] /\ g[0] = first
  /\ \A i \in 1..n : g[i] = step[<<g[i - 1], i>>]

\* A first value and a step give the values of a function up to any number.
THEOREM ValuesExist ==
  ASSUME NEW A, NEW first, NEW n, NEW step, Steps(A, first, n, step)
  PROVE  \E g : Values(g, A, first, n, step)
<1> USE DEF Steps, Values
<1> DEFINE Upto(m) == \E g \in [0..m -> A] :
                        g[0] = first /\ \A i \in 1..m : g[i] = step[<<g[i - 1], i>>]
           S == {m \in Nat : m <= n => Upto(m)}
<1>1. 0 \in S
  <2> DEFINE g == [i \in 0..0 |-> first]
  <2>1. g \in [0..0 -> A] /\ g[0] = first
    OBVIOUS
  <2>2. \A i \in 1..0 : g[i] = step[<<g[i - 1], i>>]
    OBVIOUS
  <2> HIDE DEF g
  <2>3. Upto(0)
    BY <2>1, <2>2
  <2> QED  BY <2>3
<1>2. \A m \in S : m + 1 \in S
  <2> SUFFICES ASSUME NEW m \in S, m + 1 <= n PROVE Upto(m + 1)
    OBVIOUS
  <2>1. m \in Nat /\ Upto(m)
    OBVIOUS
  <2>2. PICK g \in [0..m -> A] :
          g[0] = first /\ \A i \in 1..m : g[i] = step[<<g[i - 1], i>>]
    BY <2>1
  <2> DEFINE h == [i \in 0..(m + 1) |-> IF i = m + 1 THEN step[<<g[m], m + 1>>] ELSE g[i]]
  <2>3. step[<<g[m], m + 1>>] \in A
    BY <2>1, <2>2
  <2>4. h \in [0..(m + 1) -> A]
    BY <2>1, <2>3
  <2>5. h[0] = first
    BY <2>1, <2>2
  <2>6. ASSUME NEW i \in 1..(m + 1)
        PROVE  h[i] = step[<<h[i - 1], i>>]
    <3>1. CASE i = m + 1
      <4>1. h[m + 1] = step[<<g[m], m + 1>>] /\ h[m] = g[m] /\ i - 1 = m
        BY <3>1, <2>1
      <4> QED  BY <4>1, <3>1
    <3>2. CASE i # m + 1
      <4>1. i \in 1..m /\ i - 1 \in 0..m /\ i \in 0..m
        BY <3>2, <2>1
      <4>2. h[i] = g[i] /\ h[i - 1] = g[i - 1]
        BY <4>1, <2>1
      <4> QED  BY <4>1, <4>2, <2>2
    <3> QED  BY <3>1, <3>2
  <2> HIDE DEF h
  <2> QED  BY <2>4, <2>5, <2>6
<1>3. S = Nat
  <2> HIDE DEF Upto
  <2>1. S \in SUBSET Nat
    OBVIOUS
  <2> HIDE DEF S
  <2> QED  BY <1>1, <1>2, <2>1, Induction
<1>4. Upto(n)
  <2>1. n \in S
    BY <1>3
  <2> QED  BY <2>1
<1> QED  BY <1>4

=============================================================================
