------------------------------ MODULE MCSpool ------------------------------
(***************************************************************************)
(* Instances of Spool for TLC.                                             *)
(***************************************************************************)
EXTENDS SpoolRefinement, SpoolInductive, TLC

CONSTANTS h1, h2, g1, a1, a2, m1

MCHandler == {h1, h2}
OneHandler == {h1}
MCGateway == {g1}
NoGateway == {}
OneAuthor == {a1}
TwoAuthors == {a1, a2}
MCClientId == {m1}
NoClientId == {}

EmptyGroup == << >>
OneArticle == 1 :> [id |-> 1, from |-> a1, whole |-> TRUE]
\* A group with a gap: 2 was cancelled earlier.
GappedGroup == 1 :> [id |-> 1, from |-> a1, whole |-> TRUE]
            @@ 3 :> [id |-> 3, from |-> a1, whole |-> TRUE]

=============================================================================
