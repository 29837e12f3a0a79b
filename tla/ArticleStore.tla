---------------------------- MODULE ArticleStore ----------------------------
(***************************************************************************)
(* What a newsgroup promises the commands that use it: a set of numbered   *)
(* articles, and an index that never hides an indexed article and is exact *)
(* whenever every change has been indexed.  Each change of the store makes *)
(* its author pending until that author has reindexed.                     *)
(***************************************************************************)
EXTENDS GroupInfo

CONSTANTS Actor, Number, NoIndex

VARIABLES store, index, pending

vars == <<store, index, pending>>

Init ==
  /\ store \subseteq Number
  /\ index = NoIndex \/ IsSummary(index, store)
  /\ pending = {}

\* A number is given only to an article that has it for itself, and beyond the
\* index, so that nobody looks for the article before it is complete.
Add(a, n) ==
  /\ n \notin store
  /\ index # NoIndex /\ n > index.end
  /\ store' = store \cup {n}
  /\ pending' = pending \cup {a}
  /\ UNCHANGED index

Remove(a, n) ==
  /\ n \in store
  /\ store' = store \ {n}
  /\ pending' = pending \cup {a}
  /\ UNCHANGED index

\* The index is replaced in one step.
Reindex(a) ==
  /\ pending' = pending \ {a}
  /\ index' # NoIndex
  /\ Covers(index', store)
  /\ pending' = {} => IsSummary(index', store)
  /\ UNCHANGED store

Next ==
  \E a \in Actor :
    \/ \E n \in Number : Add(a, n) \/ Remove(a, n)
    \/ Reindex(a)

Spec == Init /\ [][Next]_vars

=============================================================================
