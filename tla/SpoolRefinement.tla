-------------------------- MODULE SpoolRefinement --------------------------
(***************************************************************************)
(* Spool, without exits and failing file operations, implements            *)
(* ArticleStore.                                                           *)
(***************************************************************************)
EXTENDS Spool

\* A new index counts from the moment .info is truncated for it: from then on
\* nobody can take the lock and read it before it is complete.
CurrentIndex ==
  IF exLock # Nobody /\ pc[exLock] = "save" THEN grp[exLock] ELSE info

\* Posts between the creation of their file and the new index, and cancels
\* between the removal and the new index.
Pending ==
  {p \in Proc : \/ pc[p] \in {"write", "trunc"}
                \/ ret[p] = "cancelled" /\ pc[p] \in {"buildlock", "scan", "stat"}}

Store == INSTANCE ArticleStore
           WITH Actor <- Proc, Number <- Num, NoIndex <- Missing,
                store <- Present, index <- CurrentIndex, pending <- Pending

\* Posts, cancels and rebuilds of any number of processes amount to single
\* additions to and removals from one store and single replacements of its
\* index: group.go keeps the promise of ArticleStore.
ImplementsArticleStore == Store!Spec

=============================================================================
