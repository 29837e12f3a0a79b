---------------------------- MODULE SpoolProofs ----------------------------
(***************************************************************************)
(* What the operators of GroupInfo preserve, for every set of article      *)
(* numbers; then the parts of the inductive invariant of Spool that hold   *)
(* whatever fails: types, the lock, the return labels, the commands, the   *)
(* numbers.  One lemma per action, one step per part; then type            *)
(* correctness and mutual exclusion.                                       *)
(*                                                                         *)
(* Then: the index of a group is exact, covers every article and never     *)
(* publishes an incomplete one; complete articles are never overwritten; a *)
(* rebuild covers every article whatever failed before.  As long as        *)
(* nothing fails, every step is a step of ArticleStore or leaves it alone: *)
(* an article file appears or disappears, or the index is replaced at the  *)
(* moment .info is truncated for the new one.                              *)
(***************************************************************************)
EXTENDS SpoolInductive, SpoolRefinement, FiniteSetTheorems, TLAPS

-----------------------------------------------------------------------------
(* The index.                                                              *)

AnyInfo == [start : Nat, end : Nat, total : Nat]

\* The zeros with which BuildInfo starts describe the empty directory.
LEMMA ZeroInfoEmpty == IsSummary(ZeroInfo, {})
BY FS_EmptySet DEF IsSummary, Covers, ZeroInfo

\* One more article in the scan of BuildInfo keeps Start, End and Total exact.
THEOREM CountExact ==
  ASSUME NEW S \in SUBSET Nat, IsFiniteSet(S), NEW n \in Nat, n \notin S,
         NEW i \in AnyInfo, IsSummary(i, S)
  PROVE  IsSummary(Count(i, n), S \cup {n})
<1>1. Cardinality(S \cup {n}) = Cardinality(S) + 1 /\ Cardinality(S) \in Nat
  BY FS_AddElement, FS_CardinalityType
<1>2. i.total = 0 <=> S = {}
  BY FS_EmptySet DEF IsSummary
<1>3. Covers(Count(i, n), S \cup {n})
  BY <1>2 DEF IsSummary, Covers, Count, AnyInfo
<1>4. Count(i, n).start \in S \cup {n} /\ Count(i, n).end \in S \cup {n}
  BY <1>2 DEF IsSummary, Count, AnyInfo
<1>5. Count(i, n).total = Cardinality(S \cup {n})
  BY <1>1 DEF IsSummary, Count, AnyInfo
<1> QED  BY <1>3, <1>4, <1>5 DEF IsSummary

\* However many articles are removed during the scan, none that stays is left
\* out of the range or of the count.
THEOREM CountCovers ==
  ASSUME NEW S \in SUBSET Nat, IsFiniteSet(S), NEW n \in Nat,
         NEW i \in AnyInfo, Covers(i, S), i.total >= Cardinality(S)
  PROVE  /\ Covers(Count(i, n), S \cup {n})
         /\ Count(i, n).total >= Cardinality(S \cup {n})
<1>1. Cardinality(S \cup {n}) <= Cardinality(S) + 1 /\ Cardinality(S) \in Nat
      /\ Cardinality(S \cup {n}) \in Nat
  BY SMTT(30), FS_AddElement, FS_CardinalityType
<1>2. i.total = 0 => S = {}
  BY <1>1, FS_EmptySet DEF AnyInfo
<1>3. Covers(Count(i, n), S \cup {n})
  BY <1>2 DEF Covers, Count, AnyInfo
<1>4. Count(i, n).total >= Cardinality(S \cup {n})
  BY <1>1 DEF Count, AnyInfo
<1> QED  BY <1>3, <1>4

\* The increments of Post give what a scan of the directory with the new article
\* would give: when the group was empty, its number is 1.
THEOREM ExtendExact ==
  ASSUME NEW S \in SUBSET Nat, IsFiniteSet(S), 0 \notin S,
         NEW i \in AnyInfo, IsSummary(i, S), i.end + 1 \notin S
  PROVE  IsSummary(Extend(i, i.end + 1), S \cup {i.end + 1})
<1> DEFINE n == i.end + 1
<1>1. Cardinality(S \cup {n}) = Cardinality(S) + 1 /\ Cardinality(S) \in Nat
  BY FS_AddElement, FS_CardinalityType
<1>2. i.total = 0 <=> S = {}
  BY FS_EmptySet DEF IsSummary
<1>3. Covers(Extend(i, n), S \cup {n})
  BY <1>2 DEF IsSummary, Covers, Extend, AnyInfo
<1>4. Extend(i, n).start \in S \cup {n} /\ Extend(i, n).end \in S \cup {n}
  BY <1>2 DEF IsSummary, Extend, AnyInfo
<1>5. Extend(i, n).total = Cardinality(S \cup {n})
  BY <1>1 DEF IsSummary, Extend, AnyInfo
<1> QED  BY <1>3, <1>4, <1>5 DEF IsSummary

\* The increments of Post keep the range around every article even when the
\* index is behind the directory.
THEOREM ExtendCovers ==
  ASSUME NEW S \in SUBSET Nat, 0 \notin S, NEW i \in AnyInfo, Covers(i, S),
         i.start <= i.end
  PROVE  Covers(Extend(i, i.end + 1), S \cup {i.end + 1})
BY DEF Covers, Extend, AnyInfo

\* Removing articles leaves the others in the range.
LEMMA CoversFewer ==
  ASSUME NEW S, NEW T \in SUBSET S, NEW i, Covers(i, S)
  PROVE  Covers(i, T)
BY DEF Covers

-----------------------------------------------------------------------------
(* The steps.                                                              *)


\* LoadInfo opens .info or goes to build it, holding nothing.
LEMMA OpenInfoShape ==
  ASSUME Shape, NEW p \in Proc, OpenInfo(p)
  PROVE  Shape'
<1> USE SentinelAssumption, TopAssumption DEF Shape, OpenInfo, Goto, disk, locks,
                                              counters
<1>1. TypeOK'
  BY ZenonT(40) DEF TypeOK, CommandInv, NumberInv, Num, ArticleNum, Info, ZeroInfo, Article,
         Id, Command, Label, Return
<1>2. LockInv'
  BY DEF TypeOK, LockInv, Exclusive
<1>3. ReturnInv'
  BY DEF TypeOK, ReturnInv
<1>4. CommandInv'
  BY DEF TypeOK, CommandInv
<1>5. NumberInv'
  BY DEF TypeOK, NumberInv, CommandInv, Present, Num, ArticleNum, Info, ZeroInfo
<1> QED  BY <1>1, <1>2, <1>3, <1>4, <1>5

\* readLock is granted while nobody has the exclusive lock.
LEMMA ReadLockShape ==
  ASSUME Shape, NEW p \in Proc, ReadLock(p)
  PROVE  Shape'
<1> USE SentinelAssumption, TopAssumption DEF Shape, ReadLock, Goto, disk, locks,
                                              counters
<1>1. TypeOK'
  BY DEF TypeOK, CommandInv, NumberInv, Num, ArticleNum, Info, ZeroInfo, Article,
         Id, Command, Label, Return
<1>2. LockInv'
  BY DEF TypeOK, LockInv, Exclusive
<1>3. ReturnInv'
  BY DEF TypeOK, ReturnInv
<1>4. CommandInv'
  BY DEF TypeOK, CommandInv
<1>5. NumberInv'
  BY DEF TypeOK, NumberInv, CommandInv, Present, Num, ArticleNum, Info, ZeroInfo
<1> QED  BY <1>1, <1>2, <1>3, <1>4, <1>5

\* What is read from .info is a Group value; the shared lock is released.
LEMMA ReadInfoShape ==
  ASSUME Shape, NEW p \in Proc, ReadInfo(p)
  PROVE  Shape'
<1> USE SentinelAssumption, TopAssumption DEF Shape, ReadInfo, Goto, disk, locks,
                                              counters
<1>a. /\ AfterLoad[cmd[p].op] \in {"reply", "postlock", "find"}
      /\ AfterLoad[cmd[p].op] = "postlock" => cmd[p].op = "post"
  BY DEF TypeOK, CommandInv, Command, AfterLoad
<1>b. info \in Info
  BY DEF TypeOK, CommandInv
<1>1. TypeOK'
  BY <1>a, <1>b DEF TypeOK, CommandInv, NumberInv, Num, ArticleNum, Info,
                    ZeroInfo, Article, Id, Command, Label, Return
<1>2. LockInv'
  BY <1>a, <1>b DEF TypeOK, LockInv, Exclusive
<1>3. ReturnInv'
  BY <1>a, <1>b DEF TypeOK, ReturnInv
<1>4. CommandInv'
  BY <1>a, <1>b DEF TypeOK, CommandInv
<1>5. NumberInv'
  BY <1>a, <1>b DEF TypeOK, NumberInv, CommandInv, Present, Num, ArticleNum, Info,
                    ZeroInfo
<1> QED  BY <1>1, <1>2, <1>3, <1>4, <1>5

\* writeLock in BuildInfo is granted when nobody has any lock.
LEMMA BuildLockShape ==
  ASSUME Shape, NEW p \in Proc, BuildLock(p)
  PROVE  Shape'
<1> USE SentinelAssumption, TopAssumption DEF Shape, BuildLock, LockFree, Goto,
                                              disk, locks, counters
<1>1. TypeOK'
  BY DEF TypeOK, CommandInv, NumberInv, Num, ArticleNum, Info, ZeroInfo, Article,
         Id, Command, Label, Return
<1>2. LockInv'
  BY DEF TypeOK, LockInv, Exclusive
<1>3. ReturnInv'
  BY DEF TypeOK, ReturnInv
<1>4. CommandInv'
  BY DEF TypeOK, CommandInv
<1>5. NumberInv'
  BY DEF TypeOK, NumberInv, CommandInv, Present, Num, ArticleNum, Info, ZeroInfo
<1> QED  BY <1>1, <1>2, <1>3, <1>4, <1>5

\* The scan of BuildInfo starts from zeros with the articles present.
LEMMA ReadDirShape ==
  ASSUME Shape, NEW p \in Proc, ReadDir(p)
  PROVE  Shape'
<1> USE SentinelAssumption, TopAssumption DEF Shape, ReadDir, Goto, Present, disk,
                                              locks, counters
<1>1. TypeOK'
  <2>1. ZeroInfo \in Info /\ Present \in SUBSET Num
    BY DEF ZeroInfo, Info, Num
  <2> QED  BY <2>1 DEF TypeOK, Label
<1>2. LockInv'
  BY DEF TypeOK, LockInv, Exclusive
<1>3. ReturnInv'
  BY DEF TypeOK, ReturnInv
<1>4. CommandInv'
  BY DEF TypeOK, CommandInv
<1>5. NumberInv'
  BY DEF TypeOK, NumberInv, CommandInv, Present, Num, ArticleNum, Info, ZeroInfo
<1> QED  BY <1>1, <1>2, <1>3, <1>4, <1>5

\* Counting one more article gives a Group value with start <= end.
LEMMA StatEntryShape ==
  ASSUME Shape, NEW p \in Proc, StatEntry(p)
  PROVE  Shape'
<1> USE SentinelAssumption, TopAssumption DEF Shape, StatEntry, Present, disk,
                                              locks, counters
<1>a. PICK n \in todo[p] :
        /\ todo' = [todo EXCEPT ![p] = @ \ {n}]
        /\ IF n \in Present THEN grp' = [grp EXCEPT ![p] = Count(@, n)]
                            ELSE UNCHANGED grp
  OBVIOUS
<1>b. Count(grp[p], n) \in Info /\ Count(grp[p], n).start <= Count(grp[p], n).end
  BY DEF TypeOK, NumberInv, Info, Num, Count
<1>1. TypeOK'
  BY <1>a, <1>b DEF TypeOK
<1>2. LockInv'
  BY <1>a, <1>b DEF TypeOK, LockInv, Exclusive
<1>3. ReturnInv'
  BY <1>a, <1>b DEF TypeOK, ReturnInv
<1>4. CommandInv'
  BY <1>a, <1>b DEF TypeOK, CommandInv
<1>5. NumberInv'
  BY ZenonT(40), <1>a, <1>b DEF TypeOK, NumberInv, CommandInv, Present, Num, ArticleNum, Info,
                    ZeroInfo
<1> QED  BY <1>1, <1>2, <1>3, <1>4, <1>5

\* An empty .info reads as the zeros, a Group value.
LEMMA TruncInfoShape ==
  ASSUME Shape, NEW p \in Proc, TruncInfo(p)
  PROVE  Shape'
<1> USE SentinelAssumption, TopAssumption DEF Shape, TruncInfo, Goto, disk, locks,
                                              counters
<1>a. ZeroInfo \in Info /\ ZeroInfo # Missing
  BY DEF ZeroInfo, Info, Num
<1>1. TypeOK'
  BY <1>a DEF TypeOK, CommandInv, NumberInv, Num, ArticleNum, Info, ZeroInfo,
              Article, Id, Command, Label, Return
<1>2. LockInv'
  BY <1>a DEF TypeOK, LockInv, Exclusive
<1>3. ReturnInv'
  BY <1>a DEF TypeOK, ReturnInv
<1>4. CommandInv'
  BY <1>a DEF TypeOK, CommandInv
<1>5. NumberInv'
  BY <1>a DEF TypeOK, NumberInv, CommandInv, Present, Num, ArticleNum, Info,
              ZeroInfo
<1> QED  BY <1>1, <1>2, <1>3, <1>4, <1>5

\* SaveInfo puts the Group value into .info and returns to its caller.
LEMMA WriteInfoShape ==
  ASSUME Shape, NEW p \in Proc, WriteInfo(p)
  PROVE  Shape'
<1> USE SentinelAssumption, TopAssumption DEF Shape, WriteInfo, Goto, disk, locks,
                                              counters
<1>a. ret[p] \in {"loaded", "filter", "posted", "cancelled"}
  BY DEF TypeOK, ReturnInv, Return
<1>b. grp[p] \in Info /\ grp[p] # Missing
  BY DEF TypeOK
<1>1. TypeOK'
  BY <1>a, <1>b DEF TypeOK, CommandInv, NumberInv, Num, ArticleNum, Info,
                    ZeroInfo, Article, Id, Command, Label, Return
<1>2. LockInv'
  BY <1>a, <1>b DEF TypeOK, LockInv, Exclusive
<1>3. ReturnInv'
  BY <1>a, <1>b DEF TypeOK, ReturnInv
<1>4. CommandInv'
  BY <1>a, <1>b DEF TypeOK, CommandInv
<1>5. NumberInv'
  BY <1>a, <1>b DEF TypeOK, NumberInv, CommandInv, Present, Num, ArticleNum, Info,
                    ZeroInfo
<1> QED  BY <1>1, <1>2, <1>3, <1>4, <1>5

\* LoadInfo releases the lock of BuildInfo and returns to the command.
LEMMA LoadedShape ==
  ASSUME Shape, NEW p \in Proc, Loaded(p)
  PROVE  Shape'
<1> USE SentinelAssumption, TopAssumption DEF Shape, Loaded, Goto, disk, locks,
                                              counters
<1>a. /\ AfterLoad[cmd[p].op] \in {"reply", "postlock", "find"}
      /\ AfterLoad[cmd[p].op] = "postlock" => cmd[p].op = "post"
  BY DEF TypeOK, CommandInv, Command, AfterLoad
<1>1. TypeOK'
  BY <1>a DEF TypeOK, CommandInv, NumberInv, Num, ArticleNum, Info, ZeroInfo,
              Article, Id, Command, Label, Return
<1>2. LockInv'
  BY <1>a DEF TypeOK, LockInv, Exclusive
<1>3. ReturnInv'
  BY <1>a DEF TypeOK, ReturnInv
<1>4. CommandInv'
  BY <1>a DEF TypeOK, CommandInv
<1>5. NumberInv'
  BY <1>a DEF TypeOK, NumberInv, CommandInv, Present, Num, ArticleNum, Info,
              ZeroInfo
<1> QED  BY <1>1, <1>2, <1>3, <1>4, <1>5

\* writeLock in Post is granted when nobody has any lock.
LEMMA PostLockShape ==
  ASSUME Shape, NEW p \in Proc, PostLock(p)
  PROVE  Shape'
<1> USE SentinelAssumption, TopAssumption DEF Shape, PostLock, LockFree, Goto,
                                              disk, locks, counters
<1>1. TypeOK'
  BY DEF TypeOK, CommandInv, NumberInv, Num, ArticleNum, Info, ZeroInfo, Article,
         Id, Command, Label, Return
<1>2. LockInv'
  BY DEF TypeOK, LockInv, Exclusive
<1>3. ReturnInv'
  BY DEF TypeOK, ReturnInv
<1>4. CommandInv'
  BY DEF TypeOK, CommandInv
<1>5. NumberInv'
  BY DEF TypeOK, NumberInv, CommandInv, Present, Num, ArticleNum, Info, ZeroInfo
<1> QED  BY <1>1, <1>2, <1>3, <1>4, <1>5

\* Post loads under its lock, rebuilding when .info is missing.
LEMMA PostLoadShape ==
  ASSUME Shape, NEW p \in Proc, PostLoad(p)
  PROVE  Shape'
<1> USE SentinelAssumption, TopAssumption DEF Shape, PostLoad, Goto, disk, locks,
                                              counters
<1>a. info # Missing =>
        InfoFound(p) \in Info /\ InfoFound(p).start <= InfoFound(p).end
  BY DEF TypeOK, NumberInv, InfoFound
<1>1. TypeOK'
  BY <1>a DEF TypeOK, Label, Return
<1>2. LockInv'
  BY <1>a DEF TypeOK, LockInv, Exclusive
<1>3. ReturnInv'
  BY <1>a DEF TypeOK, ReturnInv
<1>4. CommandInv'
  BY <1>a DEF TypeOK, CommandInv
<1>5. NumberInv'
  BY <1>a DEF TypeOK, NumberInv, CommandInv, Present, Num, ArticleNum, Info,
              ZeroInfo
<1> QED  BY <1>1, <1>2, <1>3, <1>4, <1>5

\* The first number Post tries is an article number beyond End.
LEMMA FilterAcceptShape ==
  ASSUME Shape, NEW p \in Proc, FilterAccept(p)
  PROVE  Shape'
<1> USE SentinelAssumption, TopAssumption DEF Shape, FilterAccept, NextNumber,
                                              Goto, disk, locks, counters
<1>a. grp[p].end + 1 \in Num
  BY DEF ArticleNum, Num
<1>1. TypeOK'
  BY <1>a DEF TypeOK, CommandInv, NumberInv, Num, ArticleNum, Info, ZeroInfo,
              Article, Id, Command, Label, Return
<1>2. LockInv'
  BY <1>a DEF TypeOK, LockInv, Exclusive
<1>3. ReturnInv'
  BY <1>a DEF TypeOK, ReturnInv
<1>4. CommandInv'
  BY <1>a DEF TypeOK, CommandInv
<1>5. NumberInv'
  BY <1>a DEF TypeOK, NumberInv, CommandInv, Present, Num, ArticleNum, Info,
              ZeroInfo
<1> QED  BY <1>1, <1>2, <1>3, <1>4, <1>5

\* The next number Post tries is still beyond End.
LEMMA CreateExistsShape ==
  ASSUME Shape, NEW p \in Proc, CreateExists(p)
  PROVE  Shape'
<1> USE SentinelAssumption, TopAssumption DEF Shape, CreateExists, CanCreate,
                                              disk, locks, counters
<1>a. /\ num[p] \in Num /\ num[p] + 1 \in Num
      /\ num[p] + 1 > num[p] /\ grp[p].end \in Num
  BY DEF TypeOK, Num, ArticleNum, Info
<1>1. TypeOK'
  BY <1>a DEF TypeOK
<1>2. LockInv'
  BY <1>a DEF TypeOK, LockInv, Exclusive
<1>3. ReturnInv'
  BY <1>a DEF TypeOK, ReturnInv
<1>4. CommandInv'
  BY <1>a DEF TypeOK, CommandInv
<1>b. num[p] + 1 \in ArticleNum /\ num[p] + 1 > grp[p].end
  BY <1>a DEF NumberInv, Num
<1>5. NumberInv'
  <2>1. Present' = Present /\ UNCHANGED <<info, grp, pc>> /\ num' = [num EXCEPT ![p] = @ + 1]
    BY DEF Present
  <2> HIDE DEF CreateExists
  <2> QED  BY <1>b, <2>1 DEF TypeOK, NumberInv
<1> QED  BY <1>1, <1>2, <1>3, <1>4, <1>5

\* The file Post creates is an article with an article number.
LEMMA CreateNewShape ==
  ASSUME Shape, NEW p \in Proc, CreateNew(p)
  PROVE  Shape'
<1> USE SentinelAssumption, TopAssumption DEF Shape, CreateNew, CanCreate, Goto,
                                              disk, locks, counters
<1>a. num[p] \in ArticleNum /\ num[p] \in Num
  BY DEF NumberInv, TypeOK
<1>b. Draft(cmd[p], num[p]) \in Article
  BY <1>a DEF TypeOK, CommandInv, Command, Draft, GenId, Article, Id
<1>1. TypeOK'
  BY <1>a, <1>b DEF TypeOK, CommandInv, NumberInv, Num, ArticleNum, Info,
                    ZeroInfo, Article, Id, Command, Label, Return
<1>2. LockInv'
  BY <1>a, <1>b DEF TypeOK, LockInv, Exclusive
<1>3. ReturnInv'
  BY <1>a, <1>b DEF TypeOK, ReturnInv
<1>4. CommandInv'
  BY <1>a, <1>b DEF TypeOK, CommandInv
<1>5. NumberInv'
  BY <1>a, <1>b DEF TypeOK, NumberInv, CommandInv, Present, Num, ArticleNum, Info,
                    ZeroInfo
<1> QED  BY <1>1, <1>2, <1>3, <1>4, <1>5

\* Post's increments give a Group value with start <= end.
LEMMA WriteArticleShape ==
  ASSUME Shape, NEW p \in Proc, WriteArticle(p)
  PROVE  Shape'
<1> USE SentinelAssumption, TopAssumption DEF Shape, WriteArticle, Goto, Fault,
                                              disk, locks, counters
<1>a. Extend(grp[p], num[p]) \in Info /\ Extend(grp[p], num[p]).start <= num[p]
      /\ Extend(grp[p], num[p]).end = num[p]
  BY SMTT(30) DEF TypeOK, NumberInv, Info, Num, ArticleNum, Extend
<1>b. num[p] \in Present =>
        [files[num[p]] EXCEPT !.whole = TRUE] \in Article
  <2>1. num[p] \in Present => files[num[p]] \in Article
    BY DEF TypeOK, Present
  <2> QED  BY <2>1 DEF Article
<1>c. files' \in [Num -> Article \cup {NoFile}] /\ Present' = Present
  <2>1. CASE UNCHANGED files
    BY <2>1 DEF TypeOK, Present
  <2>2. CASE /\ num[p] \in Present
             /\ files' = [files EXCEPT ![num[p]].whole = TRUE]
    <3> DEFINE whole == [files[num[p]] EXCEPT !.whole = TRUE]
    <3>1. files' = [files EXCEPT ![num[p]] = whole]
      BY <2>2
    <3>2. whole \in Article
      BY <1>b, <2>2
    <3>3. NoFile \notin Article /\ num[p] \in Num /\ files[num[p]] # NoFile
      BY <2>2 DEF Present
    <3>4. files \in [Num -> Article \cup {NoFile}]
      BY DEF TypeOK
    <3> HIDE DEF whole, Shape, WriteArticle
    <3>5. files' \in [Num -> Article \cup {NoFile}]
      BY <3>1, <3>2, <3>4
    <3>6. \A n \in Num : files'[n] # NoFile <=> files[n] # NoFile
      BY <3>1, <3>2, <3>3, <3>4
    <3> QED  BY <3>5, <3>6 DEF Present
  <2> QED  BY <2>1, <2>2
<1>d. num[p] \in Num
  BY DEF TypeOK
<1>1. TypeOK'
  BY <1>a, <1>b, <1>c, <1>d DEF TypeOK, Label, Return
<1>2. LockInv'
  BY <1>a, <1>b, <1>c, <1>d DEF TypeOK, LockInv, Exclusive
<1>3. ReturnInv'
  BY <1>a, <1>b, <1>c, <1>d DEF TypeOK, ReturnInv
<1>4. CommandInv'
  BY <1>a, <1>b, <1>c, <1>d DEF TypeOK, CommandInv
<1>5. NumberInv'
  BY <1>a, <1>b, <1>c, <1>d DEF TypeOK, NumberInv, CommandInv, Present, Num,
                                ArticleNum, Info, ZeroInfo
<1> QED  BY <1>1, <1>2, <1>3, <1>4, <1>5

\* A search that hits holds no lock and changes nothing.
LEMMA ProbeHitShape ==
  ASSUME Shape, NEW p \in Proc, ProbeHit(p)
  PROVE  Shape'
<1> USE SentinelAssumption, TopAssumption DEF Shape, ProbeHit, Goto, disk, locks,
                                              counters
<1>1. TypeOK'
  BY DEF TypeOK, CommandInv, NumberInv, Num, ArticleNum, Info, ZeroInfo, Article,
         Id, Command, Label, Return
<1>2. LockInv'
  BY DEF TypeOK, LockInv, Exclusive
<1>3. ReturnInv'
  BY DEF TypeOK, ReturnInv
<1>4. CommandInv'
  BY DEF TypeOK, CommandInv
<1>5. NumberInv'
  BY DEF TypeOK, NumberInv, CommandInv, Present, Num, ArticleNum, Info, ZeroInfo
<1> QED  BY <1>1, <1>2, <1>3, <1>4, <1>5

\* A search goes on in Num, below 0 at Top.
LEMMA ProbeMissShape ==
  ASSUME Shape, NEW p \in Proc, ProbeMiss(p)
  PROVE  Shape'
<1> USE SentinelAssumption, TopAssumption DEF Shape, ProbeMiss, Prev, disk, locks,
                                              counters
<1>a. Prev(num[p]) \in Num
  BY DEF TypeOK, Num, Prev
<1>1. TypeOK'
  BY <1>a DEF TypeOK
<1>2. LockInv'
  BY <1>a DEF TypeOK, LockInv, Exclusive
<1>3. ReturnInv'
  BY <1>a DEF TypeOK, ReturnInv
<1>4. CommandInv'
  BY <1>a DEF TypeOK, CommandInv
<1>5. NumberInv'
  BY <1>a DEF TypeOK, NumberInv, CommandInv, Present, Num, ArticleNum, Info,
              ZeroInfo
<1> QED  BY <1>1, <1>2, <1>3, <1>4, <1>5

\* The check of From: holds no lock and changes nothing.
LEMMA CheckPassShape ==
  ASSUME Shape, NEW p \in Proc, CheckPass(p)
  PROVE  Shape'
<1> USE SentinelAssumption, TopAssumption DEF Shape, CheckPass, Goto, disk, locks,
                                              counters
<1>1. TypeOK'
  BY DEF TypeOK, CommandInv, NumberInv, Num, ArticleNum, Info, ZeroInfo, Article,
         Id, Command, Label, Return
<1>2. LockInv'
  BY DEF TypeOK, LockInv, Exclusive
<1>3. ReturnInv'
  BY DEF TypeOK, ReturnInv
<1>4. CommandInv'
  BY DEF TypeOK, CommandInv
<1>5. NumberInv'
  BY DEF TypeOK, NumberInv, CommandInv, Present, Num, ArticleNum, Info, ZeroInfo
<1> QED  BY <1>1, <1>2, <1>3, <1>4, <1>5

\* A removal leaves fewer articles and no lock.
LEMMA RemoveShape ==
  ASSUME Shape, NEW p \in Proc, Remove(p)
  PROVE  Shape'
<1> USE SentinelAssumption, TopAssumption DEF Shape, Remove, Goto, disk, locks,
                                              counters
<1>1. TypeOK'
  BY DEF TypeOK, CommandInv, NumberInv, Num, ArticleNum, Info, ZeroInfo, Article,
         Id, Command, Label, Return
<1>2. LockInv'
  BY DEF TypeOK, LockInv, Exclusive
<1>3. ReturnInv'
  BY DEF TypeOK, ReturnInv
<1>4. CommandInv'
  BY DEF TypeOK, CommandInv
<1>5. NumberInv'
  BY DEF TypeOK, NumberInv, CommandInv, Present, Num, ArticleNum, Info, ZeroInfo
<1> QED  BY <1>1, <1>2, <1>3, <1>4, <1>5

-----------------------------------------------------------------------------
(* Commands that arrive, answers, faults.                                  *)

\* A command that arrives keeps Shape: the process is idle and holds nothing.
LEMMA BeginShape ==
  ASSUME Shape, NEW p \in Proc, NEW c \in Command, c.op # "none",
         c.op = "post" => c.from \in Author, Begin(p, c)
  PROVE  Shape'
<1> USE SentinelAssumption DEF Shape, Begin, Goto, disk, locks
<1>1. TypeOK'
  BY DEF TypeOK, Label
<1>2. LockInv'
  BY DEF TypeOK, LockInv, Exclusive
<1>3. ReturnInv'
  BY DEF TypeOK, ReturnInv
<1>4. CommandInv'
  BY DEF TypeOK, CommandInv, ReturnInv
<1>5. NumberInv'
  BY DEF TypeOK, NumberInv, Present
<1> QED  BY <1>1, <1>2, <1>3, <1>4, <1>5

\* The three kinds of commands keep Shape.
LEMMA ArriveShape ==
  ASSUME Shape, NEW p \in Proc, Arrive(p)
  PROVE  Shape'
<1>1. CASE BeginRead(p)
  BY <1>1, BeginShape DEF BeginRead, Command
<1>2. CASE BeginPost(p)
  BY <1>2, BeginShape DEF BeginPost, Command, Id
<1>3. CASE BeginCancel(p)
  BY <1>3, BeginShape DEF BeginCancel, Command
<1> QED  BY <1>1, <1>2, <1>3 DEF Arrive

\* Processes that leave, for whatever reason, take nothing with them that the
\* others rely on.  A failed SaveInfo may have put a Group value into .info.
LEMMA LeaveShape ==
  ASSUME Shape, NEW S \in SUBSET Proc, Leave(S), UNCHANGED files,
         UNCHANGED info \/ \E p \in Proc : info' = grp[p], torn' \in BOOLEAN,
         acked' \subseteq Num, left' \in Nat, exits' \in Nat, ioerrs' \in Nat
  PROVE  Shape'
<1> USE SentinelAssumption DEF Shape, Leave
<1>a. ZeroInfo \in Info /\ NoCommand \in Command
  BY TopAssumption DEF ZeroInfo, Info, Num, NoCommand, Command
<1>b. 0 \in Num
  BY TopAssumption DEF Num
<1>c. /\ info' \in Info \cup {Missing}
      /\ info # Missing => info' # Missing
      /\ info' # Missing => info'.start <= info'.end
  BY DEF TypeOK, NumberInv
<1>1. TypeOK'
  BY <1>a, <1>b, <1>c DEF TypeOK, Label, Return
<1>2. LockInv'
  BY DEF TypeOK, LockInv, Exclusive
<1>3. ReturnInv'
  BY DEF TypeOK, ReturnInv
<1>4. CommandInv'
  BY <1>c DEF TypeOK, CommandInv, NoCommand
<1>5. NumberInv'
  BY <1>c DEF TypeOK, NumberInv, Present, ZeroInfo
<1> QED  BY <1>1, <1>2, <1>3, <1>4, <1>5

\* Every step of a command keeps Shape.
LEMMA StepShape ==
  ASSUME Shape, NEW p \in Proc, Step(p)
  PROVE  Shape'
<1>1. CASE Index(p)
  <2>1. CASE Reply(p)
    BY <2>1, LeaveShape DEF Reply, Finish, disk, counters, Shape, TypeOK
  <2> QED
    BY <1>1, <2>1, OpenInfoShape, ReadLockShape, ReadInfoShape, BuildLockShape,
       ReadDirShape, StatEntryShape, TruncInfoShape, WriteInfoShape, LoadedShape
       DEF Index
<1>2. CASE Post(p)
  <2>1. CASE FilterReject(p)
    BY <2>1, LeaveShape DEF FilterReject, Finish, disk, counters, Shape, TypeOK
  <2>2. CASE Posted(p)
    BY <2>2, LeaveShape DEF Posted, Finish, disk, counters, Shape, TypeOK, Present
  <2> QED
    BY <1>2, <2>1, <2>2, PostLockShape, PostLoadShape, FilterAcceptShape,
       CreateExistsShape, CreateNewShape, WriteArticleShape DEF Post
<1>3. CASE Cancel(p)
  <2>1. CASE ProbeEnd(p)
    BY <2>1, LeaveShape DEF ProbeEnd, Finish, disk, counters, Shape, TypeOK
  <2>2. CASE CheckDeny(p)
    BY <2>2, LeaveShape DEF CheckDeny, Finish, disk, counters, Shape, TypeOK
  <2>3. CASE RemoveFail(p)
    BY <2>3, LeaveShape DEF RemoveFail, Finish, disk, counters, Shape, TypeOK
  <2>4. CASE Cancelled(p)
    BY <2>4, LeaveShape DEF Cancelled, Finish, disk, counters, Shape, TypeOK
  <2> QED
    BY <1>3, <2>1, <2>2, <2>3, <2>4, ProbeHitShape, ProbeMissShape,
       CheckPassShape, RemoveShape DEF Cancel
<1> QED  BY <1>1, <1>2, <1>3 DEF Step

\* Every failure keeps Shape.
LEMMA FailShape ==
  ASSUME Shape, NEW p \in Proc, Fail(p)
  PROVE  Shape'
<1> USE LeaveShape DEF Finish, disk, Fault, Shape, TypeOK
<1>1. CASE SaveFail(p)
  <2>1. torn' \in BOOLEAN
    BY <1>1 DEF SaveFail
  <2> QED  BY <1>1, <2>1 DEF SaveFail
<1>2. CASE LoadFail(p)
  BY <1>2 DEF LoadFail
<1>3. CASE CreateFail(p)
  BY <1>3 DEF CreateFail
<1>4. CASE GatewayKilled(p)
  BY <1>4 DEF GatewayKilled
<1> QED  BY <1>1, <1>2, <1>3, <1>4 DEF Fail

\* Shape depends on the variables of Spool only.
LEMMA StutterShape ==
  ASSUME Shape, UNCHANGED vars
  PROVE  Shape'
BY DEF vars, disk, locks, locals, counters, Shape, TypeOK, LockInv, ReturnInv,
       CommandInv, NumberInv, Present

\* Every step keeps Shape.
LEMMA NextShape ==
  ASSUME Shape, [Next]_vars
  PROVE  Shape'
<1>1. CASE ServerExit
  BY <1>1, LeaveShape DEF ServerExit, disk, Shape, TypeOK, Proc
<1> QED
  BY <1>1, ArriveShape, StepShape, FailShape, StutterShape DEF Next, Quiet

\* Shape holds initially.
LEMMA InitShape == Init => Shape
<1> SUFFICES ASSUME Init PROVE Shape
  OBVIOUS
<1> USE SentinelAssumption, TopAssumption, StoredAssumption DEF Init
<1>a. ZeroInfo \in Info /\ NoCommand \in Command /\ 0 \in Num
  BY DEF ZeroInfo, Info, Num, NoCommand, Command
<1>b. Present \subseteq ArticleNum /\ IsFiniteSet(Present)
  <2>1. files = [n \in Num |-> IF n \in DOMAIN Stored THEN Stored[n] ELSE NoFile]
        /\ DOMAIN Stored \subseteq ArticleNum
    OBVIOUS
  <2> HIDE DEF Init
  <2>2. Present \subseteq ArticleNum
    BY Zenon, <2>1 DEF Present
  <2> QED  BY <2>2, FS_Interval, FS_Subset DEF ArticleNum
<1>c. /\ info \in Info \cup {Missing}
      /\ info # Missing => info.start <= info.end
  <2>1. CASE info = Missing
    BY <2>1
  <2>2. CASE /\ \E s, e \in Num :
                  info = [start |-> s, end |-> e, total |-> Cardinality(Present)]
             /\ IsSummary(info, Present)
    <3>1. info \in Info
      BY <1>b, <2>2, FS_CardinalityType DEF Info
    <3>2. info.start <= info.end
      BY <1>b, <2>2 DEF IsSummary, Covers, ArticleNum
    <3> QED  BY <3>1, <3>2
  <2> QED  BY <2>1, <2>2
<1>1. TypeOK
  <2>1. files \in [Num -> Article \cup {NoFile}]
    OBVIOUS
  <2>2. acked \subseteq Num
    <3>1. acked = DOMAIN Stored /\ DOMAIN Stored \subseteq ArticleNum
      OBVIOUS
    <3> QED  BY <3>1 DEF ArticleNum, Num
  <2> QED  BY <1>a, <1>c, <2>1, <2>2, BoundsAssumption DEF TypeOK, Label, Return
<1>2. LockInv
  BY DEF LockInv, Exclusive
<1>3. ReturnInv
  BY DEF ReturnInv
<1>4. CommandInv
  BY DEF CommandInv, NoCommand
<1>5. NumberInv
  BY <1>b, <1>c DEF NumberInv, ZeroInfo
<1> QED  BY <1>1, <1>2, <1>3, <1>4, <1>5 DEF Shape

\* Type correctness: no step of any process takes a variable out of its type,
\* with any number of exits and failing file operations.
THEOREM TypeCorrect == Spec => []TypeOK
<1>1. Init => Shape
  BY InitShape
<1>2. Shape /\ [Next]_vars => Shape'
  BY NextShape
<1>3. Shape => TypeOK
  BY DEF Shape
<1> QED  BY <1>1, <1>2, <1>3, PTL DEF Spec

\* Mutual exclusion on the group directory (writeLock and readLock of lock.go):
\* it also survives the exits of the server, since a lock dies with its holder.
THEOREM MutuallyExclusive == Spec => []MutualExclusion
<1>1. Init => Shape
  BY InitShape
<1>2. Shape /\ [Next]_vars => Shape'
  BY NextShape
<1>3. Shape => MutualExclusion
  BY SentinelAssumption DEF Shape, LockInv, MutualExclusion, Exclusive
<1> QED  BY <1>1, <1>2, <1>3, PTL DEF Spec

-----------------------------------------------------------------------------
(* What the index covers, and that it is exact.                            *)

Act(p) == Arrive(p) \/ Step(p) \/ Fail(p)

\* The directory has finitely many articles.
LEMMA PresentFinite ==
  ASSUME Shape
  PROVE  /\ Present \in SUBSET Nat /\ 0 \notin Present
         /\ \A S \in SUBSET Present :
              IsFiniteSet(S) /\ Cardinality(S) <= Cardinality(Present)
<1>1. Present \subseteq 1 .. (Top - 1)
  BY DEF Shape, NumberInv, ArticleNum
<1>2. IsFiniteSet(1 .. (Top - 1))
  BY FS_Interval, TopAssumption
<1>3. IsFiniteSet(Present)
  BY <1>1, <1>2, FS_Subset
<1>4. Present \in SUBSET Nat /\ 0 \notin Present
  BY <1>1, TopAssumption
<1> QED  BY <1>3, <1>4, FS_Subset

\* A step of p leaves the local state of the others alone.
LEMMA OthersSame ==
  ASSUME Shape, NEW p \in Proc, Act(p), NEW q \in Proc, q # p
  PROVE  /\ pc'[q] = pc[q] /\ ret'[q] = ret[q] /\ grp'[q] = grp[q]
         /\ num'[q] = num[q] /\ todo'[q] = todo[q]
<1> USE DEF Act, Shape, TypeOK, Goto, Finish, Leave, locks
<1>1. CASE Arrive(p)
  BY <1>1 DEF Arrive, BeginRead, BeginPost, BeginCancel, Begin
<1>2. CASE Index(p)
  BY <1>2 DEF Index, OpenInfo, ReadLock, ReadInfo, Reply, BuildLock, LockFree,
              ReadDir, StatEntry, TruncInfo, WriteInfo, Loaded
<1>3. CASE Post(p)
  BY <1>3 DEF Post, PostLock, LockFree, PostLoad, FilterAccept, NextNumber,
              FilterReject, CreateExists, CanCreate, CreateNew, WriteArticle,
              Posted
<1>4. CASE Cancel(p)
  BY <1>4 DEF Cancel, ProbeHit, ProbeMiss, Prev, ProbeEnd, CheckPass, CheckDeny,
              Remove, RemoveFail, Cancelled
<1>5. CASE Fail(p)
  BY <1>5 DEF Fail, SaveFail, LoadFail, CreateFail, GatewayKilled
<1> QED  BY <1>1, <1>2, <1>3, <1>4, <1>5 DEF Step

\* A step of a process outside the lock leaves .info alone and adds no file; it
\* may take the lock, and a removal makes it dirty.
LEMMA OutsideStep ==
  ASSUME Shape, NEW p \in Proc, Act(p), pc[p] \notin Exclusive
  PROVE  /\ info' = info
         /\ \A n \in Num : files'[n] \in {files[n], NoFile}
         /\ \/ exLock' = exLock /\ pc'[p] \notin Exclusive
            \/ /\ exLock = Nobody /\ exLock' = p /\ UNCHANGED files
               /\ pc'[p] \in {"scan", "postload"}
               /\ pc'[p] = "postload" => p \notin Dirty'
         /\ FaultFree' => /\ FaultFree
                          /\ p \in Dirty => p \in Dirty'
                          /\ UNCHANGED files \/ p \in Dirty'
<1> USE SentinelAssumption
        DEF Act, Shape, TypeOK, ReturnInv, LockInv, Exclusive, FaultFree, Dirty,
            Goto, Finish, Leave, disk, locks, counters
<1>1. CASE Arrive(p)
  BY <1>1 DEF Arrive, BeginRead, BeginPost, BeginCancel, Begin
<1>2. CASE OpenInfo(p) \/ ReadLock(p)
  BY <1>2 DEF OpenInfo, ReadLock
<1>3. CASE ReadInfo(p)
  <2>1. AfterLoad[cmd[p].op] \in {"reply", "postlock", "find"}
    BY <1>3 DEF CommandInv, Command, AfterLoad, ReadInfo
  <2> QED  BY <1>3, <2>1 DEF ReadInfo
<1>4. CASE Reply(p) \/ BuildLock(p) \/ PostLock(p)
  <2>1. CASE Reply(p)
    BY <2>1 DEF Reply
  <2>2. CASE BuildLock(p)
    BY <2>2 DEF BuildLock, LockFree
  <2>3. CASE PostLock(p)
    BY <2>3 DEF PostLock, LockFree
  <2> QED  BY <1>4, <2>1, <2>2, <2>3
<1>5. CASE \/ ReadDir(p) \/ StatEntry(p) \/ TruncInfo(p) \/ WriteInfo(p) \/ Loaded(p)
           \/ PostLoad(p) \/ FilterAccept(p) \/ FilterReject(p) \/ CreateExists(p)
           \/ CreateNew(p) \/ WriteArticle(p) \/ Posted(p) \/ Cancelled(p)
           \/ SaveFail(p) \/ CreateFail(p)
  BY <1>5 DEF ReadDir, StatEntry, TruncInfo, WriteInfo, Loaded, PostLoad,
              FilterAccept, NextNumber, FilterReject, CreateExists, CanCreate,
              CreateNew, WriteArticle, Posted, Cancelled, SaveFail, CreateFail
<1>6. CASE ProbeHit(p) \/ ProbeMiss(p) \/ ProbeEnd(p) \/ CheckPass(p) \/ CheckDeny(p)
  BY <1>6 DEF ProbeHit, ProbeMiss, Prev, ProbeEnd, CheckPass, CheckDeny
<1>7. CASE Remove(p) \/ RemoveFail(p)
  BY <1>7 DEF Remove, RemoveFail
<1>8. CASE LoadFail(p) \/ GatewayKilled(p)
  BY <1>8 DEF LoadFail, GatewayKilled, Fault
<1> QED
  BY <1>1, <1>2, <1>3, <1>4, <1>5, <1>6, <1>7, <1>8
     DEF Step, Index, Post, Cancel, Fail

\* What is left of the invariant when nothing has failed.
Faultless == CoverInv /\ ExactInv /\ WholeInv /\ TornInv

\* Only who truncates .info leaves it empty, and the next step completes it.
LEMMA TornStep ==
  ASSUME Shape, TornInv, NEW p \in Proc, Act(p), FaultFree'
  PROVE  TornInv'
<1>1. CASE TruncInfo(p)
  BY <1>1 DEF TruncInfo, Goto, Shape, TypeOK, TornInv
<1>2. CASE WriteInfo(p)
  BY <1>2 DEF WriteInfo, TornInv
<1>3. CASE ~ TruncInfo(p) /\ ~ WriteInfo(p)
  <2>1. torn' = torn /\ pc[p] # "save"
    <3> USE <1>3 DEF Act, Goto, Finish, Leave, disk, locks
    <3>1. CASE Arrive(p)
      BY <3>1 DEF Arrive, BeginRead, BeginPost, BeginCancel, Begin
    <3>2. CASE Index(p)
      BY <3>2 DEF Index, OpenInfo, ReadLock, ReadInfo, Reply, BuildLock, ReadDir,
                  StatEntry, Loaded
    <3>3. CASE Post(p)
      BY <3>3 DEF Post, PostLock, PostLoad, FilterAccept, FilterReject,
                  CreateExists, CreateNew, WriteArticle, Posted
    <3>4. CASE Cancel(p)
      BY <3>4 DEF Cancel, ProbeHit, ProbeMiss, ProbeEnd, CheckPass, CheckDeny,
                  Remove, RemoveFail, Cancelled
    <3>5. CASE Fail(p)
      BY <3>5 DEF Fail, SaveFail, LoadFail, CreateFail, GatewayKilled, Fault,
                  FaultFree, Shape, TypeOK
    <3> QED  BY <3>1, <3>2, <3>3, <3>4, <3>5 DEF Step
  <2> QED  BY <2>1, OthersSame DEF TornInv
<1> QED  BY <1>1, <1>2, <1>3

\* Fewer articles: whoever holds the lock still covers them all.
LEMMA FewerCovered ==
  ASSUME NEW q \in Proc, Indexed(q, Covers), Present' \subseteq Present,
         info' = info, pc'[q] = pc[q], grp'[q] = grp[q], num'[q] = num[q]
  PROVE  Indexed(q, Covers)'
<1>1. \A i : Covers(i, Present) => Covers(i, Present')
  BY CoversFewer
<1>2. \A i, n : Covers(i, Present \ {n}) => Covers(i, Present' \ {n})
  BY DEF Covers
<1> HIDE DEF Present, Covers
<1> QED  BY <1>1, <1>2 DEF Indexed

\* What p does without the lock keeps the invariant of those who hold it:
\* at most it removes an article.
LEMMA OutsideFaultless ==
  ASSUME Shape, Faultless, NEW p \in Proc, Act(p), pc[p] \notin Exclusive, FaultFree'
  PROVE  Faultless'
<1>a. /\ info' = info
      /\ \A n \in Num : files'[n] \in {files[n], NoFile}
      /\ \/ exLock' = exLock /\ pc'[p] \notin Exclusive
         \/ /\ exLock = Nobody /\ exLock' = p /\ UNCHANGED files
            /\ pc'[p] \in {"scan", "postload"}
            /\ pc'[p] = "postload" => p \notin Dirty'
      /\ p \in Dirty => p \in Dirty'
      /\ UNCHANGED files \/ p \in Dirty'
  BY OutsideStep
<1>b. \A q \in Proc : q # p =>
        /\ pc'[q] = pc[q] /\ ret'[q] = ret[q] /\ grp'[q] = grp[q]
        /\ num'[q] = num[q] /\ todo'[q] = todo[q]
  BY OthersSame
<1>c. Present' \subseteq Present /\ (UNCHANGED files => Present' = Present)
  BY <1>a DEF Present
<1>d. Dirty \subseteq Dirty'
  BY <1>a, <1>b DEF Dirty
<1>e. pc'[p] \in Exclusive => pc'[p] \in {"scan", "postload"} /\ exLock = Nobody
  BY <1>a
<1>1. CoverInv'
  <2>1. exLock' = Nobody /\ info' # Missing => Covers(info', Present')
    BY <1>a, <1>c, CoversFewer, SentinelAssumption DEF Faultless, CoverInv
  <2>2. ASSUME NEW q \in Proc PROVE Numbered(q)' /\ Indexed(q, Covers)'
    <3>1. CASE q # p
      <4>1. Indexed(q, Covers)'
        BY <1>a, <1>b, <1>c, <3>1, FewerCovered DEF Faultless, CoverInv
      <4>2. Numbered(q)'
        BY <1>a, <1>b, <3>1 DEF Faultless, CoverInv, Numbered
      <4> QED  BY <4>1, <4>2
    <3>2. CASE q = p /\ pc'[p] \notin Exclusive
      BY <3>2 DEF Numbered, Indexed, Exclusive
    <3>3. CASE q = p /\ pc'[p] \in Exclusive
      BY <1>a, <1>c, <1>e, <3>3 DEF Faultless, CoverInv, Numbered, Indexed,
                                    Exclusive
    <3> QED  BY <3>1, <3>2, <3>3
  <2> QED  BY <2>1, <2>2 DEF CoverInv
<1>2. ExactInv'
  <2>1. exLock' = Nobody /\ Dirty' = {} /\ info' # Missing => IsSummary(info', Present')
    BY <1>a, <1>c, <1>d, SentinelAssumption DEF Faultless, ExactInv
  <2>2. ASSUME NEW q \in Proc, pc'[q] \in Exclusive, Dirty' \subseteq {q}
        PROVE  Exactly(q)'
    <3>1. CASE q # p
      <4>1. Present' = Present /\ pc[q] \in Exclusive /\ Dirty \subseteq {q}
        BY <1>a, <1>b, <1>c, <1>d, <2>2, <3>1
      <4>2. Exactly(q)
        BY <4>1 DEF Faultless, ExactInv
      <4> QED
        BY <1>a, <1>b, <3>1, <4>1, <4>2 DEF Exactly, Indexed
    <3>2. CASE q = p
      <4>1. exLock = Nobody /\ Present' = Present
        BY <1>a, <1>c, <1>e, <2>2, <3>2
      <4>2. CASE pc'[p] = "scan"
        BY <3>2, <4>2 DEF Exactly, Indexed
      <4>3. CASE pc'[p] = "postload"
        <5>1. Dirty = {}
          BY <1>a, <1>d, <2>2, <3>2, <4>3, <1>e
        <5> QED
          BY <1>a, <3>2, <4>1, <4>3, <5>1 DEF Faultless, ExactInv, Exactly,
                                              Indexed
      <4> QED  BY <1>e, <2>2, <3>2, <4>2, <4>3
    <3> QED  BY <3>1, <3>2
  <2> QED  BY <2>1, <2>2 DEF ExactInv
<1>3. WholeInv'
  <2>1. SUFFICES ASSUME NEW n \in Present', ~ files'[n].whole
                 PROVE  \E q \in Proc : pc'[q] = "write" /\ num'[q] = n
    BY DEF WholeInv
  <2>2. n \in Present /\ files'[n] = files[n]
    BY <1>a, <1>c DEF Present
  <2>3. PICK q \in Proc : pc[q] = "write" /\ num[q] = n
    BY <2>1, <2>2 DEF Faultless, WholeInv
  <2>4. q # p
    BY <2>3 DEF Exclusive
  <2> QED  BY <1>b, <2>3, <2>4
<1>4. TornInv'
  BY TornStep DEF Faultless
<1> QED  BY <1>1, <1>2, <1>3, <1>4 DEF Faultless

\* The invariant of the process inside the lock, after its own step.
Inside(p) ==
  /\ exLock = Nobody /\ info # Missing => Covers(info, Present)
  /\ Numbered(p) /\ Indexed(p, Covers)
  /\ WholeInv

InsideExact(p) ==
  /\ exLock = Nobody /\ info # Missing => IsSummary(info, Present)
  /\ Exactly(p)

\* Every other process is outside the lock, so only p has anything to show.
LEMMA InsideFrame ==
  ASSUME Shape, Faultless, NEW p \in Proc, Act(p), pc[p] \in Exclusive,
         Inside(p)', Dirty \subseteq {p} => InsideExact(p)', TornInv'
  PROVE  Faultless'
<1>1. \A q \in Proc : q # p =>
        /\ pc[q] \notin Exclusive /\ pc'[q] = pc[q] /\ ret'[q] = ret[q]
  BY OthersSame DEF Shape, LockInv
<1>2. Dirty' \subseteq {p} => Dirty \subseteq {p}
  BY <1>1 DEF Dirty
<1>3. ASSUME NEW q \in Proc, q # p PROVE Numbered(q)' /\ Indexed(q, Covers)'
  BY <1>1, <1>3 DEF Numbered, Indexed, Exclusive
<1>4. CoverInv' /\ WholeInv'
  BY <1>3 DEF CoverInv, Inside
<1>5. ExactInv'
  BY <1>1, <1>2 DEF ExactInv, InsideExact
<1> QED  BY <1>4, <1>5 DEF Faultless

\* p works under the lock.
LEMMA InsideFacts ==
  ASSUME Shape, Faultless, NEW p \in Proc, pc[p] \in Exclusive
  PROVE  /\ exLock = p /\ exLock # Nobody
         /\ Numbered(p) /\ Indexed(p, Covers)
         /\ Dirty \subseteq {p} => Exactly(p)
         /\ torn => pc[p] = "save"
         /\ pc[p] # "write" => \A n \in Present : files[n].whole
         /\ \A n \in Present : files[n].whole \/ n = num[p]
<1>1. exLock = p /\ exLock # Nobody
  BY SentinelAssumption DEF Shape, LockInv
<1>2. Numbered(p) /\ Indexed(p, Covers) /\ (Dirty \subseteq {p} => Exactly(p))
  BY DEF Faultless, CoverInv, ExactInv
<1>3. \A q \in Proc : pc[q] = "write" => q = p
  BY <1>1 DEF Shape, LockInv, Exclusive
<1>4. torn => pc[p] = "save"
  BY <1>1 DEF Faultless, TornInv, Shape, LockInv, Exclusive
<1> QED  BY <1>1, <1>2, <1>3, <1>4 DEF Faultless, WholeInv

\* Steps that change no file: BuildInfo, SaveInfo, and the ends of commands.
LEMMA IndexFaultless ==
  ASSUME Shape, ScanInv, Faultless, NEW p \in Proc, pc[p] \in Exclusive,
         \/ ReadDir(p) \/ StatEntry(p) \/ TruncInfo(p) \/ WriteInfo(p) \/ Loaded(p)
         \/ PostLoad(p) \/ FilterAccept(p) \/ FilterReject(p)
         \/ CreateExists(p) \/ Posted(p) \/ Cancelled(p)
  PROVE  Inside(p)' /\ (Dirty \subseteq {p} => InsideExact(p)')
<1>a. /\ exLock = p /\ exLock # Nobody
      /\ Numbered(p) /\ Indexed(p, Covers)
      /\ Dirty \subseteq {p} => Exactly(p)
  BY InsideFacts
<1>b. files' = files /\ Present' = Present
  BY DEF ReadDir, StatEntry, TruncInfo, WriteInfo, Loaded, PostLoad, FilterAccept,
         NextNumber, FilterReject, CreateExists, CanCreate, Posted, Cancelled,
         disk, Present
<1>c. pc[p] # "write"
  BY DEF ReadDir, StatEntry, TruncInfo, WriteInfo, Loaded, PostLoad, FilterAccept,
         NextNumber, FilterReject, CreateExists, CanCreate, Posted, Cancelled
<1>d. WholeInv'
  BY <1>b, <1>c, InsideFacts DEF WholeInv
<1>e. /\ p \in DOMAIN pc /\ p \in DOMAIN grp /\ p \in DOMAIN num
      /\ p \in DOMAIN todo /\ p \in DOMAIN ret
  BY DEF Shape, TypeOK
<1> USE DEF Inside, InsideExact, Numbered, Indexed, Exactly
<1>1. CASE ReadDir(p)
  BY <1>a, <1>b, <1>d, <1>e, <1>1, ZeroInfoEmpty DEF ReadDir, Goto, locks
<1>2. CASE StatEntry(p)
  <2>1. PICK n \in todo[p] :
          /\ todo' = [todo EXCEPT ![p] = @ \ {n}]
          /\ IF n \in Present THEN grp' = [grp EXCEPT ![p] = Count(@, n)]
                              ELSE UNCHANGED grp
    BY <1>2 DEF StatEntry
  <2>2. pc[p] = "stat" /\ UNCHANGED <<pc, info, exLock>>
    BY <1>2 DEF StatEntry, locks, disk
  <2>3. ASSUME Dirty \subseteq {p}
        PROVE  todo'[p] \subseteq Present /\ IsSummary(grp'[p], Present \ todo'[p])
    <3>1. todo[p] \subseteq Present /\ IsSummary(grp[p], Present \ todo[p])
      BY <1>a, <2>2, <2>3
    <3>2. n \in Present /\ n \in Nat
      BY <2>1, <3>1, PresentFinite
    <3>3. Present \ todo[p] \in SUBSET Nat /\ IsFiniteSet(Present \ todo[p])
      BY PresentFinite
    <3>4. grp[p] \in AnyInfo
      BY DEF Shape, TypeOK, Info, Num, AnyInfo
    <3>5. IsSummary(Count(grp[p], n), (Present \ todo[p]) \cup {n})
      BY <2>1, <3>1, <3>2, <3>3, <3>4, CountExact
    <3>6. /\ todo'[p] = todo[p] \ {n} /\ grp'[p] = Count(grp[p], n)
          /\ Present \ todo'[p] = (Present \ todo[p]) \cup {n}
      BY <1>e, <2>1, <3>2
    <3> QED  BY <3>1, <3>5, <3>6
  <2> QED
    BY <1>a, <1>b, <1>d, <2>2, <2>3
<1>3. CASE TruncInfo(p)
  <2>1. pc'[p] = "save" /\ UNCHANGED <<grp, exLock>> /\ pc[p] \in {"trunc", "stat"}
        /\ (pc[p] = "stat" => todo[p] = {})
    BY <1>3, <1>e DEF TruncInfo, Goto, locks
  <2>2. Covers(grp[p], Present)
    BY <1>a, <2>1 DEF ScanInv, Scanned
  <2>3. Dirty \subseteq {p} => IsSummary(grp[p], Present)
    BY <1>a, <2>1
  <2> QED  BY <1>a, <1>b, <1>d, <2>1, <2>2, <2>3
<1>4. CASE WriteInfo(p)
  <2>1. pc'[p] \in {"loaded", "filter", "posted", "cancelled"} /\ pc[p] = "save"
        /\ UNCHANGED <<grp, exLock>> /\ info' = grp[p]
    BY <1>4, <1>e DEF WriteInfo, Goto, locks, Shape, ReturnInv, TypeOK, Return
  <2> QED  BY <1>a, <1>b, <1>d, <2>1
<1>5. CASE Loaded(p)
  <2>1. AfterLoad[cmd[p].op] \in {"reply", "postlock", "find"}
    BY <1>5 DEF Loaded, Shape, TypeOK, CommandInv, Command, AfterLoad
  <2>2. pc'[p] \in {"reply", "postlock", "find"} /\ pc[p] = "loaded"
        /\ UNCHANGED <<grp, info>>
    BY <1>5, <1>e, <2>1 DEF Loaded, Goto, disk
  <2> QED  BY <1>a, <1>b, <1>d, <2>2
<1>6. CASE PostLoad(p)
  <2>1. pc[p] = "postload" /\ ~ torn
    BY <1>6, InsideFacts DEF PostLoad
  <2>2. /\ UNCHANGED <<info, exLock>>
        /\ \/ pc'[p] = "filter" /\ info # Missing /\ grp'[p] = info
           \/ pc'[p] = "scan"
    BY <1>6, <1>e, <2>1 DEF PostLoad, InfoFound, Goto, disk, locks
  <2> QED  BY <1>a, <1>b, <1>d, <2>1, <2>2
<1>7. CASE FilterAccept(p)
  <2>1. /\ pc[p] = "filter" /\ pc'[p] = "create" /\ UNCHANGED <<info, grp, exLock>>
        /\ num'[p] = grp[p].end + 1
    BY <1>7, <1>e DEF FilterAccept, NextNumber, Goto, disk, locks
  <2> QED  BY <1>a, <1>b, <1>d, <2>1
<1>8. CASE CreateExists(p)
  <2>1. /\ pc[p] = "create" /\ num[p] \in Present /\ num[p] = grp[p].end + 1
        /\ Covers(grp[p], Present) /\ grp[p].end \in Nat
    BY <1>8, <1>a DEF CreateExists, CanCreate, Shape, TypeOK, Info, Num
  <2> QED  BY <2>1 DEF Covers
<1>9. CASE FilterReject(p) \/ Posted(p) \/ Cancelled(p)
  <2>1. pc[p] \in {"filter", "posted", "cancelled"} /\ pc'[p] = "idle" /\ info' = info
    BY <1>9 DEF FilterReject, Posted, Cancelled, Finish, Leave, disk
  <2> QED  BY <1>a, <1>b, <1>d, <2>1
<1> QED  BY <1>1, <1>2, <1>3, <1>4, <1>5, <1>6, <1>7, <1>8, <1>9

\* The two steps of Post that change files.
LEMMA CreateFaultless ==
  ASSUME Shape, Faultless, NEW p \in Proc, CreateNew(p)
  PROVE  Inside(p)' /\ (Dirty \subseteq {p} => InsideExact(p)')
<1>a. /\ exLock = p /\ exLock # Nobody
      /\ Numbered(p) /\ Indexed(p, Covers)
      /\ Dirty \subseteq {p} => Exactly(p)
      /\ \A n \in Present : files[n].whole
  BY InsideFacts DEF CreateNew, CanCreate, Exclusive
<1>b. /\ pc[p] = "create" /\ pc'[p] = "write" /\ num[p] \notin Present
      /\ num[p] \in Num
      /\ UNCHANGED <<info, grp, num, exLock>>
      /\ files' = [files EXCEPT ![num[p]] = Draft(cmd[p], num[p])]
  BY DEF CreateNew, CanCreate, Goto, locks, Shape, TypeOK
<1>c. Draft(cmd[p], num[p]) # NoFile
  <2>1. Draft(cmd[p], num[p]) \in Article
    BY <1>b DEF Shape, TypeOK, CommandInv, NumberInv, Command, Draft, GenId,
                Article, Id
  <2> QED  BY <2>1, SentinelAssumption
<1>d. /\ Present' = Present \cup {num[p]} /\ Present' \ {num[p]} = Present
      /\ \A n \in Present : files'[n] = files[n]
  BY <1>b, <1>c DEF Present, Shape, TypeOK
<1>e. WholeInv'
  BY <1>a, <1>b, <1>d DEF WholeInv
<1>1. Inside(p)'
  BY <1>a, <1>b, <1>d, <1>e DEF Inside, Numbered, Indexed
<1>2. Dirty \subseteq {p} => InsideExact(p)'
  BY <1>a, <1>b, <1>d DEF InsideExact, Exactly, Indexed
<1> QED  BY <1>1, <1>2

\* The article just written is the only one beyond the index it loaded, so
\* Post's increments describe the directory again.
LEMMA WriteFaultless ==
  ASSUME Shape, Faultless, NEW p \in Proc, WriteArticle(p), FaultFree'
  PROVE  Inside(p)' /\ (Dirty \subseteq {p} => InsideExact(p)')
<1>a. /\ exLock = p /\ exLock # Nobody
      /\ Numbered(p) /\ Indexed(p, Covers)
      /\ Dirty \subseteq {p} => Exactly(p)
      /\ \A n \in Present : files[n].whole \/ n = num[p]
  BY InsideFacts DEF WriteArticle, Exclusive
<1>b. /\ pc[p] = "write" /\ pc'[p] = "trunc"
      /\ num[p] = grp[p].end + 1
      /\ grp'[p] = Extend(grp[p], num[p])
      /\ UNCHANGED <<info, num, exLock>>
  BY <1>a DEF WriteArticle, Goto, locks, Shape, TypeOK, Numbered
<1>c. \/ num[p] \in Present /\ files' = [files EXCEPT ![num[p]].whole = TRUE]
      \/ num[p] \notin Present /\ files' = files
  BY DEF WriteArticle, FaultFree, Fault, Shape, TypeOK
<1>d. /\ Present' = Present
      /\ \A n \in Present : files'[n].whole
  <2>1. CASE num[p] \notin Present /\ files' = files
    BY <1>a, <2>1 DEF Present
  <2>2. CASE num[p] \in Present /\ files' = [files EXCEPT ![num[p]].whole = TRUE]
    <3> DEFINE whole == [files[num[p]] EXCEPT !.whole = TRUE]
    <3>1. files' = [files EXCEPT ![num[p]] = whole]
      BY <2>2
    <3>2. files[num[p]] \in Article
      BY <2>2 DEF Present, Shape, TypeOK
    <3>3. whole \in Article /\ whole.whole /\ whole # NoFile
      BY <3>2, SentinelAssumption DEF Article
    <3> HIDE DEF whole
    <3>4. files \in [Num -> Article \cup {NoFile}] /\ num[p] \in Num
      BY DEF Shape, TypeOK
    <3>5. \A n \in Num : files'[n] = IF n = num[p] THEN whole ELSE files[n]
      BY <3>1, <3>4
    <3>6. \A n \in Num : files'[n] # NoFile <=> files[n] # NoFile
      BY <2>2, <3>3, <3>5 DEF Present
    <3>7. Present' = Present
      BY <3>6 DEF Present
    <3>8. \A n \in Present : n \in Num
      BY DEF Present
    <3>9. \A n \in Present : files'[n].whole
      BY <1>a, <3>3, <3>5, <3>8
    <3> QED  BY <3>7, <3>9
  <2> QED  BY <1>c, <2>1, <2>2
<1>e. grp[p] \in AnyInfo /\ grp[p].start <= grp[p].end
  BY DEF Shape, TypeOK, NumberInv, Info, Num, AnyInfo
<1>1. Covers(grp'[p], Present)
  <2> DEFINE S == Present \ {num[p]}
  <2>1. Covers(grp[p], S) /\ S \in SUBSET Nat /\ 0 \notin S
    BY <1>a, <1>b, PresentFinite DEF Indexed
  <2>2. Covers(Extend(grp[p], num[p]), S \cup {num[p]})
    BY <1>b, <1>e, <2>1, ExtendCovers
  <2> QED  BY <1>b, <2>2, CoversFewer
<1>2. ASSUME Dirty \subseteq {p} PROVE IsSummary(grp'[p], Present)
  <2> DEFINE S == Present \ {num[p]}
  <2>1. /\ IsSummary(grp[p], S) /\ num[p] \in Present
        /\ S \in SUBSET Nat /\ 0 \notin S /\ IsFiniteSet(S)
    BY <1>2, <1>a, <1>b, PresentFinite DEF Exactly, Indexed
  <2>2. IsSummary(Extend(grp[p], num[p]), S \cup {num[p]})
    BY <1>b, <1>e, <2>1, ExtendExact
  <2>3. S \cup {num[p]} = Present
    BY <2>1
  <2> QED  BY <1>b, <2>2, <2>3
<1>3. WholeInv'
  BY <1>d DEF WholeInv
<1>4. Inside(p)'
  BY <1>a, <1>b, <1>d, <1>1, <1>3 DEF Inside, Numbered, Indexed
<1>5. Dirty \subseteq {p} => InsideExact(p)'
  BY <1>a, <1>b, <1>d, <1>2 DEF InsideExact, Exactly, Indexed
<1> QED  BY <1>4, <1>5

-----------------------------------------------------------------------------
(* The scan, which also has to be right when something failed before.      *)

\* A scan keeps up with the directory whatever fails and whoever removes
\* articles meanwhile (BuildInfo).
LEMMA ScanStep ==
  ASSUME Shape, ScanInv, NEW p \in Proc, Act(p)
  PROVE  ScanInv'
<1>1. ASSUME NEW q \in Proc, q # p PROVE Scanned(q)'
  <2>1. /\ pc'[q] = pc[q] /\ ret'[q] = ret[q] /\ grp'[q] = grp[q]
        /\ todo'[q] = todo[q] /\ grp[q].total \in Nat
    BY <1>1, OthersSame DEF Shape, TypeOK, Info
  <2>2. CASE pc[q] \notin {"stat", "save"}
    BY <2>1, <2>2 DEF Scanned
  <2>3. CASE pc[q] \in {"stat", "save"}
    <3>1. pc[p] \notin Exclusive
      BY <1>1, <2>3 DEF Shape, LockInv, Exclusive
    <3>2. Present' \subseteq Present
      BY <3>1, OutsideStep DEF Present
    <3>3. Present' \ todo[q] \subseteq Present \ todo[q]
      BY <3>2
    <3>4. /\ Cardinality(Present') <= Cardinality(Present)
          /\ Cardinality(Present' \ todo[q]) <= Cardinality(Present \ todo[q])
          /\ Cardinality(Present) \in Nat /\ Cardinality(Present') \in Nat
          /\ Cardinality(Present \ todo[q]) \in Nat
          /\ Cardinality(Present' \ todo[q]) \in Nat
      <4>1. /\ IsFiniteSet(Present) /\ IsFiniteSet(Present')
            /\ IsFiniteSet(Present \ todo[q]) /\ IsFiniteSet(Present' \ todo[q])
        BY <3>2, <3>3, PresentFinite
      <4> QED  BY <3>2, <3>3, <4>1, FS_Subset, FS_CardinalityType
    <3>5. Scanned(q)
      BY DEF ScanInv
    <3> QED  BY <2>1, <3>2, <3>3, <3>4, <3>5, CoversFewer DEF Scanned
  <2> QED  BY <2>2, <2>3
<1>2. Scanned(p)'
  <2>1. CASE ReadDir(p)
    <3>1. pc'[p] = "stat" /\ Present' \ todo'[p] = {} /\ grp'[p] = ZeroInfo
      BY <2>1 DEF ReadDir, Goto, disk, Present, Shape, TypeOK
    <3> QED  BY <3>1, ZeroInfoEmpty, FS_EmptySet DEF Scanned, IsSummary, ZeroInfo
  <2>2. CASE StatEntry(p)
    <3>1. PICK n \in todo[p] :
            /\ todo' = [todo EXCEPT ![p] = @ \ {n}]
            /\ IF n \in Present THEN grp' = [grp EXCEPT ![p] = Count(@, n)]
                                ELSE UNCHANGED grp
      BY <2>2 DEF StatEntry
    <3>2. pc[p] = "stat" /\ pc'[p] = "stat" /\ Present' = Present
          /\ todo'[p] = todo[p] \ {n}
      BY <2>2, <3>1 DEF StatEntry, disk, Present, Shape, TypeOK
    <3>3. Covers(grp[p], Present \ todo[p])
          /\ grp[p].total >= Cardinality(Present \ todo[p])
      BY <3>2 DEF ScanInv, Scanned
    <3>4. CASE n \in Present
      <4>1. Present \ todo'[p] = (Present \ todo[p]) \cup {n}
        BY <3>1, <3>2, <3>4
      <4>2. grp'[p] = Count(grp[p], n) /\ grp[p] \in AnyInfo
        BY <3>1, <3>4 DEF Shape, TypeOK, Info, Num, AnyInfo
      <4>3. Present \ todo[p] \in SUBSET Nat /\ IsFiniteSet(Present \ todo[p]) /\ n \in Nat
        BY <3>4, PresentFinite
      <4>4. /\ Covers(Count(grp[p], n), (Present \ todo[p]) \cup {n})
            /\ Count(grp[p], n).total >= Cardinality((Present \ todo[p]) \cup {n})
        BY <3>3, <4>2, <4>3, CountCovers
      <4> QED  BY <3>2, <4>1, <4>2, <4>4 DEF Scanned
    <3>5. CASE n \notin Present
      <4>1. Present \ todo'[p] = Present \ todo[p] /\ grp'[p] = grp[p]
        BY <3>1, <3>2, <3>5
      <4> QED  BY <3>2, <3>3, <4>1 DEF Scanned
    <3> QED  BY <3>4, <3>5
  <2>3. CASE TruncInfo(p)
    <3>1. /\ pc'[p] = "save" /\ Present' = Present /\ grp'[p] = grp[p] /\ ret'[p] = ret[p]
          /\ \/ pc[p] = "trunc" /\ ret[p] = "posted"
             \/ pc[p] = "stat" /\ todo[p] = {}
      BY <2>3 DEF TruncInfo, Goto, locks, Present, Shape, TypeOK, ReturnInv
    <3>2. todo[p] = {} => Present \ todo[p] = Present
      OBVIOUS
    <3>3. Scanned(p)
      BY DEF ScanInv
    <3> QED  BY <3>1, <3>2, <3>3 DEF Scanned
  <2>4. CASE ~ (ReadDir(p) \/ StatEntry(p) \/ TruncInfo(p))
    <3>1. pc'[p] \notin {"stat", "save"}
      <4> USE DEF Act, Shape, TypeOK, Goto, Finish, Leave
      <4>1. CASE Arrive(p)
        BY <4>1 DEF Arrive, BeginRead, BeginPost, BeginCancel, Begin
      <4>2. CASE ReadInfo(p) \/ Loaded(p)
        <5>1. AfterLoad[cmd[p].op] \in {"reply", "postlock", "find"}
          BY <4>2 DEF CommandInv, Command, AfterLoad, ReadInfo, Loaded
        <5> QED  BY <4>2, <5>1 DEF ReadInfo, Loaded
      <4>3. CASE WriteInfo(p)
        BY <4>3 DEF WriteInfo, ReturnInv, Return
      <4>4. CASE OpenInfo(p) \/ ReadLock(p) \/ Reply(p) \/ BuildLock(p)
        BY <4>4 DEF OpenInfo, ReadLock, Reply, BuildLock, LockFree
      <4>5. CASE Post(p)
        BY <4>5 DEF Post, PostLock, LockFree, PostLoad, FilterAccept, NextNumber,
                    FilterReject, CreateExists, CanCreate, CreateNew,
                    WriteArticle, Posted
      <4>6. CASE Cancel(p)
        BY <4>6 DEF Cancel, ProbeHit, ProbeMiss, Prev, ProbeEnd, CheckPass,
                    CheckDeny, Remove, RemoveFail, Cancelled
      <4>7. CASE Fail(p)
        BY <4>7 DEF Fail, SaveFail, LoadFail, CreateFail, GatewayKilled
      <4> QED  BY <2>4, <4>1, <4>2, <4>3, <4>4, <4>5, <4>6, <4>7 DEF Step, Index
    <3> QED  BY <3>1 DEF Scanned
  <2> QED  BY <2>1, <2>2, <2>3, <2>4
<1> QED  BY <1>1, <1>2 DEF ScanInv

-----------------------------------------------------------------------------
(* The invariant.                                                          *)

\* Every step of a command keeps the fault-free part of the invariant.
LEMMA StepFaultless ==
  ASSUME Shape, ScanInv, Faultless, NEW p \in Proc, Act(p), FaultFree'
  PROVE  Faultless'
<1>1. CASE pc[p] \notin Exclusive
  BY <1>1, OutsideFaultless
<1>2. CASE pc[p] \in Exclusive
  <2>1. ~ Fail(p)
    BY DEF FaultFree, Fail, SaveFail, LoadFail, CreateFail, GatewayKilled, Fault,
           Shape, TypeOK
  <2>2. \/ ReadDir(p) \/ StatEntry(p) \/ TruncInfo(p) \/ WriteInfo(p) \/ Loaded(p)
        \/ PostLoad(p) \/ FilterAccept(p) \/ FilterReject(p)
        \/ CreateExists(p) \/ Posted(p) \/ Cancelled(p)
        \/ CreateNew(p) \/ WriteArticle(p)
    <3>1. ~ Arrive(p)
      BY <1>2 DEF Arrive, BeginRead, BeginPost, BeginCancel, Begin, Exclusive
    <3>2. ~ (OpenInfo(p) \/ ReadLock(p) \/ ReadInfo(p) \/ Reply(p) \/ BuildLock(p)
             \/ PostLock(p))
      BY <1>2 DEF OpenInfo, ReadLock, ReadInfo, Reply, BuildLock, LockFree,
                  PostLock, Exclusive
    <3>3. ~ (ProbeHit(p) \/ ProbeMiss(p) \/ ProbeEnd(p) \/ CheckPass(p) \/ CheckDeny(p)
             \/ Remove(p) \/ RemoveFail(p))
      BY <1>2 DEF ProbeHit, ProbeMiss, Prev, ProbeEnd, CheckPass, CheckDeny,
                  Remove, RemoveFail, Exclusive
    <3> QED  BY <2>1, <3>1, <3>2, <3>3 DEF Act, Step, Index, Post, Cancel
  <2>3. Inside(p)' /\ (Dirty \subseteq {p} => InsideExact(p)')
    BY <1>2, <2>2, IndexFaultless, CreateFaultless, WriteFaultless
  <2>4. TornInv'
    BY TornStep DEF Faultless
  <2> QED  BY <1>2, <2>3, <2>4, InsideFrame
<1> QED  BY <1>1, <1>2

\* A step after which nothing has failed was none of the failures.
LEMMA FaultFreeBefore ==
  ASSUME Shape, [Next]_vars, FaultFree'
  PROVE  FaultFree /\ ~ ServerExit
<1> USE DEF FaultFree, Shape, TypeOK
<1>1. ~ ServerExit
  BY DEF ServerExit
<1>2. ASSUME NEW p \in Proc, Arrive(p) PROVE FaultFree
  BY <1>2 DEF Arrive, BeginRead, BeginPost, BeginCancel, Begin
<1>3. ASSUME NEW p \in Proc, Step(p) PROVE FaultFree
  <2>1. CASE Index(p)
    BY <2>1 DEF Index, OpenInfo, ReadLock, ReadInfo, Reply, BuildLock, LockFree,
                ReadDir, StatEntry, TruncInfo, WriteInfo, Loaded, counters
  <2>2. CASE Post(p)
    BY <2>2 DEF Post, PostLock, LockFree, PostLoad, FilterAccept, NextNumber,
                FilterReject, CreateExists, CanCreate, CreateNew, WriteArticle,
                Posted, Fault, counters
  <2>3. CASE Cancel(p)
    BY <2>3 DEF Cancel, ProbeHit, ProbeMiss, Prev, ProbeEnd, CheckPass, CheckDeny,
                Remove, RemoveFail, Cancelled, counters
  <2> QED  BY <1>3, <2>1, <2>2, <2>3 DEF Step
<1>4. ASSUME NEW p \in Proc, Fail(p) PROVE FaultFree
  BY <1>4 DEF Fail, SaveFail, LoadFail, CreateFail, GatewayKilled, Fault
<1>5. CASE UNCHANGED vars
  BY <1>1, <1>5 DEF vars, disk, locks, locals, counters
<1> HIDE DEF FaultFree, Shape, TypeOK
<1> QED  BY <1>1, <1>2, <1>3, <1>4, <1>5 DEF Next, Quiet

\* The inductive invariant holds initially.
LEMMA InitInd == Init => IndInv
<1> SUFFICES ASSUME Init PROVE IndInv
  OBVIOUS
<1>1. Shape
  BY InitShape
<1>2. /\ pc = [p \in Proc |-> "idle"] /\ exLock = Nobody
      /\ info = Missing \/ IsSummary(info, Present)
      /\ files = [n \in Num |-> IF n \in DOMAIN Stored THEN Stored[n] ELSE NoFile]
  BY DEF Init
<1> HIDE DEF Init
<1>3. ScanInv
  BY <1>2 DEF ScanInv, Scanned
<1>4. CoverInv
  BY <1>2 DEF CoverInv, Numbered, Indexed, IsSummary
<1>5. ExactInv
  BY <1>2 DEF ExactInv, Exclusive
<1>6. WholeInv
  BY <1>2, StoredAssumption DEF WholeInv, Present
<1>7. TornInv
  BY DEF Init, TornInv
<1> QED  BY <1>1, <1>3, <1>4, <1>5, <1>6, <1>7 DEF IndInv

\* Every step keeps the inductive invariant.
LEMMA NextInd == IndInv /\ [Next]_vars => IndInv'
<1> SUFFICES ASSUME IndInv, [Next]_vars PROVE IndInv'
  OBVIOUS
<1>1. Shape /\ ScanInv /\ Shape'
  BY NextShape DEF IndInv
<1>2. CASE \E p \in Proc : Act(p)
  <2>1. PICK p \in Proc : Act(p)
    BY <1>2
  <2>2. ScanInv'
    BY <1>1, <2>1, ScanStep
  <2>3. FaultFree' => Faultless'
    BY <1>1, <2>1, FaultFreeBefore, StepFaultless DEF IndInv, Faultless
  <2> QED  BY <1>1, <2>2, <2>3 DEF IndInv, Faultless
<1>3. CASE ServerExit
  <2>1. UNCHANGED files /\ \A p \in Proc :
          pc'[p] = "idle" \/ /\ pc'[p] = pc[p] /\ ret'[p] = ret[p]
                             /\ grp'[p] = grp[p] /\ todo'[p] = todo[p]
    BY <1>3 DEF ServerExit, Leave, disk
  <2>2. ScanInv'
    BY <1>1, <2>1 DEF ScanInv, Scanned, Present
  <2> QED  BY <1>1, <1>3, <2>2, FaultFreeBefore DEF IndInv
<1>4. CASE UNCHANGED vars
  BY ZenonT(40), <1>1, <1>4 DEF IndInv, ScanInv, Scanned, FaultFree, CoverInv, ExactInv,
                    WholeInv, TornInv, Numbered, Indexed, Exactly, Dirty, Present, vars,
                    disk, locks, locals, counters
<1> QED  BY <1>2, <1>3, <1>4 DEF Next, Quiet, Act

\* The inductive invariant holds in every reachable state.
THEOREM Inductive == Spec => []IndInv
BY InitInd, NextInd, PTL DEF Spec

\* As long as nothing fails, .info is exact whenever the lock is free and no
\* cancel is between removal and rebuild (Post's increments, BuildInfo's scan).
THEOREM IndexIsExact == Spec => []IndexExact
<1>1. IndInv => IndexExact
  BY DEF IndInv, ExactInv, IndexExact
<1> QED  BY <1>1, Inductive, PTL

\* As long as nothing fails, no article is ever out of the range of the index
\* while the lock is free, even in the middle of cancels.
THEOREM IndexAlwaysCovers == Spec => []IndexCovers
<1>1. IndInv => IndexCovers
  BY DEF IndInv, CoverInv, IndexCovers
<1> QED  BY <1>1, Inductive, PTL

\* As long as nothing fails, an incomplete article lies beyond the End in .info.
THEOREM OnlyWholePublished == Spec => []PublishedWhole
<1>1. ASSUME IndInv PROVE PublishedWhole
  <2>1. SUFFICES ASSUME FaultFree, info # Missing, NEW n \in Present, n <= info.end,
                        ~ files[n].whole
                 PROVE  FALSE
    BY DEF PublishedWhole
  <2>2. PICK p \in Proc : pc[p] = "write" /\ num[p] = n
    BY <1>1, <2>1 DEF IndInv, WholeInv
  <2>3. info = grp[p] /\ n = grp[p].end + 1 /\ grp[p].end \in Nat
    BY <1>1, <2>1, <2>2 DEF IndInv, CoverInv, Numbered, Shape, TypeOK, Info, Num
  <2> QED  BY <2>1, <2>3
<1> QED  BY <1>1, Inductive, PTL

-----------------------------------------------------------------------------
(* Properties of steps.                                                    *)

\* What a rebuild writes covers every article and counts no fewer than there
\* are, whatever exits and failures came before (BuildInfo).
THEOREM RebuildsCover == Spec => RebuildCovers
<1>1. ASSUME IndInv, [Next]_vars
      PROVE  [\A p \in Proc :
                pc[p] = "save" /\ ret[p] # "posted" /\ pc'[p] = ret[p]
                  => Covers(info', Present) /\ info'.total >= Cardinality(Present)]_vars
  <2>1. SUFFICES ASSUME NEW p \in Proc, pc[p] = "save", ret[p] # "posted", pc'[p] = ret[p]
                 PROVE  Covers(info', Present) /\ info'.total >= Cardinality(Present)
    OBVIOUS
  <2>2. Covers(grp[p], Present) /\ grp[p].total >= Cardinality(Present)
    BY <1>1, <2>1 DEF IndInv, ScanInv, Scanned
  <2>3. info' = grp[p]
    <3> USE DEF IndInv, Shape, TypeOK, ReturnInv
    <3>1. pc'[p] \notin {"idle", "save"}
      BY <1>1, <2>1 DEF Return
    <3>2. ~ ServerExit /\ ~ UNCHANGED vars
      BY <1>1, <2>1, <3>1 DEF ServerExit, Leave, vars, locals
    <3>3. PICK q \in Proc : Act(q)
      BY <1>1, <3>2 DEF Next, Quiet, Act
    <3>4. q = p
      BY <1>1, <2>1, <3>1, <3>3, OthersSame
    <3>5. WriteInfo(p)
      <4>1. ~ Arrive(p)
        BY <2>1 DEF Arrive, BeginRead, BeginPost, BeginCancel, Begin
      <4>2. ~ Fail(p)
        BY <3>1 DEF Fail, SaveFail, LoadFail, CreateFail, GatewayKilled, Finish,
                    Leave
      <4>3. ~ Cancel(p) /\ ~ Post(p)
        BY <2>1 DEF Cancel, ProbeHit, ProbeMiss, Prev, ProbeEnd, CheckPass,
                    CheckDeny, Remove, RemoveFail, Cancelled, Post, PostLock,
                    LockFree, PostLoad, FilterAccept, NextNumber, FilterReject,
                    CreateExists, CanCreate, CreateNew, WriteArticle, Posted
      <4>4. Index(p) => WriteInfo(p)
        BY <2>1 DEF Index, OpenInfo, ReadLock, ReadInfo, Reply, BuildLock,
                    LockFree, ReadDir, StatEntry, TruncInfo, Loaded
      <4> QED  BY <3>3, <3>4, <4>1, <4>2, <4>3, <4>4 DEF Act, Step
    <3> QED  BY <3>5 DEF WriteInfo
  <2> QED  BY <2>2, <2>3
<1> QED  BY <1>1, Inductive, PTL DEF Spec, RebuildCovers

\* A complete article is never overwritten, whatever fails (O_EXCL in Post).
THEOREM NeverOverwritten == Spec => NoOverwrite
<1>1. ASSUME IndInv, [Next]_vars
      PROVE  [\A n \in Num :
                n \in Present /\ files[n].whole /\ files'[n] # NoFile
                  => files'[n] = files[n]]_vars
  <2>1. SUFFICES ASSUME NEW n \in Num, n \in Present, files[n].whole, files'[n] # NoFile
                 PROVE  files'[n] = files[n]
    OBVIOUS
  <2>2. CASE UNCHANGED files
    BY <2>2
  <2>3. CASE \E p \in Proc : CreateNew(p)
    BY <1>1, <2>1, <2>3 DEF CreateNew, CanCreate, IndInv, Shape, TypeOK
  <2>4. CASE \E p \in Proc : WriteArticle(p)
    <3>1. PICK p \in Proc : WriteArticle(p)
      BY <2>4
    <3>2. CASE files' = [files EXCEPT ![num[p]].whole = TRUE]
      <4> DEFINE whole == [files[num[p]] EXCEPT !.whole = TRUE]
      <4>1. files' = [files EXCEPT ![num[p]] = whole]
        BY <3>2
      <4>2. files[n] \in Article
        BY <1>1, <2>1 DEF IndInv, Shape, TypeOK, Present
      <4>3. n = num[p] => whole = files[n]
        BY <2>1, <4>2 DEF Article
      <4>4. n \in DOMAIN files
        BY <1>1 DEF IndInv, Shape, TypeOK
      <4> HIDE DEF whole
      <4> QED  BY <4>1, <4>3, <4>4
    <3> QED  BY <2>2, <3>1, <3>2 DEF WriteArticle
  <2>5. CASE \E p \in Proc : Remove(p)
    BY <1>1, <2>1, <2>5 DEF Remove, IndInv, Shape, TypeOK
  <2>6. \/ UNCHANGED files
        \/ \E p \in Proc : CreateNew(p) \/ WriteArticle(p) \/ Remove(p)
    <3> USE DEF disk, vars
    <3>1. ASSUME NEW p \in Proc, Arrive(p) PROVE UNCHANGED files
      BY <3>1 DEF Arrive, BeginRead, BeginPost, BeginCancel, Begin
    <3>2. ASSUME NEW p \in Proc, Index(p) PROVE UNCHANGED files
      BY <3>2 DEF Index, OpenInfo, ReadLock, ReadInfo, Reply, BuildLock, LockFree,
                  ReadDir, StatEntry, TruncInfo, WriteInfo, Loaded
    <3>3. ASSUME NEW p \in Proc, Post(p), ~ CreateNew(p), ~ WriteArticle(p)
          PROVE  UNCHANGED files
      BY <3>3 DEF Post, PostLock, LockFree, PostLoad, FilterAccept, NextNumber,
                  FilterReject, CreateExists, CanCreate, Posted
    <3>4. ASSUME NEW p \in Proc, Cancel(p), ~ Remove(p) PROVE UNCHANGED files
      BY <3>4 DEF Cancel, ProbeHit, ProbeMiss, Prev, ProbeEnd, CheckPass,
                  CheckDeny, RemoveFail, Cancelled
    <3>5. ASSUME NEW p \in Proc, Fail(p) PROVE UNCHANGED files
      BY <3>5 DEF Fail, SaveFail, LoadFail, CreateFail, GatewayKilled
    <3>6. ServerExit => UNCHANGED files
      BY DEF ServerExit
    <3> QED  BY <1>1, <3>1, <3>2, <3>3, <3>4, <3>5, <3>6 DEF Next, Step, Quiet
  <2> QED  BY <2>2, <2>3, <2>4, <2>5, <2>6
<1> QED  BY <1>1, Inductive, PTL DEF Spec, NoOverwrite

-----------------------------------------------------------------------------
(* What was answered 240.                                                  *)

\* Failed file operations are counted up.
LEMMA IoErrorsStay ==
  ASSUME Shape, [Next]_vars, ioerrs' = 0
  PROVE  ioerrs = 0
<1> USE DEF Shape, TypeOK
<1>1. ASSUME NEW p \in Proc, Arrive(p) PROVE ioerrs = 0
  BY <1>1 DEF Arrive, BeginRead, BeginPost, BeginCancel, Begin
<1>2. ASSUME NEW p \in Proc, Index(p) PROVE ioerrs = 0
  BY <1>2 DEF Index, OpenInfo, ReadLock, ReadInfo, Reply, BuildLock, LockFree,
              ReadDir, StatEntry, TruncInfo, WriteInfo, Loaded, counters
<1>3. ASSUME NEW p \in Proc, Post(p) PROVE ioerrs = 0
  BY <1>3 DEF Post, PostLock, LockFree, PostLoad, FilterAccept, NextNumber,
              FilterReject, CreateExists, CanCreate, CreateNew, WriteArticle,
              Posted, Fault, counters
<1>4. ASSUME NEW p \in Proc, Cancel(p) PROVE ioerrs = 0
  BY <1>4 DEF Cancel, ProbeHit, ProbeMiss, Prev, ProbeEnd, CheckPass, CheckDeny,
              Remove, RemoveFail, Cancelled, counters
<1>5. ASSUME NEW p \in Proc, Fail(p) PROVE ioerrs = 0
  BY <1>5 DEF Fail, SaveFail, LoadFail, CreateFail, GatewayKilled, Fault
<1>6. CASE ServerExit
  BY <1>6 DEF ServerExit
<1>7. CASE UNCHANGED vars
  BY <1>7 DEF vars, counters
<1> HIDE DEF Shape, TypeOK
<1> QED  BY <1>1, <1>2, <1>3, <1>4, <1>5, <1>6, <1>7 DEF Next, Step, Quiet

\* The steps that change a file or the record of answered posts.
LEMMA FileSteps ==
  ASSUME NEW p \in Proc, Act(p)
  PROVE  UNCHANGED <<files, acked>> \/ CreateNew(p) \/ WriteArticle(p) \/ Remove(p)
         \/ Posted(p)
<1> USE DEF disk
<1>1. ASSUME Arrive(p) PROVE UNCHANGED <<files, acked>>
  BY <1>1 DEF Arrive, BeginRead, BeginPost, BeginCancel, Begin
<1>2. ASSUME Index(p) PROVE UNCHANGED <<files, acked>>
  BY <1>2 DEF Index, OpenInfo, ReadLock, ReadInfo, Reply, BuildLock, LockFree,
              ReadDir, StatEntry, TruncInfo, WriteInfo, Loaded
<1>3. ASSUME Post(p), ~ CreateNew(p), ~ WriteArticle(p), ~ Posted(p)
      PROVE  UNCHANGED <<files, acked>>
  BY <1>3 DEF Post, PostLock, LockFree, PostLoad, FilterAccept, NextNumber,
              FilterReject, CreateExists, CanCreate
<1>4. ASSUME Cancel(p), ~ Remove(p) PROVE UNCHANGED <<files, acked>>
  BY <1>4 DEF Cancel, ProbeHit, ProbeMiss, Prev, ProbeEnd, CheckPass,
              CheckDeny, RemoveFail, Cancelled
<1>5. ASSUME Fail(p) PROVE UNCHANGED <<files, acked>>
  BY <1>5 DEF Fail, SaveFail, LoadFail, CreateFail, GatewayKilled
<1> QED  BY <1>1, <1>2, <1>3, <1>4, <1>5 DEF Act, Step

\* Only the writing of its article makes a post one that is to be answered.
LEMMA UnansweredBefore ==
  ASSUME Shape, NEW p \in Proc, Act(p), ~ WriteArticle(p), Unanswered(p)'
  PROVE  Unanswered(p) /\ num'[p] = num[p]
<1> USE DEF Shape, TypeOK, Goto, Unanswered
<1>1. CASE Arrive(p)
  BY <1>1 DEF Arrive, BeginRead, BeginPost, BeginCancel, Begin
<1>2. CASE Index(p)
  <2>1. ASSUME Loaded(p) \/ ReadInfo(p) PROVE FALSE
    <3>1. AfterLoad[cmd[p].op] \in {"reply", "postlock", "find"}
      BY <2>1 DEF CommandInv, Command, AfterLoad, ReadInfo, Loaded
    <3>2. pc'[p] = AfterLoad[cmd[p].op]
      BY <2>1 DEF ReadInfo, Loaded
    <3> QED  BY <3>1, <3>2
  <2>2. CASE TruncInfo(p)
    BY <2>2 DEF TruncInfo, ReturnInv
  <2>3. CASE WriteInfo(p)
    BY <2>3 DEF WriteInfo, ReturnInv, Return
  <2>4. CASE OpenInfo(p) \/ ReadLock(p) \/ Reply(p) \/ BuildLock(p) \/ ReadDir(p)
             \/ StatEntry(p)
    BY <2>4 DEF OpenInfo, ReadLock, Reply, BuildLock, LockFree, ReadDir, StatEntry,
                Finish, Leave
  <2> QED  BY <1>2, <2>1, <2>2, <2>3, <2>4 DEF Index
<1>3. CASE Post(p)
  BY <1>3 DEF Post, PostLock, LockFree, PostLoad, FilterAccept, NextNumber,
              FilterReject, CreateExists, CanCreate, CreateNew, Posted, Finish, Leave
<1>4. CASE Cancel(p)
  BY <1>4 DEF Cancel, ProbeHit, ProbeMiss, Prev, ProbeEnd, CheckPass, CheckDeny,
              Remove, RemoveFail, Cancelled, Finish, Leave
<1>5. CASE Fail(p)
  BY <1>5 DEF Fail, SaveFail, LoadFail, CreateFail, GatewayKilled, Finish, Leave
<1> QED  BY <1>1, <1>2, <1>3, <1>4, <1>5 DEF Act, Step

\* A post works on its article alone: the others have none to answer meanwhile.
LEMMA OneUnanswered ==
  ASSUME Shape, NEW p \in Proc, pc[p] \in Exclusive, NEW q \in Proc, Unanswered(q)
  PROVE  q = p
BY DEF Unanswered, Shape, LockInv, Exclusive

\* Whether a post writes, is answered or cancelled, and whatever fails, what was
\* answered stays complete.
LEMMA KeptAct ==
  ASSUME Shape, Shape', KeptInv, NEW p \in Proc, Act(p), ioerrs' = 0 => ioerrs = 0
  PROVE  KeptInv'
<1>a. ASSUME NEW q \in Proc, Unanswered(q)', ~ WriteArticle(p)
      PROVE  Unanswered(q) /\ num'[q] = num[q]
  <2>1. CASE q = p
    BY <1>a, <2>1, UnansweredBefore
  <2>2. CASE q # p
    BY <1>a, <2>2, OthersSame DEF Unanswered
  <2> QED  BY <2>1, <2>2
<1>b. /\ acked \subseteq Present /\ Present \subseteq Num
      /\ files \in [Num -> Article \cup {NoFile}] /\ num[p] \in Num
  BY DEF KeptInv, AckedKept, Shape, TypeOK, Present
<1>1. CASE UNCHANGED <<files, acked>> /\ ~ WriteArticle(p)
  <2>1. Present' = Present
    BY <1>1 DEF Present
  <2>2. AckedKept'
    BY <1>1, <2>1 DEF KeptInv, AckedKept
  <2> QED  BY <1>1, <1>a, <2>1, <2>2 DEF KeptInv
<1>2. CASE Posted(p)
  <2>1. /\ files' = files /\ Present' = Present /\ ~ WriteArticle(p)
        /\ acked' = acked \cup ({num[p]} \cap Present) /\ Unanswered(p)
    BY <1>2 DEF Posted, disk, Present, WriteArticle, Unanswered
  <2>2. AckedKept'
    BY <1>b, <2>1 DEF KeptInv, AckedKept
  <2> QED  BY <1>a, <2>1, <2>2 DEF KeptInv
<1>3. CASE Remove(p)
  <2>1. /\ files' = [files EXCEPT ![num[p]] = NoFile] /\ acked' = acked \ {num[p]}
        /\ ~ WriteArticle(p)
    BY <1>3 DEF Remove, WriteArticle
  <2>2. /\ Present' = Present \ {num[p]}
        /\ \A n \in Present' : files'[n] = files[n]
    BY <1>b, <2>1 DEF Present
  <2>3. AckedKept'
    BY <1>b, <2>1, <2>2 DEF KeptInv, AckedKept
  <2> QED  BY <1>a, <2>1, <2>2, <2>3 DEF KeptInv
<1>4. CASE CreateNew(p)
  <2>1. /\ pc[p] = "create" /\ num[p] \notin Present /\ acked' = acked /\ ~ WriteArticle(p)
        /\ files' = [files EXCEPT ![num[p]] = Draft(cmd[p], num[p])]
    BY <1>4 DEF CreateNew, CanCreate, WriteArticle
  <2>2. \A n \in Present : n \in Present' /\ files'[n] = files[n]
    BY <1>b, <2>1 DEF Present
  <2>3. AckedKept'
    BY <1>b, <2>1, <2>2 DEF KeptInv, AckedKept
  <2>4. \A q \in Proc : ~ Unanswered(q)'
    <3>1. \A q \in Proc : Unanswered(q) => q = p
      BY <2>1, OneUnanswered DEF Exclusive
    <3>2. ~ Unanswered(p)
      BY <2>1 DEF Unanswered
    <3> QED  BY <1>a, <2>1, <3>1, <3>2
  <2> QED  BY <2>3, <2>4 DEF KeptInv
<1>5. CASE WriteArticle(p)
  <2>1. /\ pc[p] = "write" /\ acked' = acked /\ pc'[p] = "trunc" /\ num' = num
    BY <1>5 DEF WriteArticle, Goto, Shape, TypeOK
  <2>2. \A q \in Proc : Unanswered(q)' => q = p
    BY <2>1, OneUnanswered, <1>5 DEF Shape, LockInv, Exclusive, Unanswered
  <2>3. CASE files' = files /\ (num[p] \notin Present \/ ioerrs' # 0)
    <3>1. Present' = Present
      BY <2>3 DEF Present
    <3> QED  BY <2>1, <2>2, <2>3, <3>1 DEF KeptInv, AckedKept
  <2>4. CASE num[p] \in Present /\ files' = [files EXCEPT ![num[p]].whole = TRUE]
    <3> DEFINE whole == [files[num[p]] EXCEPT !.whole = TRUE]
    <3>1. files' = [files EXCEPT ![num[p]] = whole]
      BY <2>4
    <3>2. whole \in Article /\ whole.whole /\ whole # NoFile
      <4>1. files[num[p]] \in Article
        BY <1>b, <2>4 DEF Present
      <4> QED  BY <4>1, SentinelAssumption DEF Article
    <3> HIDE DEF whole
    <3>3. \A n \in Num : files'[n] = IF n = num[p] THEN whole ELSE files[n]
      BY <1>b, <3>1
    <3>4. Present' = Present
      <4>1. \A n \in Num : files'[n] # NoFile <=> files[n] # NoFile
        BY <2>4, <3>2, <3>3 DEF Present
      <4> QED  BY <4>1 DEF Present
    <3>5. AckedKept'
      BY <1>b, <2>1, <3>2, <3>3, <3>4 DEF KeptInv, AckedKept
    <3> QED  BY <1>b, <2>1, <2>2, <3>2, <3>3, <3>5 DEF KeptInv
  <2>5. ioerrs \in Nat
    BY DEF Shape, TypeOK
  <2> QED  BY <1>5, <2>3, <2>4, <2>5 DEF WriteArticle, Fault
<1> QED  BY <1>1, <1>2, <1>3, <1>4, <1>5, FileSteps

\* Exits of the server change neither files nor answers.
LEMMA NextKept == Shape /\ KeptInv /\ [Next]_vars => KeptInv'
<1> SUFFICES ASSUME Shape, KeptInv, [Next]_vars PROVE KeptInv'
  OBVIOUS
<1>1. Shape' /\ (ioerrs' = 0 => ioerrs = 0)
  BY NextShape, IoErrorsStay
<1>2. CASE \E p \in Proc : Act(p)
  BY <1>1, <1>2, KeptAct
<1>3. CASE ServerExit \/ UNCHANGED vars
  <2>1. /\ UNCHANGED <<files, acked, ioerrs>>
        /\ \A p \in Proc : pc'[p] = "idle" \/ (pc'[p] = pc[p] /\ ret'[p] = ret[p]
                                               /\ num'[p] = num[p])
    BY <1>3 DEF ServerExit, Leave, vars, disk, locals, counters
  <2>2. Present' = Present
    BY <2>1 DEF Present
  <2> QED  BY <2>1, <2>2 DEF KeptInv, AckedKept, Unanswered
<1> QED  BY <1>2, <1>3 DEF Next, Quiet, Act

\* What was answered 240 stays in the directory until a cancel removes it, and is
\* complete as long as no file operation fails, whatever exits, torn indexes and
\* rebuilds come between (Post, group.go:532-583).
THEOREM AnsweredKept == Spec => []AckedKept
<1>1. Init => KeptInv
  <2> SUFFICES ASSUME Init PROVE KeptInv
    OBVIOUS
  <2>1. \A n \in DOMAIN Stored : n \in Num /\ Stored[n] # NoFile /\ Stored[n].whole
    BY StoredAssumption, SentinelAssumption, TopAssumption DEF ArticleNum, Num
  <2>2. /\ files = [n \in Num |-> IF n \in DOMAIN Stored THEN Stored[n] ELSE NoFile]
        /\ acked = DOMAIN Stored /\ \A p \in Proc : pc[p] = "idle"
    BY DEF Init
  <2>3. AckedKept
    BY <2>1, <2>2 DEF AckedKept, Present
  <2> QED  BY <2>2, <2>3 DEF KeptInv, Unanswered
<1>2. Init => Shape
  BY InitShape
<1>3. Shape /\ [Next]_vars => Shape'
  BY NextShape
<1>4. KeptInv => AckedKept
  BY DEF KeptInv
<1> QED  BY <1>1, <1>2, <1>3, <1>4, NextKept, PTL DEF Spec

\* As long as nothing fails, what was answered 240 is within the range that
\* readers and searches look at. (With an exit it need not be: run spool_exit.)
THEOREM AnsweredReachable == Spec => [](FaultFree => AckedReachable)
<1>1. AckedKept /\ IndexCovers => (FaultFree => AckedReachable)
  BY CoversFewer DEF AckedKept, IndexCovers, AckedReachable
<1> QED  BY <1>1, AnsweredKept, IndexAlwaysCovers, PTL

-----------------------------------------------------------------------------
(* The search of a cancel.                                                 *)

\* A step of a search, or to its beginning.
LEMMA SearchAct ==
  ASSUME Shape, SearchInv, NEW p \in Proc, Act(p), pc'[p] = "find", grp'[p].start > 0
  PROVE  grp'[p].start <= num'[p] + 1 /\ num'[p] <= grp'[p].end
<1> USE DEF Goto
<1>a. /\ grp[p] \in Info /\ num[p] \in Num /\ grp[p].start <= grp[p].end
      /\ p \in DOMAIN pc /\ p \in DOMAIN grp /\ p \in DOMAIN num
  BY DEF Shape, TypeOK, NumberInv
<1>1. CASE ReadInfo(p)
  <2>1. info \in Info /\ info.start <= info.end
    BY <1>1 DEF ReadInfo, Shape, TypeOK, CommandInv, NumberInv
  <2>2. grp'[p] = info /\ num'[p] = info.end
    BY <1>1, <1>a DEF ReadInfo
  <2> QED  BY <2>1, <2>2 DEF Info, Num
<1>2. CASE Loaded(p)
  <2>1. grp'[p] = grp[p] /\ num'[p] = grp[p].end
    BY <1>2, <1>a DEF Loaded
  <2> QED  BY <1>a, <2>1 DEF Info, Num
<1>3. CASE ProbeMiss(p)
  <2>1. /\ pc[p] = "find" /\ grp' = grp /\ num'[p] = Prev(num[p])
        /\ num[p] >= grp[p].start
    BY <1>3, <1>a DEF ProbeMiss
  <2>2. num[p] <= grp[p].end
    BY <2>1 DEF SearchInv
  <2> QED  BY <1>a, <2>1, <2>2, TopAssumption DEF Prev, Info, Num
<1>4. ReadInfo(p) \/ Loaded(p) \/ ProbeMiss(p)
  <2>1. pc'[p] # "idle" /\ pc \in [Proc -> Label]
    BY DEF Shape, TypeOK
  <2>2. ~ Arrive(p)
    BY <2>1 DEF Arrive, BeginRead, BeginPost, BeginCancel, Begin
  <2>3. Index(p) => ReadInfo(p) \/ Loaded(p)
    <3>1. ret[p] # "find"
      BY DEF Shape, TypeOK, Return
    <3> QED
      BY <2>1, <3>1 DEF Index, OpenInfo, ReadLock, Reply, BuildLock, LockFree, ReadDir,
                        StatEntry, TruncInfo, WriteInfo, Finish, Leave
  <2>4. ~ Post(p)
    BY <2>1 DEF Post, PostLock, LockFree, PostLoad, FilterAccept, NextNumber,
                FilterReject, CreateExists, CanCreate, CreateNew, WriteArticle, Posted,
                Finish, Leave
  <2>5. Cancel(p) => ProbeMiss(p)
    BY <2>1 DEF Cancel, ProbeHit, ProbeEnd, CheckPass, CheckDeny, Remove, RemoveFail,
                Cancelled, Finish, Leave
  <2>6. ~ Fail(p)
    BY <2>1 DEF Fail, SaveFail, LoadFail, CreateFail, GatewayKilled, Finish, Leave
  <2> QED  BY <2>2, <2>3, <2>4, <2>5, <2>6 DEF Act, Step
<1> QED  BY <1>1, <1>2, <1>3, <1>4

\* The search of a cancel or of a lookup by Message-ID looks at the numbers from
\* End down to Start and at no other, and so ends, in every group whose Start is
\* not 0, whatever others do to the group meanwhile (FindArticleByMessageID,
\* group.go:446-456). With Start 0 it does not: run spool_search.
THEOREM SearchStaysInRange == Spec => []SearchInv
<1>1. Init => SearchInv
  BY DEF Init, SearchInv
<1>2. ASSUME Shape, SearchInv, [Next]_vars PROVE SearchInv'
  <2>1. ASSUME NEW p \in Proc, Act(p) PROVE SearchInv'
    BY <1>2, <2>1, SearchAct, OthersSame DEF SearchInv
  <2>2. CASE ServerExit \/ UNCHANGED vars
    <3>1. \A p \in Proc : pc'[p] = "idle" \/ (pc'[p] = pc[p] /\ grp'[p] = grp[p]
                                              /\ num'[p] = num[p])
      BY <2>2 DEF ServerExit, Leave, vars, locals
    <3> QED  BY <1>2, <3>1 DEF SearchInv
  <2> QED  BY <1>2, <2>1, <2>2 DEF Next, Quiet, Act
<1>3. Init => Shape
  BY InitShape
<1>4. Shape /\ [Next]_vars => Shape'
  BY NextShape
<1> QED  BY <1>1, <1>2, <1>3, <1>4, PTL DEF Spec

-----------------------------------------------------------------------------
(* Refinement.                                                             *)

\* What a step of one process may do to the abstract store.
Refines == Store!Next \/ UNCHANGED Store!vars

\* The store's summary of a set of numbers is the summary that a scan computes.
LEMMA SameSummary ==
  ASSUME NEW i, NEW S
  PROVE  /\ Store!Covers(i, S) <=> Covers(i, S)
         /\ Store!IsSummary(i, S) <=> IsSummary(i, S)
<1>1. Store!Cardinality(S) = Cardinality(S)
  BY DEF Store!Cardinality, Cardinality
<1>2. Store!Covers(i, S) <=> Covers(i, S)
  BY DEF Store!Covers, Covers
<1> QED  BY <1>1, <1>2 DEF Store!IsSummary, IsSummary

\* The store starts as the directory is found, its index missing or exact.
LEMMA InitRefines == Init => Store!Init
<1> SUFFICES ASSUME Init PROVE Store!Init
  OBVIOUS
<1>1. exLock = Nobody /\ pc = [p \in Proc |-> "idle"] /\ ret = [p \in Proc |-> "idle"]
  BY DEF Init
<1>2. info = Missing \/ IsSummary(info, Present)
  BY DEF Init
<1> HIDE DEF Init
<1>3. CurrentIndex = info
  BY <1>1 DEF CurrentIndex
<1>4. Pending = {}
  BY <1>1 DEF Pending
<1>5. Present \subseteq Num
  BY DEF Present
<1> QED  BY <1>2, <1>3, <1>4, <1>5, SameSummary DEF Store!Init

\* A process that neither has the lock nor takes it leaves CurrentIndex alone,
\* and one that takes it finds .info as the current index.
LEMMA OutsideIndex ==
  ASSUME Shape, NEW p \in Proc, Act(p), pc[p] \notin Exclusive
  PROVE  CurrentIndex' = CurrentIndex
<1>1. /\ info' = info
      /\ \/ exLock' = exLock /\ pc'[p] \notin Exclusive
         \/ exLock = Nobody /\ exLock' = p /\ pc'[p] \in {"scan", "postload"}
  BY OutsideStep
<1>2. CASE exLock' = exLock
  <2>1. CASE exLock = Nobody
    BY <1>1, <1>2, <2>1 DEF CurrentIndex
  <2>2. CASE exLock # Nobody
    <3>1. exLock \in Proc /\ exLock # p
      BY <2>2 DEF Shape, TypeOK, LockInv
    <3>2. pc'[exLock] = pc[exLock] /\ grp'[exLock] = grp[exLock]
      BY <3>1, OthersSame
    <3> QED  BY <1>1, <1>2, <3>2 DEF CurrentIndex
  <2> QED  BY <2>1, <2>2
<1>3. CASE exLock = Nobody /\ exLock' = p /\ pc'[p] \in {"scan", "postload"}
  BY <1>1, <1>3 DEF CurrentIndex
<1> QED  BY <1>1, <1>2, <1>3

\* Who is pending depends on the label and the return label of each process, so
\* a step of p changes it at p only.
IsPending(p) == \/ pc[p] \in {"write", "trunc"}
                \/ ret[p] = "cancelled" /\ pc[p] \in {"buildlock", "scan", "stat"}

LEMMA PendingStep ==
  ASSUME Shape, NEW p \in Proc, Act(p)
  PROVE  /\ IsPending(p)' <=> IsPending(p) => Pending' = Pending
         /\ IsPending(p)' => Pending' = Pending \cup {p}
         /\ ~ IsPending(p)' => Pending' = Pending \ {p}
<1>1. \A q \in Proc : q # p => (IsPending(q)' <=> IsPending(q))
  BY OthersSame DEF IsPending
<1>2. Pending = {q \in Proc : IsPending(q)}
  BY DEF Pending, IsPending
<1>3. Pending' = {q \in Proc : IsPending(q)'}
  BY DEF Pending, IsPending
<1> QED  BY <1>1, <1>2, <1>3

\* Outside the lock: a removal is the store's removal; everything else, a
\* rebuild that takes its lock included, leaves the store alone.
LEMMA OutsideRefines ==
  ASSUME Shape, NEW p \in Proc, Act(p), pc[p] \notin Exclusive, FaultFree'
  PROVE  Refines
<1>1. CurrentIndex' = CurrentIndex
  BY OutsideIndex
<1>2. ~ Fail(p)
  BY DEF FaultFree, Fail, SaveFail, LoadFail, CreateFail, GatewayKilled, Fault,
         Shape, TypeOK
<1>3. CASE Remove(p)
  <2>1. IsPending(p)'
    BY <1>3 DEF IsPending, Remove, Goto, Shape, TypeOK
  <2>2. Pending' = Pending \cup {p}
    BY <2>1, PendingStep
  <2>3. num[p] \in Num /\ num[p] \in Present /\ Present' = Present \ {num[p]}
    BY <1>3 DEF Remove, Present, Shape, TypeOK
  <2>4. Store!Remove(p, num[p])
    BY <1>1, <2>2, <2>3 DEF Store!Remove
  <2> QED  BY <2>3, <2>4 DEF Refines, Store!Next
<1>4. CASE ~ Remove(p)
  <2>1. UNCHANGED files /\ (IsPending(p)' <=> IsPending(p))
    <3> USE <1>4 DEF IsPending, Exclusive, Shape, TypeOK, ReturnInv, Goto, Finish,
                     Leave, disk
    <3>1. CASE Arrive(p)
      BY <3>1 DEF Arrive, BeginRead, BeginPost, BeginCancel, Begin
    <3>2. CASE OpenInfo(p) \/ ReadLock(p) \/ Reply(p) \/ BuildLock(p)
      BY <3>2 DEF OpenInfo, ReadLock, Reply, BuildLock
    <3>3. CASE ReadInfo(p)
      <4>1. AfterLoad[cmd[p].op] \in {"reply", "postlock", "find"}
        BY <3>3 DEF CommandInv, Command, AfterLoad, ReadInfo
      <4> QED  BY <3>3, <4>1 DEF ReadInfo
    <3>4. CASE ReadDir(p) \/ StatEntry(p) \/ TruncInfo(p) \/ WriteInfo(p) \/ Loaded(p)
      BY <3>4 DEF ReadDir, StatEntry, TruncInfo, WriteInfo, Loaded
    <3>5. CASE Post(p)
      BY <3>5 DEF Post, PostLock, PostLoad, FilterAccept, FilterReject, CreateExists,
                  CreateNew, WriteArticle, Posted
    <3>6. CASE Cancel(p)
      BY <3>6 DEF Cancel, ProbeHit, ProbeMiss, ProbeEnd, CheckPass, CheckDeny,
                  RemoveFail, Cancelled
    <3> QED  BY <1>2, <3>1, <3>2, <3>3, <3>4, <3>5, <3>6 DEF Act, Step, Index
  <2>2. Pending' = Pending
    BY <2>1, PendingStep
  <2> QED  BY <1>1, <2>1, <2>2 DEF Refines, Store!vars, Present
<1> QED  BY <1>3, <1>4

\* Under the lock: the new file of a post is an addition beyond the index.
LEMMA CreateRefines ==
  ASSUME Shape, Faultless, NEW p \in Proc, pc[p] \in Exclusive, CreateNew(p)
  PROVE  Refines
<1>1. exLock = p /\ exLock # Nobody /\ Numbered(p)
  BY InsideFacts
<1>2. Act(p)
  BY DEF Act, Step, Post
<1>3. CurrentIndex = info /\ CurrentIndex' = CurrentIndex
  BY <1>1 DEF CurrentIndex, CreateNew, Goto, locks, Shape, TypeOK
<1>4. info # Missing /\ num[p] \in Num /\ num[p] > info.end
  BY <1>1 DEF Numbered, CreateNew, Shape, TypeOK, CommandInv, NumberInv
<1>5. num[p] \notin Present /\ Present' = Present \cup {num[p]}
  <2>1. Draft(cmd[p], num[p]) \in Article
    BY DEF CreateNew, Draft, GenId, Article, Id, Command, Shape, TypeOK, CommandInv,
           NumberInv
  <2>2. files' = [files EXCEPT ![num[p]] = Draft(cmd[p], num[p])]
    BY DEF CreateNew
  <2> HIDE DEF Draft
  <2> QED  BY <1>4, <2>1, <2>2, SentinelAssumption
           DEF CreateNew, CanCreate, Present, Shape, TypeOK
<1>6. Pending' = Pending \cup {p}
  BY <1>2, PendingStep DEF IsPending, CreateNew, Goto, Shape, TypeOK
<1>7. Store!Add(p, num[p])
  BY <1>3, <1>4, <1>5, <1>6 DEF Store!Add
<1> QED  BY <1>4, <1>7 DEF Refines, Store!Next

\* Under the lock: from the truncation of .info on, the index is the new one.
LEMMA TruncRefines ==
  ASSUME Shape, ScanInv, Faultless, NEW p \in Proc, pc[p] \in Exclusive, TruncInfo(p)
  PROVE  Refines
<1>1. /\ exLock = p /\ exLock # Nobody /\ Indexed(p, Covers)
      /\ Dirty \subseteq {p} => Exactly(p)
  BY InsideFacts
<1>2. Act(p)
  BY DEF Act, Step, Index
<1>3. CurrentIndex' = grp[p] /\ Present' = Present
  BY <1>1 DEF CurrentIndex, TruncInfo, Goto, locks, Shape, TypeOK, Present
<1>4. grp[p] # Missing
  BY SentinelAssumption DEF Shape, TypeOK
<1>5. Covers(grp[p], Present)
  <2>1. CASE pc[p] = "trunc"
    BY <1>1, <2>1 DEF Indexed
  <2>2. CASE pc[p] = "stat" /\ todo[p] = {}
    <3>1. Covers(grp[p], Present \ {})
      BY <2>2 DEF ScanInv, Scanned
    <3> QED  BY <3>1
  <2> QED  BY <2>1, <2>2 DEF TruncInfo
<1>6. ASSUME Pending' = {} PROVE IsSummary(grp[p], Present)
  <2>1. Dirty \subseteq {p}
    <3> SUFFICES ASSUME NEW q \in Dirty, q # p PROVE FALSE
      OBVIOUS
    <3>1. q \in Proc /\ ret[q] = "cancelled" /\ pc[q] # "cancelled" /\ pc[q] \notin Exclusive
      BY <1>1 DEF Dirty, Shape, LockInv
    <3>2. pc[q] = "buildlock"
      BY <3>1 DEF Shape, TypeOK, ReturnInv, Label, Exclusive
    <3>3. pc'[q] = "buildlock" /\ ret'[q] = "cancelled"
      BY <1>2, <3>1, <3>2, OthersSame
    <3> QED  BY <1>6, <3>1, <3>3 DEF Pending
  <2>2. CASE pc[p] = "trunc"
    BY <1>1, <2>1, <2>2 DEF Exactly, Indexed
  <2>3. CASE pc[p] = "stat" /\ todo[p] = {}
    <3>1. IsSummary(grp[p], Present \ {})
      BY <1>1, <2>1, <2>3 DEF Exactly
    <3> QED  BY <3>1
  <2> QED  BY <2>2, <2>3 DEF TruncInfo
<1>7. Pending' = Pending \ {p}
  BY <1>2, PendingStep DEF IsPending, TruncInfo, Goto, Shape, TypeOK
<1>8. Store!Reindex(p)
  BY <1>3, <1>4, <1>5, <1>6, <1>7, SameSummary DEF Store!Reindex
<1> QED  BY <1>8 DEF Refines, Store!Next

\* The write of an article neither adds nor removes a file.
LEMMA WriteSamePresent ==
  ASSUME TypeOK, NEW p \in Proc, WriteArticle(p)
  PROVE  Present' = Present
<1>1. CASE UNCHANGED files
  BY <1>1 DEF Present
<1>2. CASE num[p] \in Present /\ files' = [files EXCEPT ![num[p]].whole = TRUE]
  <2> DEFINE whole == [files[num[p]] EXCEPT !.whole = TRUE]
  <2>1. files' = [files EXCEPT ![num[p]] = whole]
    BY <1>2
  <2>2. files \in [Num -> Article \cup {NoFile}] /\ files[num[p]] \in Article
    BY <1>2 DEF TypeOK, Present
  <2>3. whole \in Article
    BY <2>2 DEF Article
  <2> HIDE DEF whole
  <2>4. \A n \in Num : files'[n] # NoFile <=> files[n] # NoFile
    BY <1>2, <2>1, <2>2, <2>3, SentinelAssumption DEF Present
  <2> QED  BY <2>4 DEF Present
<1> QED  BY <1>1, <1>2 DEF WriteArticle

\* Under the lock: the other steps change neither the articles nor, from outside
\* the lock, the index; the write to .info only makes the new index durable.
LEMMA InsideRefines ==
  ASSUME Shape, ScanInv, Faultless, NEW p \in Proc, Act(p), pc[p] \in Exclusive,
         FaultFree'
  PROVE  Refines
<1>1. exLock = p /\ exLock # Nobody
  BY InsideFacts
<1>2. ~ Fail(p)
  BY DEF FaultFree, Fail, SaveFail, LoadFail, CreateFail, GatewayKilled, Fault,
         Shape, TypeOK
<1>3. CASE CreateNew(p)
  BY <1>3, CreateRefines
<1>4. CASE TruncInfo(p)
  BY <1>4, TruncRefines
<1>5. CASE ~ CreateNew(p) /\ ~ TruncInfo(p)
  <2>1. /\ Present' = Present
        /\ IsPending(p)' <=> IsPending(p)
        /\ CurrentIndex' = CurrentIndex
    <3> USE <1>1 DEF IsPending, CurrentIndex, Exclusive, Shape, TypeOK, ReturnInv, Goto,
                     Finish, Leave, disk, locks
    <3>1. CASE Arrive(p)
      BY <3>1 DEF Arrive, BeginRead, BeginPost, BeginCancel, Begin
    <3>2. CASE OpenInfo(p) \/ ReadLock(p) \/ ReadInfo(p) \/ Reply(p) \/ BuildLock(p)
      BY <3>2 DEF OpenInfo, ReadLock, ReadInfo, Reply, BuildLock
    <3>3. CASE ReadDir(p) \/ StatEntry(p) \/ Loaded(p)
      <4>1. UNCHANGED <<files, info>> /\ pc[p] # "save"
        BY <3>3 DEF ReadDir, StatEntry, Loaded
      <4>2. exLock' = Nobody \/ pc'[exLock'] # "save"
        BY <3>3 DEF ReadDir, StatEntry, Loaded
      <4>3. IsPending(p)' <=> IsPending(p)
        <5>1. CASE Loaded(p)
          <6>1. AfterLoad[cmd[p].op] \in {"reply", "postlock", "find"}
            BY <5>1 DEF CommandInv, Command, AfterLoad, Loaded
          <6> QED  BY <5>1, <6>1 DEF Loaded
        <5> QED  BY <3>3, <5>1 DEF ReadDir, StatEntry
      <4> QED  BY <4>1, <4>2, <4>3 DEF Present
    <3>4. CASE WriteInfo(p)
      <4>1. ret[p] \in {"loaded", "filter", "posted", "cancelled"}
        BY <3>4 DEF WriteInfo, Return
      <4> QED  BY <3>4, <4>1 DEF WriteInfo, Present
    <3>5. CASE PostLock(p) \/ PostLoad(p) \/ FilterAccept(p) \/ CreateExists(p)
      BY <3>5 DEF PostLock, PostLoad, FilterAccept, CreateExists, Present
    <3>6. CASE FilterReject(p) \/ Posted(p) \/ Cancelled(p)
      BY <3>6 DEF FilterReject, Posted, Cancelled, Present
    <3>7. CASE WriteArticle(p)
      <4>1. Present' = Present
        BY <3>7, WriteSamePresent
      <4> QED  BY <3>7, <4>1 DEF WriteArticle
    <3>8. CASE \/ ProbeHit(p) \/ ProbeMiss(p) \/ ProbeEnd(p) \/ CheckPass(p)
               \/ CheckDeny(p) \/ Remove(p) \/ RemoveFail(p)
      BY <3>8 DEF ProbeHit, ProbeMiss, ProbeEnd, CheckPass, CheckDeny, Remove,
                  RemoveFail
    <3> QED  BY <1>2, <1>5, <3>1, <3>2, <3>3, <3>4, <3>5, <3>6, <3>7, <3>8
             DEF Act, Step, Index, Post, Cancel
  <2>2. Pending' = Pending
    BY <2>1, PendingStep
  <2> QED  BY <2>1, <2>2 DEF Refines, Store!vars
<1> QED  BY <1>3, <1>4, <1>5

\* Every step without a failure is a step of the store or a stutter.
LEMMA NextRefines ==
  ASSUME IndInv, [Next]_vars, FaultFree'
  PROVE  Refines
<1>1. Shape /\ ScanInv
  BY DEF IndInv
<1>2. FaultFree /\ ~ ServerExit
  BY <1>1, FaultFreeBefore
<1>3. Faultless
  BY <1>2 DEF IndInv, Faultless
<1>4. CASE \E p \in Proc : Act(p)
  BY <1>1, <1>3, <1>4, OutsideRefines, InsideRefines
<1>5. CASE UNCHANGED vars
  BY <1>5 DEF Refines, Store!vars, CurrentIndex, Pending, Present, vars, disk, locks,
              locals
<1> QED  BY <1>2, <1>4, <1>5 DEF Next, Quiet, Act

\* Where neither exits nor failing file operations occur, none ever has.
LEMMA NoFaults ==
  ASSUME MaxExits = 0, MaxIoErrors = 0
  PROVE  Spec => []FaultFree
<1>1. Init => FaultFree
  BY DEF Init, FaultFree
<1>2. ASSUME FaultFree, [Next]_vars PROVE FaultFree'
  <2> USE <1>2 DEF FaultFree, counters
  <2>1. ASSUME NEW p \in Proc, Arrive(p) PROVE FaultFree'
    BY <2>1 DEF Arrive, BeginRead, BeginPost, BeginCancel, Begin
  <2>2. ASSUME NEW p \in Proc, Index(p) PROVE FaultFree'
    BY <2>2 DEF Index, OpenInfo, ReadLock, ReadInfo, Reply, BuildLock, ReadDir,
                StatEntry, TruncInfo, WriteInfo, Loaded
  <2>3. ASSUME NEW p \in Proc, Post(p) PROVE FaultFree'
    BY <2>3 DEF Post, PostLock, PostLoad, FilterAccept, FilterReject, CreateExists,
                CreateNew, WriteArticle, Posted, Fault
  <2>4. ASSUME NEW p \in Proc, Cancel(p) PROVE FaultFree'
    BY <2>4 DEF Cancel, ProbeHit, ProbeMiss, ProbeEnd, CheckPass, CheckDeny, Remove,
                RemoveFail, Cancelled
  <2>5. ASSUME NEW p \in Proc, Fail(p) PROVE FaultFree'
    BY <2>5 DEF Fail, SaveFail, LoadFail, CreateFail, GatewayKilled, Fault
  <2>6. ~ ServerExit
    BY DEF ServerExit
  <2>7. CASE UNCHANGED vars
    BY <2>7 DEF vars
  <2> QED  BY <2>1, <2>2, <2>3, <2>4, <2>5, <2>6, <2>7 DEF Next, Step, Quiet
<1> QED  BY <1>1, <1>2, PTL DEF Spec

\* As long as nothing fails, group.go keeps the promise of ArticleStore, for any
\* number of processes, articles and commands.
THEOREM FaultFreeRefines == Spec /\ []FaultFree => ImplementsArticleStore
<1>1. IndInv /\ [Next]_vars /\ FaultFree' => [Store!Next]_(Store!vars)
  BY NextRefines DEF Refines
<1> QED  BY <1>1, InitRefines, Inductive, PTL DEF Spec, ImplementsArticleStore, Store!Spec

\* In particular where the bounds allow no failure at all, as in the run.
THEOREM BoundedRefines ==
  ASSUME MaxExits = 0, MaxIoErrors = 0
  PROVE  Spec => ImplementsArticleStore
BY NoFaults, FaultFreeRefines, PTL

=============================================================================
