--------------------------- MODULE SpoolInductive ---------------------------
(***************************************************************************)
(* The inductive invariant of Spool: what each process knows at each label *)
(* of the lock, the index, the directory and its own Group value.          *)
(***************************************************************************)
EXTENDS Spool

\* The lock is held exactly at the labels where the code holds it.
LockInv ==
  /\ \A p \in Proc : pc[p] \in Exclusive <=> exLock = p
  /\ \A p \in Proc : pc[p] = "reading" <=> p \in shLock
  /\ exLock # Nobody => shLock = {}

\* SaveInfo returns to the caller it was called from.
ReturnInv ==
  \A p \in Proc :
    /\ pc[p] = "buildlock" => ret[p] \in {"loaded", "cancelled"}
    /\ pc[p] \in {"scan", "stat"} => ret[p] \in {"loaded", "filter", "cancelled"}
    /\ pc[p] = "trunc" => ret[p] = "posted"
    /\ pc[p] = "save" => ret[p] # "idle"
    /\ pc[p] \in {"loaded", "posted", "cancelled"} => ret[p] = pc[p]
    /\ pc[p] \in {"filter", "create", "write"} => ret[p] \in {"idle", "filter"}
    /\ pc[p] \in {"idle", "open", "readlock", "reading", "reply", "postlock",
                  "postload", "find", "check", "remove"} => ret[p] = "idle"

\* Commands are known while they run, and .info does not disappear under those
\* that opened it.
CommandInv ==
  \A p \in Proc :
    /\ pc[p] # "idle" => cmd[p].op # "none"
    /\ cmd[p].op = "post" => cmd[p].from \in Author
    /\ pc[p] \in {"postlock", "postload", "filter", "create"} \/ ret[p] = "filter"
         => cmd[p].op = "post"
    /\ pc[p] \in {"readlock", "reading", "filter", "create", "write", "trunc",
                  "save", "loaded", "posted", "cancelled"} => info # Missing

\* Articles have the numbers that Post gives, beyond the End it loaded.
NumberInv ==
  /\ Present \subseteq ArticleNum
  /\ info # Missing => info.start <= info.end
  /\ \A p \in Proc :
       /\ grp[p].start <= grp[p].end
       /\ pc[p] \in {"create", "write"} => num[p] \in ArticleNum /\ num[p] > grp[p].end

Shape == TypeOK /\ LockInv /\ ReturnInv /\ CommandInv /\ NumberInv

\* In a scan, what was counted covers what was examined and is still there.
Scanned(p) ==
  /\ pc[p] = "stat" =>
       /\ Covers(grp[p], Present \ todo[p])
       /\ grp[p].total >= Cardinality(Present \ todo[p])
  /\ pc[p] = "save" /\ ret[p] # "posted" =>
       /\ Covers(grp[p], Present)
       /\ grp[p].total >= Cardinality(Present)

ScanInv == \A p \in Proc : Scanned(p)

\* A post numbers its article next to the End in .info.
Numbered(p) ==
  /\ pc[p] \in {"filter", "create", "write"} => info = grp[p]
  /\ pc[p] \in {"create", "write"} => num[p] = grp[p].end + 1

\* Where p holds the exclusive lock: which index describes the directory, as
\* far as Fits says.
Indexed(p, Fits(_, _)) ==
  /\ pc[p] = "postload" /\ info # Missing => Fits(info, Present)
  /\ pc[p] \in {"loaded", "posted", "cancelled"} => Fits(info, Present)
  /\ pc[p] \in {"filter", "create"} => Fits(grp[p], Present)
  /\ pc[p] = "write" => Fits(grp[p], Present \ {num[p]})
  /\ pc[p] \in {"trunc", "save"} => Fits(grp[p], Present)

CoverInv ==
  /\ exLock = Nobody /\ info # Missing => Covers(info, Present)
  /\ \A p \in Proc : Numbered(p) /\ Indexed(p, Covers)

\* The same, exactly, while no other process removes articles.
Exactly(p) ==
  /\ Indexed(p, IsSummary)
  /\ pc[p] = "write" => num[p] \in Present
  /\ pc[p] = "stat" => /\ todo[p] \subseteq Present
                       /\ IsSummary(grp[p], Present \ todo[p])

ExactInv ==
  /\ exLock = Nobody /\ Dirty = {} /\ info # Missing => IsSummary(info, Present)
  /\ \A p \in Proc : pc[p] \in Exclusive /\ Dirty \subseteq {p} => Exactly(p)

\* An incomplete file is the one that a post is writing.
WholeInv ==
  \A n \in Present :
    ~ files[n].whole => \E p \in Proc : pc[p] = "write" /\ num[p] = n

\* .info is empty only while someone saves it.
TornInv == torn => \E p \in Proc : pc[p] = "save"

\* All of it: the last part holds as long as nothing failed.
IndInv ==
  /\ Shape
  /\ ScanInv
  /\ FaultFree => CoverInv /\ ExactInv /\ WholeInv /\ TornInv

\* A post of p has written its article and not answered yet.
Unanswered(p) ==
  pc[p] \in {"trunc", "posted"} \/ (pc[p] = "save" /\ ret[p] = "posted")

\* An article whose write has not failed is complete before it is answered.
KeptInv ==
  /\ AckedKept
  /\ ioerrs = 0 =>
       \A p \in Proc : Unanswered(p) /\ num[p] \in Present => files[num[p]].whole

\* A search of a cancel in a group with a Start stays between Start and End, and
\* leaves them at Start - 1.
SearchInv ==
  \A p \in Proc :
    pc[p] = "find" /\ grp[p].start > 0
      => grp[p].start <= num[p] + 1 /\ num[p] <= grp[p].end

=============================================================================
