------------------------------- MODULE Spool -------------------------------
(***************************************************************************)
(* One newsgroup directory of gonewsd: its article files, its index file   *)
(* .info, the advisory lock on its .lock file, and the processes that      *)
(* read, post and cancel there (internal/group/group.go and lock.go, called *)
(* from internal/nntp/server.go and cmd/gonewsd/main.go).                *)
(*                                                                         *)
(* A Handler is a connection of the running server (one goroutine each); a *)
(* Gateway is a separate `gonewsd -mailgateway` process that only posts.   *)
(* Every file-system call that another process can observe is one step.    *)
(***************************************************************************)
EXTENDS GroupInfo

CONSTANTS
  Handler,      \* connections of the server process
  Gateway,      \* mail gateway processes
  Author,       \* values of a From: header
  ClientId,     \* Message-IDs that clients supply themselves
  Top,          \* stands for every number beyond any article's, up to 2^64 - 1
  Stored,       \* article number -> article, as the group is found initially
  MaxCmds,      \* bound: commands that arrive
  MaxExits,     \* bound: server exits and killed gateways
  MaxIoErrors,  \* bound: file operations that fail
  NoFile, Missing, Nobody, NoId

Proc == Handler \cup Gateway
Num == 0 .. Top
ArticleNum == 1 .. (Top - 1)

\* A Message-ID is the client's, or the generated <n-group@server>, for which
\* its number n stands.
GenId(n) == n
Id == ClientId \cup ArticleNum
\* `whole` is FALSE from the creation of the file until its last byte is
\* written.
Article == [id : Id, from : Author, whole : BOOLEAN]
Info == [start : Num, end : Num, total : Nat]

Command == [op : {"none", "read", "post", "cancel"},
            id : Id \cup {NoId}, from : Author \cup {Nobody}]
NoCommand == [op |-> "none", id |-> NoId, from |-> Nobody]

Label == {"idle", "open", "readlock", "reading", "reply", "buildlock", "scan",
          "stat", "trunc", "save", "loaded", "postlock", "postload", "filter",
          "create", "write", "posted", "find", "check", "remove", "cancelled"}
Return == {"idle", "loaded", "filter", "posted", "cancelled"}

ASSUME TopAssumption == Top \in Nat /\ Top > 0
ASSUME StoredAssumption ==
  /\ Stored \in [DOMAIN Stored -> Article]
  /\ DOMAIN Stored \subseteq ArticleNum
  /\ \A n \in DOMAIN Stored : Stored[n].whole
ASSUME BoundsAssumption ==
  MaxCmds \in Nat /\ MaxExits \in Nat /\ MaxIoErrors \in Nat
ASSUME SentinelAssumption ==
  NoFile \notin Article /\ Missing \notin Info /\ Nobody \notin Proc
ASSUME ProcAssumption == Handler \cap Gateway = {}

VARIABLES
  files,   \* the directory: number -> article or NoFile
  info,    \* contents of .info (an empty file reads as ZeroInfo), or Missing
  torn,    \* .info is empty: truncated and not written yet
  exLock,  \* who holds flock(LOCK_EX) on .lock, or Nobody
  shLock,  \* who holds flock(LOCK_SH) on .lock
  pc, cmd, \* where each process is, and the command it executes
  grp,     \* its Group value: Start, End, Total
  num,     \* the article number it works on
  todo,    \* BuildInfo: directory entries not yet examined
  ret,     \* where SaveInfo returns to
  acked,   \* history: numbers posted with reply 240 and not removed since; what
           \* the group holds initially was
  left, exits, ioerrs

disk == <<files, info, torn>>
locks == <<exLock, shLock>>
locals == <<pc, cmd, grp, num, todo, ret>>
counters == <<left, exits, ioerrs>>
vars == <<disk, locks, locals, acked, counters>>

Present == {n \in Num : files[n] # NoFile}

Init ==
  /\ files = [n \in Num |-> IF n \in DOMAIN Stored THEN Stored[n] ELSE NoFile]
  /\ \/ info = Missing
     \/ /\ \E s, e \in Num :
             info = [start |-> s, end |-> e, total |-> Cardinality(Present)]
        /\ IsSummary(info, Present)
  /\ torn = FALSE
  /\ exLock = Nobody
  /\ shLock = {}
  /\ pc = [p \in Proc |-> "idle"]
  /\ cmd = [p \in Proc |-> NoCommand]
  /\ grp = [p \in Proc |-> ZeroInfo]
  /\ num = [p \in Proc |-> 0]
  /\ todo = [p \in Proc |-> {}]
  /\ ret = [p \in Proc |-> "idle"]
  /\ acked = DOMAIN Stored
  /\ left = MaxCmds
  /\ exits = 0
  /\ ioerrs = 0

-----------------------------------------------------------------------------
(* Helpers of the actions.                                                 *)

Goto(p, label) == pc' = [pc EXCEPT ![p] = label]

\* The processes in S stop: their locks are released with their descriptors
\* and their local state is gone.
Leave(S) ==
  /\ exLock' = IF exLock \in S THEN Nobody ELSE exLock
  /\ shLock' = shLock \ S
  /\ pc' = [p \in Proc |-> IF p \in S THEN "idle" ELSE pc[p]]
  /\ cmd' = [p \in Proc |-> IF p \in S THEN NoCommand ELSE cmd[p]]
  /\ grp' = [p \in Proc |-> IF p \in S THEN ZeroInfo ELSE grp[p]]
  /\ num' = [p \in Proc |-> IF p \in S THEN 0 ELSE num[p]]
  /\ todo' = [p \in Proc |-> IF p \in S THEN {} ELSE todo[p]]
  /\ ret' = [p \in Proc |-> IF p \in S THEN "idle" ELSE ret[p]]

\* The command of p is answered: every deferred unlock runs.
Finish(p) == Leave({p})

\* Where a command goes on once LoadInfoFull has returned.
AfterLoad == [read |-> "reply", post |-> "postlock", cancel |-> "find"]

\* A file operation fails.
Fault == ioerrs < MaxIoErrors /\ ioerrs' = ioerrs + 1

-----------------------------------------------------------------------------
(* Commands arrive.  Each of them starts with LoadInfoFull.                *)

Begin(p, c) ==
  /\ pc[p] = "idle"
  /\ left > 0
  /\ left' = left - 1
  /\ cmd' = [cmd EXCEPT ![p] = c]
  /\ Goto(p, "open")
  /\ UNCHANGED <<disk, locks, grp, num, todo, ret, acked, exits, ioerrs>>

\* GROUP, LISTGROUP, LIST, STAT, ...: the commands that only load the index.
BeginRead(p) ==
  /\ p \in Handler
  /\ Begin(p, [op |-> "read", id |-> NoId, from |-> Nobody])

BeginPost(p) ==
  \E i \in ClientId \cup {NoId}, a \in Author :
    Begin(p, [op |-> "post", id |-> i, from |-> a])

BeginCancel(p) ==
  /\ p \in Handler
  /\ \E i \in Id, a \in Author : Begin(p, [op |-> "cancel", id |-> i, from |-> a])

-----------------------------------------------------------------------------
(* LoadInfo with locking.                                                  *)

\* .info is opened before any lock is taken.
OpenInfo(p) ==
  /\ pc[p] = "open"
  /\ \/ info # Missing /\ Goto(p, "readlock") /\ UNCHANGED ret
     \/ /\ info = Missing
        /\ Goto(p, "buildlock")
        /\ ret' = [ret EXCEPT ![p] = "loaded"]
  /\ UNCHANGED <<disk, locks, cmd, grp, num, todo, acked, counters>>

ReadLock(p) ==
  /\ pc[p] = "readlock"
  /\ exLock = Nobody
  /\ shLock' = shLock \cup {p}
  /\ Goto(p, "reading")
  /\ UNCHANGED <<disk, exLock, cmd, grp, num, todo, ret, acked, counters>>

\* Variant: an index without articles is taken for one that is being written,
\* and read again.
ReadInfoRetry(p) ==
  /\ pc[p] = "reading"
  /\ grp' = [grp EXCEPT ![p] = info]
  /\ num' = [num EXCEPT ![p] = info.end]
  /\ shLock' = shLock \ {p}
  /\ Goto(p, IF info.total = 0 THEN "open" ELSE AfterLoad[cmd[p].op])
  /\ UNCHANGED <<disk, exLock, cmd, todo, ret, acked, counters>>

\* The open file is read, the shared lock released.  A cancel starts its search
\* at End.
ReadInfo(p) ==
  /\ pc[p] = "reading"
  /\ grp' = [grp EXCEPT ![p] = info]
  /\ num' = [num EXCEPT ![p] = info.end]
  /\ shLock' = shLock \ {p}
  /\ Goto(p, AfterLoad[cmd[p].op])
  /\ UNCHANGED <<disk, exLock, cmd, todo, ret, acked, counters>>

Reply(p) ==
  /\ pc[p] = "reply"
  /\ Finish(p)
  /\ UNCHANGED <<disk, acked, counters>>

-----------------------------------------------------------------------------
(* BuildInfo and SaveInfo.                                                 *)

\* What flock(LOCK_EX) waits for.
\* Variant: a lock that readers do not hold off.
FreeOfWriters == exLock = Nobody
LockFree == exLock = Nobody /\ shLock = {}

\* Variant: DeleteArticle calls BuildInfo with doLock false.
BuildUnlocked(p) ==
  /\ pc[p] = "buildlock"
  /\ Goto(p, "scan")
  /\ UNCHANGED <<disk, locks, cmd, grp, num, todo, ret, acked, counters>>

BuildLock(p) ==
  /\ pc[p] = "buildlock"
  /\ LockFree
  /\ exLock' = p
  /\ Goto(p, "scan")
  /\ UNCHANGED <<disk, shLock, cmd, grp, num, todo, ret, acked, counters>>

ReadDir(p) ==
  /\ pc[p] = "scan"
  /\ grp' = [grp EXCEPT ![p] = ZeroInfo]
  /\ todo' = [todo EXCEPT ![p] = Present]
  /\ Goto(p, "stat")
  /\ UNCHANGED <<disk, locks, cmd, num, ret, acked, counters>>

\* An entry that is gone by the time it is examined is skipped.
StatEntry(p) ==
  /\ pc[p] = "stat"
  /\ \E n \in todo[p] :
       /\ todo' = [todo EXCEPT ![p] = @ \ {n}]
       /\ IF n \in Present THEN grp' = [grp EXCEPT ![p] = Count(@, n)]
                           ELSE UNCHANGED grp
  /\ UNCHANGED <<disk, locks, pc, cmd, num, ret, acked, counters>>

\* os.WriteFile opens .info with O_TRUNC, then writes.
TruncInfo(p) ==
  /\ \/ pc[p] = "trunc"
     \/ pc[p] = "stat" /\ todo[p] = {}
  /\ info' = ZeroInfo
  /\ torn' = TRUE
  /\ Goto(p, "save")
  /\ UNCHANGED <<files, locks, cmd, grp, num, todo, ret, acked, counters>>

WriteInfo(p) ==
  /\ pc[p] = "save"
  /\ info' = grp[p]
  /\ torn' = FALSE
  /\ Goto(p, ret[p])
  /\ UNCHANGED <<files, locks, cmd, grp, num, todo, ret, acked, counters>>

\* The open fails (.info untouched), the write fails (.info left empty) or the
\* chown fails (.info complete); the command fails in each case.
SaveFail(p) ==
  /\ Fault
  /\ \/ pc[p] \in {"trunc", "save"} /\ UNCHANGED <<info, torn>>
     \/ pc[p] = "save" /\ info' = grp[p] /\ torn' = FALSE
  /\ Finish(p)
  /\ UNCHANGED <<files, acked, left, exits>>

\* Opening, locking, listing or removing fails; no file is touched.
LoadFail(p) ==
  /\ pc[p] \in {"open", "readlock", "reading", "buildlock", "scan", "postlock",
                "postload", "remove"}
  /\ Fault
  /\ Finish(p)
  /\ UNCHANGED <<disk, acked, left, exits>>

\* LoadInfo had to build the index and returns: the lock is released.
Loaded(p) ==
  /\ pc[p] = "loaded"
  /\ exLock' = Nobody
  /\ num' = [num EXCEPT ![p] = grp[p].end]
  /\ ret' = [ret EXCEPT ![p] = "idle"]
  /\ Goto(p, AfterLoad[cmd[p].op])
  /\ UNCHANGED <<disk, shLock, cmd, grp, todo, acked, counters>>

-----------------------------------------------------------------------------
(* Group.Post.                                                             *)

PostLock(p) ==
  /\ pc[p] = "postlock"
  /\ LockFree
  /\ exLock' = p
  /\ Goto(p, "postload")
  /\ UNCHANGED <<disk, shLock, cmd, grp, num, todo, ret, acked, counters>>

\* LoadInfo sets the fields that it finds in .info.  When it is empty, the new
\* Group value of a connection stays zero; a gateway loads into the value of its
\* first load, which stays as it was.
InfoFound(p) == IF torn /\ p \in Gateway THEN grp[p] ELSE info

\* LoadInfo again, this time under the exclusive lock.
PostLoad(p) ==
  /\ pc[p] = "postload"
  /\ \/ /\ info # Missing
        /\ grp' = [grp EXCEPT ![p] = InfoFound(p)]
        /\ Goto(p, "filter")
        /\ UNCHANGED ret
     \/ /\ info = Missing
        /\ ret' = [ret EXCEPT ![p] = "filter"]
        /\ Goto(p, "scan")
        /\ UNCHANGED grp
  /\ UNCHANGED <<disk, locks, cmd, num, todo, acked, counters>>

\* Where Post begins to look for a free number.
\* Variant: the search begins at End itself.
LastNumber(i) == i.end
NextNumber(i) == i.end + 1

\* The group's configuration is loaded and the spam filter asked.
FilterAccept(p) ==
  /\ pc[p] = "filter"
  /\ NextNumber(grp[p]) \in ArticleNum  \* bound on the article numbers
  /\ num' = [num EXCEPT ![p] = NextNumber(grp[p])]
  /\ Goto(p, "create")
  /\ UNCHANGED <<disk, locks, cmd, grp, todo, ret, acked, counters>>

FilterReject(p) ==
  /\ pc[p] = "filter"
  /\ Finish(p)
  /\ UNCHANGED <<disk, acked, counters>>

\* O_CREATE|O_EXCL.
\* Variant: O_CREATE|O_TRUNC.
CanTruncate(n) == TRUE
CanCreate(n) == n \notin Present

\* The file is there: the next number is tried.
CreateExists(p) ==
  /\ pc[p] = "create"
  /\ ~ CanCreate(num[p])
  /\ num[p] + 1 \in ArticleNum         \* bound on the article numbers
  /\ num' = [num EXCEPT ![p] = @ + 1]
  /\ UNCHANGED <<disk, locks, pc, cmd, grp, todo, ret, acked, counters>>

Draft(c, n) ==
  [id |-> IF c.id = NoId THEN GenId(n) ELSE c.id, from |-> c.from, whole |-> FALSE]

CreateNew(p) ==
  /\ pc[p] = "create"
  /\ CanCreate(num[p])
  /\ files' = [files EXCEPT ![num[p]] = Draft(cmd[p], num[p])]
  /\ Goto(p, "write")
  /\ UNCHANGED <<info, torn, locks, cmd, grp, num, todo, ret, acked, counters>>

CreateFail(p) ==
  /\ pc[p] = "create"
  /\ Fault
  /\ Finish(p)
  /\ UNCHANGED <<disk, acked, left, exits>>

\* Headers and body are written and the file closed, with no effect on the
\* directory when the file was unlinked meanwhile.  Errors are ignored: a
\* failed write leaves the file short and the post goes on.
WriteArticle(p) ==
  /\ pc[p] = "write"
  /\ \/ /\ num[p] \in Present
        /\ files' = [files EXCEPT ![num[p]].whole = TRUE]
        /\ UNCHANGED ioerrs
     \/ num[p] \notin Present /\ UNCHANGED <<files, ioerrs>>
     \/ Fault /\ UNCHANGED files
  /\ grp' = [grp EXCEPT ![p] = Extend(@, num[p])]
  /\ ret' = [ret EXCEPT ![p] = "posted"]
  /\ Goto(p, "trunc")
  /\ UNCHANGED <<info, torn, locks, cmd, num, todo, acked, left, exits>>

\* The post command has run, the lock is released and 240 is sent.
Posted(p) ==
  /\ pc[p] = "posted"
  /\ acked' = acked \cup ({num[p]} \cap Present)
  /\ Finish(p)
  /\ UNCHANGED <<disk, counters>>

-----------------------------------------------------------------------------
(* handleCancel: search, check of From:, removal.  None of it is locked    *)
(* until BuildInfo.                                                        *)

\* What is read of a file that is still being written may lack the header.
Readable(n) == n \in Present /\ files[n].whole

ProbeHit(p) ==
  /\ pc[p] = "find"
  /\ num[p] >= grp[p].start
  /\ num[p] \in Present /\ files[num[p]].id = cmd[p].id
  /\ Goto(p, "check")
  /\ UNCHANGED <<disk, locks, cmd, grp, num, todo, ret, acked, counters>>

\* Variant: artnum is signed.
PrevSigned(n) == n - 1

\* artnum-- on a uint64: below 0 the search goes on at 2^64 - 1, and stays in
\* the numbers that Top stands for.
Prev(n) == IF n \in {0, Top} THEN Top ELSE n - 1

ProbeMiss(p) ==
  /\ pc[p] = "find"
  /\ num[p] >= grp[p].start
  /\ ~ (Readable(num[p]) /\ files[num[p]].id = cmd[p].id)
  /\ num' = [num EXCEPT ![p] = Prev(@)]
  /\ UNCHANGED <<disk, locks, pc, cmd, grp, todo, ret, acked, counters>>

ProbeEnd(p) ==
  /\ pc[p] = "find"
  /\ num[p] < grp[p].start
  /\ Finish(p)
  /\ UNCHANGED <<disk, acked, counters>>

\* The file is opened a second time for its From: header.
CheckPass(p) ==
  /\ pc[p] = "check"
  /\ num[p] \in Present /\ files[num[p]].from = cmd[p].from
  /\ Goto(p, "remove")
  /\ UNCHANGED <<disk, locks, cmd, grp, num, todo, ret, acked, counters>>

CheckDeny(p) ==
  /\ pc[p] = "check"
  /\ ~ (Readable(num[p]) /\ files[num[p]].from = cmd[p].from)
  /\ Finish(p)
  /\ UNCHANGED <<disk, acked, counters>>

\* DeleteArticle: os.Remove, then BuildInfo takes the lock.
Remove(p) ==
  /\ pc[p] = "remove"
  /\ num[p] \in Present
  /\ files' = [files EXCEPT ![num[p]] = NoFile]
  /\ acked' = acked \ {num[p]}
  /\ ret' = [ret EXCEPT ![p] = "cancelled"]
  /\ Goto(p, "buildlock")
  /\ UNCHANGED <<info, torn, locks, cmd, grp, num, todo, counters>>

RemoveFail(p) ==
  /\ pc[p] = "remove"
  /\ num[p] \notin Present
  /\ Finish(p)
  /\ UNCHANGED <<disk, acked, counters>>

Cancelled(p) ==
  /\ pc[p] = "cancelled"
  /\ Finish(p)
  /\ UNCHANGED <<disk, acked, counters>>

-----------------------------------------------------------------------------
(* Faults of whole processes.                                              *)

\* The server exits, by signal or at the end of main, whatever its connections
\* are doing, and is started again.
ServerExit ==
  /\ exits < MaxExits
  /\ \E p \in Handler : pc[p] # "idle"
  /\ exits' = exits + 1
  /\ Leave(Handler)
  /\ UNCHANGED <<disk, acked, left, ioerrs>>

GatewayKilled(p) ==
  /\ p \in Gateway
  /\ exits < MaxExits
  /\ pc[p] # "idle"
  /\ exits' = exits + 1
  /\ Leave({p})
  /\ UNCHANGED <<disk, acked, left, ioerrs>>

-----------------------------------------------------------------------------
Arrive(p) == BeginRead(p) \/ BeginPost(p) \/ BeginCancel(p)

Index(p) ==
  \/ OpenInfo(p) \/ ReadLock(p) \/ ReadInfo(p) \/ Reply(p)
  \/ BuildLock(p) \/ ReadDir(p) \/ StatEntry(p) \/ TruncInfo(p) \/ WriteInfo(p)
  \/ Loaded(p)

Post(p) ==
  \/ PostLock(p) \/ PostLoad(p) \/ FilterAccept(p) \/ FilterReject(p)
  \/ CreateExists(p) \/ CreateNew(p) \/ WriteArticle(p) \/ Posted(p)

Cancel(p) ==
  \/ ProbeHit(p) \/ ProbeMiss(p) \/ ProbeEnd(p) \/ CheckPass(p) \/ CheckDeny(p)
  \/ Remove(p) \/ RemoveFail(p) \/ Cancelled(p)

Step(p) == Index(p) \/ Post(p) \/ Cancel(p)

Fail(p) == SaveFail(p) \/ LoadFail(p) \/ CreateFail(p) \/ GatewayKilled(p)

\* Every command has been answered and no more arrive (bound MaxCmds).
Quiet ==
  /\ left = 0
  /\ \A p \in Proc : pc[p] = "idle"
  /\ UNCHANGED vars

Next ==
  \/ \E p \in Proc : Arrive(p) \/ Step(p) \/ Fail(p)
  \/ ServerExit
  \/ Quiet

Spec == Init /\ [][Next]_vars

\* A goroutine or process that can go on does; nothing obliges a client to send
\* a command, or a fault to happen.
FairSpec == Spec /\ \A p \in Proc : WF_vars(Step(p))

-----------------------------------------------------------------------------
(* Properties.                                                             *)

\* Type correctness of every variable of the group directory and its users.
TypeOK ==
  /\ files \in [Num -> Article \cup {NoFile}]
  /\ info \in Info \cup {Missing}
  /\ torn \in BOOLEAN
  /\ exLock \in Proc \cup {Nobody}
  /\ shLock \subseteq Proc
  /\ pc \in [Proc -> Label]
  /\ cmd \in [Proc -> Command]
  /\ grp \in [Proc -> Info]
  /\ num \in [Proc -> Num]
  /\ todo \in [Proc -> SUBSET Num]
  /\ ret \in [Proc -> Return]
  /\ acked \subseteq Num
  /\ left \in Nat /\ exits \in Nat /\ ioerrs \in Nat

\* The labels at which a process works under the exclusive lock.
Exclusive == {"scan", "stat", "trunc", "save", "loaded", "postload", "filter",
              "create", "write", "posted", "cancelled"}

\* flock keeps index and numbering to one process: whoever rebuilds the index,
\* saves it or posts is the only one inside, and no process reads .info
\* meanwhile (readLock, writeLock in lock.go; every unlock is deferred).
MutualExclusion ==
  \A p, q \in Proc :
    /\ pc[p] \in Exclusive /\ pc[q] \in Exclusive \cup {"reading"} => p = q

FaultFree == exits = 0 /\ ioerrs = 0

\* Cancels that removed an article and have not rebuilt the index yet.
Dirty == {p \in Proc : ret[p] = "cancelled" /\ pc[p] # "cancelled"}

\* Whenever nobody holds the exclusive lock and no cancel is between its removal
\* and its rebuild, .info says exactly what a scan of the directory would: Post
\* keeps by increments the numbers that BuildInfo computes, even though articles
\* are removed without the lock, under a scan or between two scans.
IndexExact ==
  FaultFree /\ exLock = Nobody /\ Dirty = {} /\ info # Missing
    => IsSummary(info, Present)

\* Even while cancels are removing articles, no article in the directory is out
\* of the range start..end, which is all that readers and searches look at.
IndexCovers ==
  FaultFree /\ exLock = Nobody /\ info # Missing => Covers(info, Present)

\* An article that is still being written lies outside the range in .info, so
\* no reader is sent to it before it is complete.
PublishedWhole ==
  FaultFree /\ info # Missing
    => \A n \in Present : n <= info.end => files[n].whole

\* Once complete, an article is never overwritten or truncated, not even when
\* the index was lost and Post starts its numbers over: O_EXCL makes it skip
\* every number in use, and only a cancel frees one.
NoOverwrite ==
  [][\A n \in Num :
       n \in Present /\ files[n].whole /\ files'[n] # NoFile
         => files'[n] = files[n]]_vars

\* What was answered 240 and not cancelled is in the directory, and complete
\* unless some write failed: the exits of the server, the indexes they leave
\* empty and the numbers that Post then starts over, and the removals of others
\* between the writing of an article and its answer do not change that.
AckedKept ==
  /\ acked \subseteq Present
  /\ ioerrs = 0 => \A n \in acked : files[n].whole

\* A rebuild repairs whatever index it finds, a torn one included, after exits
\* and failed writes: every article in the directory is in the range that
\* BuildInfo writes, and none is missing from its count.
RebuildCovers ==
  [][\A p \in Proc :
       pc[p] = "save" /\ ret[p] # "posted" /\ pc'[p] = ret[p]
         => Covers(info', Present) /\ info'.total >= Cardinality(Present)]_vars

\* Every read and every post is answered, whatever the others do: the two ways
\* to take the lock cannot block each other, and a cancel that searches for ever
\* holds no lock.
PostAnswered ==
  \A p \in Proc :
    pc[p] # "idle" /\ cmd[p].op \in {"read", "post"} ~> pc[p] = "idle"

\* After a cancel removed an article, the index becomes exact again, although
\* several cancels and posts rebuild and extend it in any order.
RemovalReindexed ==
  Dirty # {} ~> info # Missing /\ Dirty = {} /\ IsSummary(info, Present)

-----------------------------------------------------------------------------
(* What the documentation says and the code does not do.                   *)

\* "FindArticleByMessageID does a linear search from End to Start"
\* (group.go:446): the number it looks at never leaves that range.
SearchWithinRange ==
  \A p \in Proc :
    pc[p] = "find" => num[p] <= grp[p].end

\* "cancel <message-id> in a POST deletes the original article if From: matches"
\* (help.txt:160): what a cancel removes is the article it names, by that author.
CancelDeletesNamed ==
  [][\A p \in Proc : pc[p] = "remove" /\ pc'[p] = "buildlock"
       => files[num[p]].id = cmd[p].id /\ files[num[p]].from = cmd[p].from]_vars

\* "SIGINT / SIGTERM -- graceful shutdown" (manuals/USAGE.md:58): an article
\* whose post was answered 240 stays within reach after the server is stopped
\* and started again.
AckedReachable ==
  exLock = Nobody /\ info # Missing => Covers(info, acked)

=============================================================================
