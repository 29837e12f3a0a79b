# gonewsd in TLA+

gonewsd is a small NNTP server. It keeps each newsgroup as a directory of
numbered article files with an index file `.info`, guarded by an advisory lock
on `.lock`; it serves connections with one goroutine each, and other processes
(the mail gateway, the administration commands) work on the same directories and
on an SQLite database of users and groups. This directory holds a TLA+ model of
it, the TLC runs that check the model and TLAPS proofs about it.

Run a check with `tlc -config MCSpoolPromises.cfg MCSpool`, a proof with
`tlapm SpoolProofs.tla`. `PROJECT.json` lists every run, which source lines each
definition stands for, the mutated definitions that each property rejects, the
findings and the hazards.

## 1. The system

| Component | State | Operations | Talks to |
|---|---|---|---|
| Group spool (`internal/group/group.go`, `lock.go`, `internal/article`) | article files, `.info` (start, end, total), `.config`, `.lock` | `LoadInfo`, `BuildInfo`, `SaveInfo`, `Post`, `FindArticleByMessageID`, `DeleteArticle` | called by every connection, the gateway, `addgroup` |
| Command loop (`internal/nntp/server.go`) | per connection: `curGroup` (a copy of the index), `curArticle`, `session`, `authUser` | the NNTP commands | spool, access control, logger |
| Line and body readers (`readLineRaw`, `readPostBodyRaw`, `countPostLines`) | reader mode | one byte at a time | command loop |
| Ranges and patterns (`parseArticleRange`, `doWildmat`) | none | pure functions | command loop |
| Listener and shutdown (`server.go`, `cmd/gonewsd/main.go`) | `clients`, `conns`, signal channel of capacity 1, pid file | `Accept`, `Close`, `CloseAllConns`, the signal loop, `os.Exit` | command loop, logger |
| Access control (`internal/auth/store.go`) | users, groups, memberships, mode in memory | `CanRead`, `CanPost`, `FilterGroupsForLIST` | command loop |
| Auth database and reload (`internal/auth/db.go`, `loadAuthStore`, `triggerReload`) | SQLite tables; the store in memory | `AddUser`, ..., `LoadStoreFromDB`, `SetAuthStore`, SIGHUP | CLI, listener, command loop |
| Group administration (`cmd/gonewsd/authcli.go`) | database row, directory, `.config`, `.info` | `addgroup`, `updategroup`, `deletegroup` | spool, database |
| Mail gateway (`main.go: mailGateway`) | one message, a Group value | load, count lines, post, CC (it looks for mail loops, and never finds one) | spool, sendmail |
| Logging (`internal/logging/log.go`) | open files, writer | `Log`, `LogAuth`, rotation | everything |
| Config parser, validation, passwords, test clients, platform code | none that lasts | | |

Hard behaviour, and what has to be right about it:

* *Spool.* Readers, posts, cancels and rebuilds of several goroutines and
  processes interleave. Removal is not locked, rebuilding is; `Post` keeps by
  increments what `BuildInfo` computes by a scan. The index must describe the
  directory whenever it can be read, a number must belong to one article, a
  reader must not be sent to an article that is still being written, and the two
  nested ways of taking the lock must not block each other. An exit between the
  truncation and the write of `.info` leaves an empty index.
* *Command loop.* A connection works on a copy of the index and on a current
  article that others may cancel.
  An article that was accepted need not be one that can be loaded again.
* *Listener.* A connection holds one of `MaxClients` places for as long as its handler
  lives, and a handler can be in a command that never ends. Signals, accepts, closing
  connections and closing the log overlap
  at shutdown, and the process does not wait for its handlers.
* *Reload.* The database changes between the three queries that load it; a
  signal may come before the server listens for it, or while another is queued.
* *Administration.* A command changes database and directory in several steps,
  each of which can fail, while the server uses both. The directories of groups lie
  inside one another where their names do.
* *Bytes.* Commands and bodies are read by different automata over the same stream,
  which ignore CR in different ways, drop dots, and stop at limits of size and
  time; the gateway has a second implementation of the counting, and what was
  stored is cut and stuffed again when it is sent.
* *Log.* The mutex of `Logger` orders the goroutines of one process; the `rotate`
  command renames the same files from another.

`PROJECT.json` gives every such hazard with its line.

## 2. Plan

In order of importance; a module that says *done* is described in section 3.

1. `GroupInfo`, `Spool` (done): the group directory and its users.
2. `ArticleStore`, `SpoolRefinement` (done): what a group promises, and that
   `Spool` keeps it.
3. `SpoolInductive` and proofs (done): lock, index, numbering for any number of
   processes.
4. `Lifecycle` (done, with proofs): accept loop, connection limit, signals,
   closing of connections and log, exit.
5. `AuthAdmin` (done, with proofs): the administration commands and the reload, commits,
   signals that coalesce, three queries, directories that come and go.
6. `Session` with `ArticleRange` (done, with proofs): a connection's commands
   against a group and a store that change.
7. `ArticleText`, `Submission` (done, with proofs): line and body readers, the line limit of
   the selected group, the mail gateway, and articles on their way out again.
8. `Logging` (done, with proofs): rotation by size and by the `rotate` command from
   another process.
9. `Wildmat` (done, with proofs): patterns against what they mean.
10. STARTTLS and COMPRESS in `Session`: the connection is replaced under the
    command loop; the cancel message's check of `From:` there too.

`Session` takes from `Spool` what `ArticleStore` promises, and from `AuthAdmin` the
stores that may be loaded; `Submission` takes from `Session` and `Spool` that a post
may be refused or fail. Composing them further would repeat their steps.

Every safety property that a passing run checks is a theorem of section 5.

## 3. Modules

**`GroupInfo`** has the operators on (start, end, total): `Count`, one more
article in the scan of `BuildInfo`; `Extend`, the increments of `Post`;
`Covers` and `IsSummary`, what it means for an index to describe a set of
articles.

**`Spool`** is one group directory. Its state:

| Variable | Code |
|---|---|
| `files` | the directory: number -> article (Message-ID, `From:`, complete or not) or `NoFile` |
| `info`, `torn` | the content of `.info`, or `Missing`; whether the file is empty |
| `exLock`, `shLock` | holders of `flock(LOCK_EX)`, `flock(LOCK_SH)` on `.lock` |
| `pc`, `cmd` | where each connection or gateway process is, and its command |
| `grp`, `num`, `todo`, `ret` | its `Group` value, `msgnum` or `artnum`, the directory entries left to scan, where `SaveInfo` returns to |
| `acked` | history: the numbers of articles whose post was answered 240 and that were not cancelled; the initial ones are among them |
| `left`, `exits`, `ioerrs` | counters of the bounds |

There is one action per file operation that another process can observe, named
after it: `OpenInfo`, `ReadLock`, `ReadInfo` are `LoadInfo`; `BuildLock`,
`ReadDir`, `StatEntry`, `TruncInfo`, `WriteInfo`, `Loaded` are `BuildInfo` and
`SaveInfo`; `PostLock`, `PostLoad`, `FilterAccept`/`Reject`, `CreateExists`/`New`,
`WriteArticle`, `Posted` are `Post`; `ProbeHit`/`Miss`/`End`, `CheckPass`/`Deny`,
`Remove` are `handleCancel`. `SaveFail`, `LoadFail`, `CreateFail` are file
operations that fail, `ServerExit` and `GatewayKilled` stop processes anywhere.

Abstractions: header text is reduced to Message-ID and author. An article that
is being written may or may not show its header to a reader. `Top` stands for all
numbers beyond any article; a search that wraps around stays there. Articles get
numbers below `Top` only. `.config` does not change, so its second read lock is
part of the load. The spam filter accepts or rejects, and terminates. Headers and
body are written in one step, during which everybody else sees the file
incomplete. A write of `.info` is complete or leaves it empty. With
`MsgModDirs` articles are in subdirectories, which is the same set of numbers.

**`ArticleStore`** is what a group promises: a set of numbers, an index that is
replaced in one step and covers the set, and is exact when nobody who changed the
set still has to reindex; a new article is beyond the index. **`SpoolRefinement`**
maps `Spool` to it: the index changes when `.info` is truncated (from then on
nobody can read it before it is complete), a post is pending from the creation of
its file and a cancel from its removal.

**`SpoolInductive`** has the inductive invariant, **`SpoolProofs`** the proofs,
**`MCSpool`** the instances.

**`Lifecycle`** is the server process. `sock`, `hungup` are the connections as both
ends see them; `accepter`, `acc` the accept loop and the connection in its hands;
`handler` where each connection's goroutine is; `clients`, `conns`, `listening`,
`logging` are `Server.clients`, `Server.conns`, the listener and `Logger.writer`;
`main`, `sigCh`, `notified` the main goroutine, its channel and whether
`signal.Notify` is in force; `exit` is how the process ended. `Accept` is
`AcceptConn`, `Refuse`, `Count`, `Register`: the limit is read in one step and the
counter changed in another. The deferred function of `handleConn` is `LogClosed`,
`Deregister`, `Decrement`, `CloseConn`. The shutdown is `ReceiveTerm`,
`StopSignals`, `CloseListener`, `CloseAllConns`, `Join`, `CloseLog`, `Exit`; a
handler that logs between the last two panics (`LogAfterClose`). Commands are not
distinguished here: a handler waits at the read (`serve`), or is in a command
(`busy`), which is answered (`Answered`) or never ends (`NeverAnswered`, `stuck`): a
search by Message-ID in a group that was empty when it was selected (`group.go:448`),
or a post behind a spam filter that hangs (`group.go:505`). `hungup` are the clients
that closed their end and of which nothing is left to read.

**`AuthAdmin`** is the database, the spool directories, the commands that change
them and the server that loads them. `users`, `userId`, `groups`, `member` are the
tables, `dir` the directories; `cli`, `job`, `seen` where each command is, what it
is to do and the row it has read; `store`, `draft` the store in use and the one
being loaded; `main`, `pidfile`, `notified`, `sigCh`, `alive` the server as far as
signals go. A command is `AddUser` ... `UpdateGroup` followed by `Check`, `Read`,
`MakeDir`, `Write`, `RemoveDir`, `Trigger`, each a statement, transaction or file
operation; it may be `Killed` anywhere. The server goes through `LoadUsers`,
`LoadGroups`, `LoadMembers`, `Publish`, and at first through `WritePidFile` and
`NotifySignals`. `Under` says which group's directory lies inside which other's, since
`groupDir` makes directories of the dots in a name: `a.b` is inside `a`, and `a.`,
which is a valid name (`validate.go:16`), is `a`. `MakeDir` makes the directories above
too (`Path`), `RemoveDir` removes all that is inside (`Inside`); a group is `Alone` if
its directory is inside no other group's. Permissions are values of one set, all other columns of another;
a user added again is another one (`user_id`).

**`ArticleRange`** has `ParseArticleRange`, on what can be told apart in the text of
a range: no range, one number, N-, N-M.

**`Session`** is one connection. `curGroup`, `curArticle`, `session`, `authUser` are
the variables of `handleConn`; `pc`, `cmd` where the command loop is; `store`,
`articles`, `info` what it shares with others, who may at any moment replace the
store (`Reload`), post, remove or reindex. `loadable` are the articles that
`Article.Load` accepts, for which there must be a `From:`, a Message-ID and no header
line that is too long (`article.go:116-128`): the others were stored and answered 240
all the same, and are there for LISTGROUP, which looks for files, and for searches, but
not for OVER, GROUP, NEXT, LAST and ARTICLE. A command begins with an action named
after it (`AuthPass`, `List`, `NextArticle`, `Retrieve`, `Post` ...) and then takes
a step for each access to the store or to a group: `Resolve` after the password
was checked, `Selected` after the index was loaded, `ListOne` for each number,
`LoadArticle`, `SendArticle` and `Restore`, `PostCheck` after `BodyRead`. LISTGROUP, OVER, HDR and XPAT
are `List`, with what the first two can send as `Listable`; what HDR and XPAT send
depends on headers and is left out, their Message-ID in place of a range is
`ListById`. LIST, NEWGROUPS and NEWNEWS are `ListGroups`. `entitled` is history: every right
that the session had, under some store, since its command (for POST, since the
body had come). Not in it: STARTTLS and COMPRESS, which replace the connection and
keep the rest; cancels, whose steps are in `Spool`; `auth.mode`, which the code looks
at only after it has returned (section 4).

**`Wildmat`** has `DoWildmat`, with which XPAT, LIST and NEWNEWS match patterns, and
`Means`, what a pattern means: there is a cut of the name into one piece for each
character. `Session` filters its lists of groups with the one (`Listed`) and is held
against the other (`ListedAsMeant`).

**`ArticleText`** has the functions an article goes through, over bytes that are CR,
LF, a dot, or one that stands for a whole header or command: `ParseArticle`,
`CountPostLines`, the file that `Post` writes (`Written`) and `SendArticle`, each a
recursive function with the step of the loop as an operator. `Loads` is what
`Article.Load` asks of the headers before anything is sent, `Reply` what ARTICLE, HEAD
and BODY then send. Of the headers that `Post` adds or removes, `Xref:` stands for all;
`From` stands for a `From:` with a value, `EmptyID` for a `Message-ID:` without one,
which keeps `Post` from adding its own.

**`Submission`** is the way of an article into a group. `sent` is what a sender
means; `rest` the bytes he has still to send, `link` whether he sends, is silent or
has closed. `at` is what the program does; `line`, `skip` are the state of
`readLineRaw`, `mode`, `msg` that of `readPostBodyRaw`, `count`, `toolong` the
variables of `mailGateway`. Every byte is a step. `ReadLine` and `ReadBody` are the
two readers, `ReadBodyTooBig`, `Expire` and `ReadBodyEof` the ways a body can fail,
after which the reader of commands goes on in what is left of it; `Post` judges
and stores, `ReadMail` and `MailPost` do so for a mail. Before the limit is looked at,
`Post` may refuse for the group's name, its index, the rights or `From:` (answer
`refused`). No mail is refused as a loop, as none is in the code. `heard`, `answer` and `files`
are history, against which `sent` is held; a file keeps the number of the text it was
written of (`of`). Rights are in `Session`, the steps of
storing in `Spool`.

**`Logging`** is one `Logger` with its goroutines and the `rotate` command. `files` are
the files by identity, `dir` which of them the names `ErrorLog` and `ErrorLog.O`
mean, so that a file can be renamed under those who have it open; `file`, `writer`,
`mu` are the fields of `Logger`; `pc`, `kind` where each goroutine is. `Lock`, `Stat`,
`Close`, `Rename`, `Open`, `Reopen` are the system calls of `rotateLocked`, `Write` the
rest of `Log` and `LogAuth`; `RotInit`, `RotRename`, `RotOpen` are the command, which
has a mutex of its own and so none. `Stop` and `Start` are the server's. Sizes are
counted in lines.

The proofs are in `SpoolProofs` (with those of `GroupInfo` and the refinement),
`LifecycleProofs`, `SessionProofs` (with those of `ArticleRange` and `Wildmat`),
`AuthAdminProofs`, `LoggingProofs`, `SubmissionProofs` (the readers, `ParseArticle` and
`CountPostLines`) and `AnswerProofs` (`SendArticle`, and what comes of a text);
`RecursionProofs` has what proofs about recursive functions need. Each `MC` module
has the instances for TLC.

## 4. Runs

| Run | Instance | Shows |
|---|---|---|
| `spool_promises` | 2 connections and gateway, articles 1 and 3, 3 commands, weak fairness | types, one writer at a time (`MutualExclusion`), the index is exact (`IndexExact`) and covers (`IndexCovers`), nothing incomplete is published (`PublishedWhole`); `Spool` implements `ArticleStore` (`ImplementsArticleStore`); reads and posts are answered (`PostAnswered`), removals are indexed (`RemovalReindexed`) |
| `spool_faults` | 3 commands, one exit or kill, one failing operation | no article is overwritten (`NoOverwrite`), what was answered 240 stays and is complete unless a write failed (`AckedKept`), a rebuild repairs any index (`RebuildCovers`) |
| `lifecycle` | 2 clients, 1 place, a failing accept, weak fairness | the limit holds (`WithinLimit`, `RefusedOnlyWhenFull`), no place is lost (`PlaceReturned`) unless to a command that never ends, a shutdown ends (`ShutdownEnds`) |
| `admin` | 1 administrator, 2 commands, 2 users, 2 groups one inside the other, 1 fault, from the start of the server, weak fairness | a group in the database that lies inside no other has its directory (`SpoolBehindRow`); updategroup leaves what it was not told, here the archived flag (`OmittedUnchanged`); reloads forget nobody (`SteadyUsersKnown`); in the end the store is the database (`ChangesArrive`) |
| `session` | 2 groups with a gap and an article that cannot be loaded, 3 stores and none, 3 commands, 2 changes by others; any pattern of up to 3 of 4 characters | nothing sent or stored that no row granted (`ReadsEntitled`, `PostsEntitled`); current article in the group (`CurrentInGroup`); LISTGROUP has every number, OVER every loadable article that stayed (`ListingComplete`); lists of groups are what rights and pattern mean (`ListedAsMeant`) |
| `submission` | 79 texts of up to 6 lines posted before and after a GROUP, 78 mails with and without the end of the last line, CR LF and LF, weak fairness | what senders can fill is bounded (`TypeOK`); texts are told from commands (`Framed`), judged by the limit (`Judged`), and can be loaded exactly if their headers allow it, and then come back whole (`ComesBack`); no body takes for ever (`BodyEnds`) |
| `logging` | 2 goroutines, 5 lines, files of 1 line, 2 runs of `rotate`, 1 stop, 1 failure, weak fairness | the two files are in order (`InOrder`), hold the last lines (`RecentKept`), stay small (`SizeBounded`); no line is lost (`NoLineLost`); nobody is left with the mutex (`LogReturns`) |
| `spool_search` | 1 cancel in an empty group | *violation*: the search leaves its range and does not end (`SearchWithinRange`) |
| `spool_cancel` | 2 authors, 3 commands | *violation*: a cancel removes an article it does not name (`CancelDeletesNamed`) |
| `spool_exit` | 1 connection, one exit | *violation*: an acknowledged article is out of reach after a restart (`AckedReachable`) |
| `lifecycle_term` | 1 client, weak fairness | *violation*: a SIGTERM is lost behind a SIGHUP (`TermHonoured`) |
| `admin_omit` | 2 administrators | *violation*: what updategroup omits is written back as it was (`OmittedUnchanged`) |

Bounds. Spool: the initial group has a gap, so that a removal can be at the low
end, at the high end, or leave the group empty, and `.info` may be present or
missing. Three commands are enough for a cancel to remove an article while
another scans and a third posts; more are covered by the proofs. `Top` leaves
room for every post that the bound on commands allows, so the bound on numbers
never stops one. Lifecycle: with two clients and one place, one is refused, or
admitted when the other leaves between check and count; more places only repeat
this, and the proofs cover them. AuthAdmin: the initial database is any in which the
steady user has no memberships, so that one command meets every row and two delete and
add again, or delete the group above another, with the server anywhere between two of
them; a queued and a served signal need two commands. Submission: bodies of two lines pair every kind of line with every
other; 80, 4092, 65536, 4096 and 10 MB become 2, 2, 4, 3 and 14 characters, so that
lines of the texts lie on either side of each, and one text exceeds the size;
between two posts the group, and with it the limit, is selected. Logging: five
lines fill a file of one line twice, with the command before, amid and after each
rotation. Session: three commands log in, select and read, or select twice; two
changes revoke a right and remove an article in between; the ranges (`Ranges`) are one
of each form, one beyond the group at both ends and one the wrong way round. The three stores give a
group in turn to everybody, to members, to readers, archive it or do not have it;
the user is unknown to one.

Every command ends but for the runaway search of `Spool` and `Session` (`Find`) and what
`Lifecycle` has as `stuck`; when no more arrive the systems
are `Quiet`, `Stopped` or `Gone`, so deadlock is checked everywhere.

Fairness (`FairSpec`): weak fairness of each process's or goroutine's own steps.
The Go scheduler and the kernel run what can run. In `Spool`, that a process
waiting for the lock gets it needs no strong fairness, since a bounded number of
commands arrive; under an endless stream of them flock promises nothing. In
`Lifecycle` a handler that waits for its client need not go on, nor one whose command
never ends; nor need clients or signals come. In `AuthAdmin` a command that has begun goes on. Arrivals and
faults have no fairness. `Session` has no liveness: its client may stay silent. In
`Submission` the server reads a body as long as bytes come, and the deadline of
two minutes, which is always set (`server.go:873`), passes when none do: no
fairness is asked of the sender. In `Logging` whoever has the mutex goes on.

Findings, each with its run: `FindArticleByMessageID` decrements a `uint64` past 0
when `Start` is 0; `handleCancel` searches, checks and removes without the lock;
`main` exits under its handlers, which can leave `.info` empty; the signal channel
has room for one signal and drops a SIGTERM behind a SIGHUP; `updategroup` reads a
row and writes it back in two statements.

The models do more that is at odds with a document or comment, without a run of
its own:

* A handler that logs after `main` has closed the log dereferences the nil writer
  (`log.go:165`, `LogAfterClose`), so that the graceful shutdown of `USAGE.md:58`
  can end in a panic.
* A connection that is accepted but not registered yet when `CloseAllConns` runs
  stays open, against the comment of `main.go:209`.
* A change committed between the first load (`main.go:143`) and the pid file
  (`main.go:152`) is signalled to nobody, and one between there and
  `signal.Notify` (`main.go:172`) kills the server, against `USAGE.md:370`.
* `updategroup -archive=false` does not restore a group (`authcli.go:1249`,
  `USAGE.md:295`).
* NEXT stops at a gap in the numbers (`server.go:773`).
* After a group that was empty is selected a lookup by Message-ID never ends (`Find`):
  ARTICLE, HEAD, BODY and STAT (`server.go:824`), HDR (626), XPAT (557) and a cancel
  (1136). Its handler never reads again, so that the client's place among `MaxClients`
  is lost for good when it hangs up (`NeverAnswered`); so it is behind a spam filter that
  hangs, for everybody who uses the group. `PlaceReturned` makes the exception.
* `auth.mode` changes nothing. `USAGE.md:222-228` and `CONFIGURATION.md:62` say that
  `private` needs a login for all access and `read_public_write_private` one for posting;
  `CanRead` and `CanPost` return by the row of the group, or because there is none, before
  they look at the mode (`store.go:192-211`, `234-253`). A session without a login reads and
  posts wherever `world_perm` has r and w, in every mode. `ReadsEntitled` and
  `PostsEntitled` hold the code to the row, as `ACL_DB.md:53-55` has it, and say nothing of
  the mode.
* `POST` asks for `From:` only when somebody is logged in (`server.go:915`), and adds no
  Message-ID to an empty one (`group.go:551`). Such an article is answered 240 and indexed,
  but `Article.Load` does not accept it (`article.go:121-128`), nor one with a header line
  of 64 KiB: ARTICLE answers 430, OVER leaves it out, for ever. `ComesBack` and
  `ListingComplete` say exactly which articles these are.
* `deletegroup` removes the directory with everything inside (`authcli.go:1152`): the
  directories and articles of the groups whose names it begins, while their rows stay.
  With `a` goes `a.b`, and since `a.` has the directory of `a` (`validate.go:16`, `85`), each
  goes with the other. `SpoolBehindRow` is about the groups that are `Alone`, because it
  is not true of the others.
* An ARTICLE whose file is cancelled between the load and the second open sends 220
  and nothing (`server.go:853`); BODY sends an empty line too many
  (`server.go:861`).
* LIST ACTIVE sends the total where the highest number belongs (`server.go:434`).
* After `gonewsd rotate` the server goes on writing to the renamed file, which its
  own rotation no longer looks at, since `os.Stat` asks for the name
  (`log.go:192`); a second `rotate` removes what it wrote meanwhile. The mutex, of
  which the comment of `log.go:255-260` says that it is enough, is another one in
  the other process. The suffix is `.O`, not the `.1` of `USAGE.md:353-359`.
* The limit on lines is that of the group that was selected (`server.go:932`), not of
  the group that is posted to (`ACL_DB.md:58`), and there is none before a GROUP
  command. The gateway does not count a last line without an end.
* The gateway detects no mail loops, against its comment (`main.go:338`): it compares the
  first 14 and 8 bytes of a header with the 13 of `X-Newsd-Loop:` and the 7 of `X-Loop:`
  (`main.go:343-344`). A mail that comes back is posted and ends with status 0.
* CC mail is sent by the gateway only (`USAGE.md:344`). When it fails, the gateway, whose
  logger was not initialized (`main.go:87`), panics after it has posted
  (`CcPostToMail`).
* A body that is too big or too slow ends the POST with 441, and what is left of it
  is executed as commands (`server.go:876-879`, `BodyFails`).
* A body whose first line is the lone dot does not end there (`server.go:1165`,
  against the comment of `server.go:1017`): the automaton begins in the mode for
  the middle of a line. The texts of `Submission` begin with a header.
* Lines beyond 4092 bytes are cut when they are sent, and one of 64 KiB or more in the
  body ends the reply without an error (`article.go:178-188`).
* When a folded `Date:` or `NNTP-Posting-Host:` is removed its continuation stays
  (`group.go:532-545`).
* `-d` changes `cfg.ErrorLog` after the logger has copied it (`main.go:122-126`), so
  that the log does not go to stderr, against `help.txt:38`.
* A load that fails when the server starts leaves no store, and without one
  everything is allowed (`main.go:144`); `AuthAdmin` starts in that state
  (`NoStore`).

More hazards contradict nothing documented and have no property: a session keeps the
memberships that it found at its login, whatever is reloaded since, and AUTHINFO PASS
may check the password in one store and take the groups from the next (`server.go:331-335`); any error
of `Accept` ends the accept loop (`main.go:181`, `AcceptFail`); the pid file outlives
the process, since `os.Exit` runs no deferred function (`main.go:155`); `updateuser`
writes back the password hash that it read (`db.go:294`, `Read`).

## 5. Proofs

For any sets of connections and gateways, any initial group, any `Top` and any
number of exits and failures, `SpoolProofs` shows:

* `TypeCorrect`, `MutuallyExclusive`: types, and the exclusion that `flock`
  gives.
* `NeverOverwritten`: complete articles are never overwritten.
* `RebuildsCover`: a rebuild covers every article, whatever was torn before.
* `AnsweredKept`: what was answered 240 is there until it is cancelled, and complete
  unless a file operation failed.
* `SearchStaysInRange`: a search in a group whose `Start` is not 0 keeps to its range.

and as long as nothing fails:

* `IndexIsExact`, `IndexAlwaysCovers`, `OnlyWholePublished`, and `AnsweredReachable`: what
  was answered 240 is in the range.
* `FaultFreeRefines`: `Spool` implements `ArticleStore`; `BoundedRefines` is the same
  for instances in which nothing can fail, as in the run `spool_promises`.

They rest on the named assumptions of `Spool` only: `Top` is a positive natural,
the initial articles are complete and have numbers below it, the sentinels are
none of the values they stand beside.

None of these is inductive. `IndInv` adds what each process knows at each label:
`Shape` (the lock is held exactly where the code holds it, `SaveInfo` returns to
its caller, `.info` does not vanish under those who opened it, a post's number is
beyond the `End` it loaded), `ScanInv` (what a scan has counted covers what it
has examined and is still there, and counts at least as much), and for fault-free
executions `CoverInv` (whoever holds the lock has an index that covers the
directory, but for the article it is writing), `ExactInv` (the same exactly while
nobody else is removing), `WholeInv` (the one incomplete article is the one being
written), `TornInv` (`.info` is empty only while someone saves it).
`AnsweredKept` needs besides that a post which has written its article and not
answered yet has a complete one (`KeptInv`): nobody else creates or writes a file
meanwhile, by `Shape`, though the file may be removed. `SearchInv` is inductive with
`Shape`. `AnsweredReachable` and `SearchStaysInRange` have as hypothesis, and as
only hypothesis, what the counterexamples of `spool_exit` and `spool_search` lack;
`OmittedStay` below does the same for `admin_omit`.
There is one lemma per action for `Shape`. For the rest, steps are split by whether the process is under the lock: outside, all it can do to the
others is remove an article (`OutsideStep`, `FewerCovered`); inside, nobody else
has anything to show (`InsideFrame`), and the arithmetic is in `CountExact` and
`ExtendExact`.

For the refinement each action is mapped to what the store sees of it. Outside the
lock (`OutsideRefines`) a `Remove` is the store's removal, and everything else a
stutter: whoever takes the lock to rebuild or to post leaves the index of the store
as it was (`OutsideIndex`). Under it, `CreateNew` is an addition, whose number is
beyond the index by `Shape` (`CreateRefines`); `TruncInfo` is the point at which the
index becomes the new one, covering by `ScanInv`, and exact unless somebody has yet to
reindex (`TruncRefines`); what follows until the lock is released is a stutter, since
the index of the store is then what the process carries (`InsideRefines`). An exit
or a failure has no counterpart: a torn `.info` is none of the indices that the
store may have, hence the hypothesis.

`LifecycleProofs`, for any clients and any limit: `LimitKept` and
`RefusedWhenFull`. A handler whose command never ends counts like any other. The
counter is not the number of handlers, since it is incremented before the handler exists and decremented before the connection is
closed; the invariant says that it is the number of those that count, one more
between `Count` and `Register`, and that what the accept loop has in hand is new.

`SessionProofs`, for any users, groups, stores, articles, and any number of
commands and changes: `OnlyEntitledRead` and `OnlyEntitledPost` (what the rows grant to
the memberships of the login, not what `auth.mode` would), `CurrentStaysInGroup`,
`ListingsComplete` (LISTGROUP by files, OVER by what can be loaded, which may change
under a listing), `ListsAsMeant`. `IndInv` says that rights only
accumulate from command to reply (`RightsKept`), that every number a command is
about to load is in the range (`TargetInGroup`), and how far a listing has come
(`ListedSoFar`). A command's beginning and end are lemmas of their own
(`BeginStep`, `EndStep`), which most actions instantiate. `RangeWithin` and
`RangeCovers` are what they need of ranges. `ListsAsMeant` needs that somebody who is
not logged in has no memberships (`RightsKept`), and `WildmatMeans`: for all strings,
`DoWildmat` is `Means`. That is shown in two halves. What patterns mean satisfies the
equation of `doWildmat` (`MeaningAnswers`: a cut for a pattern is one for its first
character and a cut of the rest, `MeansFirst`), and the equation has one solution
(`AnswersUnique`, by induction on the length of the pattern). They rest on
`SessionAssumption` and `RangesAssumption`: the stores and initial articles are well formed, those that can be
loaded are among them, the names of
groups strings, the sentinels distinct.

`AuthAdminProofs`, for any administrators, users, groups, commands and faults:
`TypeCorrect`, `SteadyAlwaysKnown`, and for one administrator (the hypothesis
`OneAdministrator`) `DirectoryBehindRow`, for groups whose directory lies inside no
other's, and `OmittedStay`. `JobsOK` says what a command may be about at
each place of it, so that `Write` finds the password and the columns it needs;
`DraftKnows` that a store being loaded has the steady users from its first query
on, which makes `Publish` keep them; `Checked` that what one administrator has
checked is still so when he writes: it is here that a second one would break the
proof. `SeenCurrent` says the same of the row that updategroup has read. That `RemoveDir` of
another group takes no directory from a group that is `Alone` is all that is needed of
`Under`. They rest on `AdminAssumption`, by which `Under` is reflexive and transitive.

`LoggingProofs`, for any goroutines, limits and runs of `rotate`: `TypeCorrect`,
`AlwaysInOrder`, `NothingLost`, `RecentLinesKept`, `SizeStaysBounded`. The invariant
has the mutex with whoever is between `Lock` and `Write`, the writer closed only
there or after a failure, and line numbers that increase along each file and from
the file that is `ErrorLog.O` to the one that is `ErrorLog`. For the last two,
`CalmInv` describes a server that alone rotates, without failures (`Tame`): a file is
renamed only when it is longer than the limit, so that what it pushes out is not
missed, and `Log` puts its line into one that is not, the one that `ErrorLog` names.
Neither property is inductive without this: a file renamed while short, or a line
written to the renamed one, would break it. They rest on `LoggingAssumption`.

`SubmissionProofs`, for any texts, commands and limits:

* `TypeCorrect`: the line, the body and the mail that are being read are bounded by
  `MaxLine`, `MaxPostSize` and the sizes of what is sent.
* `TakenAsMeant`: what a sender means as command, header or body is taken as such
  (`Framed`), until a body fails.

Two hypotheses go with these theorems and those of `AnswerProofs`. `WellBegun`: every text begins with a line
that is neither empty nor begins with a dot, as every article with a header does. A
body is read as if it began within a line (section 4), so a first line with a dot
would keep the second one of the two that are sent. `MaxLine > 1`: the reader of
commands can hold a whole one, which stands for a command within the code's 4096
bytes; a longer one is cut into two, by `full` in `ReadLine`. The instance of the run
satisfies both.

`Framed` speaks of what has been taken; it is not inductive, since it says nothing of
the bytes that are on their way. `FramedInv` adds, for each place of the program,
where in what the sender means the bytes to come begin (`Position`): a prefix of a
command line is in `line`, or a line of a text is at its beginning, within it, or
between its CR and LF, with `mode` what the automaton knows of it and `msg` the lines
before. What is to come is `FlattenSeq` of the wires of what follows (`Rest`), so that
reading a byte means taking the head of a line's wire, and reaching its end means
`Rest` one further. That `msg` reads as meant is said by the state that the loop of
`ParseArticle` has after it (`After`), which `ParseByte` carries from one byte to the next: thus
the proof for a byte is one step of that loop, and the end of a body or a mail is
`ArticleMeant`.

`AnswerProofs`, from the same two hypotheses:

* `JudgedByRule`: every answer is one that the lines of the text allow (`Judged`).
* `ComesBackWhole`: what is answered as kept, and nothing else, is in the files; it can
  be loaded exactly if its headers are `Complete`, and then comes back as it was sent
  (`ComesBack`).
* `Replies`: which files can be loaded, and what ARTICLE, HEAD and BODY send of them.

`AnswersInv` adds to `FramedInv` what has been answered: the group is selected if and
only if a GROUP was heard, every answer is allowed, the files are those of the texts
that were kept, in their order (`Recorded`); and how far the program is tells what the
gateway has done (`Outcome`). That alone is not inductive either: that `Post` and
`MailPost` answer by the rule needs what they count and parse to be the text, which is
what `Position` has when the last byte is read.

*The limit.* `CountPostLines` goes through bytes, the rule (`LinesOf`) is of lines. A
counter is a function of the state of `ParseArticle` at the same byte (`Tally`): its
`linechars` are those of the unfinished line modulo `MaxChars + 1`, its `linecount` the
lines before and the full ones of this line. `TallyByte` is one byte of it, for both
loops, and `TallyText` its value within a text. In a POST every line has its end, so
the count is the rule (`PostCounts`); a mail may lack the last one and then counts one
line less, which is the difference between `Answers` and `MailAnswers`. The gateway
counts on when it no longer copies; `MailTaken` has the count in any case, the text
only as long as nothing was over the limit.

*The replies.* `SendLine` is a state machine over the lines of a file: within the
headers, at the line after them, within the body, done. Where it is after a number of
lines depends on the first empty line, and on the first that fills the scanner
(`Reached`, `ReachedNext`): so what it sends is a segment of the file, cut and stuffed
(`ArticleSent`), and what a client makes of it that segment, cut (`SentReceived`); a cut
line that was a dot has got a second one. What `Post` writes has its first empty line
where it put it (`MeantHeaders`, `FileReplies`).

Recursive functions. `ParseArticle`, `CountPostLines`, `LinesOf`, `SendArticle`,
`FlattenSeq`, `DoWildmat` are functions that the language defines by a choice: nothing is known of them before a function that
satisfies the equation has been exhibited. `RecursionProofs` has it for loops
(`ValuesExist`), and `Induction` over the naturals for sets (`{n \in Nat : ...}`), which
follows from the well-foundedness of < on them. The induction theorems of the library
have an operator as a parameter and cannot be used here.

Only model-checked: the liveness properties (`PostAnswered`, `RemovalReindexed`,
`PlaceReturned`, `ShutdownEnds`, `ChangesArrive`, `LogReturns`, `BodyEnds`), which are
out of the prover's reach. Proofs say nothing of what a step may be unable to do
(`ENABLED`), which is the absence of deadlock in the runs.

## 6. Not modelled

The components of section 1 whose status in `PROJECT.json` is `not_modelled`.
Some stay out for good: the configuration parser and the validators are
functions of strings without state or concurrency, the test clients are not part
of the server, and the Windows build has no locks to model.
