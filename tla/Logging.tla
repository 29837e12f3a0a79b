------------------------------- MODULE Logging -------------------------------
(***************************************************************************)
(* The log file, its rotation by size in the server, and the command       *)
(* rotate, which is another process (internal/logging/log.go,              *)
(* cmd/gonewsd/main.go).                                                   *)
(*                                                                         *)
(* The goroutines of the server share one Logger and its mutex. The rotate *)
(* command has a Logger and a mutex of its own, so that nothing but the    *)
(* file system orders the two. ErrorLog is a file, AuthLog is not set, and *)
(* sizes are counted in lines.                                             *)
(***************************************************************************)
EXTENDS Naturals, Sequences, FiniteSets

CONSTANTS
  Worker,     \* goroutines of the server that log
  MaxLogSize, \* the directive MaxLogSize; 0 means no rotation by size
  MaxLines,   \* bound: lines that are logged
  MaxRotates, \* bound: runs of the rotate command, one at a time
  MaxStops,   \* bound: times the server is stopped
  MaxFaults,  \* bound: renames and opens that fail
  None

ASSUME LoggingAssumption ==
  /\ None \notin Worker
  /\ MaxLogSize \in Nat /\ MaxLines \in Nat /\ MaxRotates \in Nat
  /\ MaxStops \in Nat /\ MaxFaults \in Nat

VARIABLES
  files,   \* the files there have ever been: the lines in each
  dir,     \* which of them ErrorLog and ErrorLog.O name; 0 is none
  file,    \* Logger.file of the server; 0 is nil
  writer,  \* Logger.writer: that file, stderr, or a file that was closed
  mu,      \* holder of Logger.mu
  pc,      \* where each goroutine is
  kind,    \* whether it is in Log or in LogAuth
  up,      \* the server runs
  rot,     \* where the rotate command is
  lost,    \* numbers of the lines that were written nowhere
  lines, rotates, stops, faults

disk == <<files, dir>>
logger == <<file, writer>>
goroutines == <<mu, pc, kind>>
counters == <<lines, rotates, stops, faults>>
vars == <<disk, logger, goroutines, up, rot, lost, counters>>

Name == {"log", "old"}

Line == [no : Nat \ {0}, kind : {"Log", "LogAuth"}]

Label == {"idle", "lock", "stat", "close", "rename", "reopen", "open", "put", "write"}

Init ==
  /\ files = << << >> >>
  /\ dir = [log |-> 1, old |-> 0]
  /\ file = 1
  /\ writer = "file"
  /\ mu = None
  /\ pc = [w \in Worker |-> "idle"]
  /\ kind = [w \in Worker |-> "Log"]
  /\ up = TRUE
  /\ rot = "off"
  /\ lost = {}
  /\ lines = 0 /\ rotates = 0 /\ stops = 0 /\ faults = 0

-----------------------------------------------------------------------------
(* The file system.                                                        *)

\* Variant: every open makes a new file.
OpenedNew == Len(files) + 1

\* OpenFile with O_CREATE: the file that ErrorLog names, or a new one.
Opened == IF dir.log = 0 THEN Len(files) + 1 ELSE dir.log

OpenLog ==
  /\ dir' = [dir EXCEPT !.log = Opened]
  /\ files' = IF dir.log = 0 THEN Append(files, << >>) ELSE files

\* The file that was ErrorLog.O is gone.
RenameLog ==
  /\ dir.log # 0
  /\ dir' = [log |-> 0, old |-> dir.log]
  /\ UNCHANGED files

Fault ==
  /\ faults < MaxFaults
  /\ faults' = faults + 1
  /\ UNCHANGED <<lines, rotates, stops>>

-----------------------------------------------------------------------------
(* Log and LogAuth. Everything from Lock to Write is under Logger.mu.      *)

Goto(w, label) == pc' = [pc EXCEPT ![w] = label]

Call(w, k) ==
  /\ up /\ pc[w] = "idle"
  /\ lines + Cardinality({v \in Worker : pc[v] # "idle"}) < MaxLines
  /\ Goto(w, "lock")
  /\ kind' = [kind EXCEPT ![w] = k]
  /\ UNCHANGED <<disk, logger, mu, up, rot, lost, counters>>

\* Log looks at the size and writes to the file while it has one, else, like
\* LogAuth always, to the writer.
Lock(w) ==
  /\ pc[w] = "lock" /\ mu = None
  /\ mu' = w
  /\ Goto(w, IF kind[w] = "LogAuth" \/ file = 0 THEN "write"
             ELSE IF MaxLogSize > 0 THEN "stat" ELSE "put")
  /\ UNCHANGED <<disk, logger, kind, up, rot, lost, counters>>

\* Variant: a file that has just reached the limit is rotated.
TooLongAtLimit == dir.log # 0 /\ Len(files[dir.log]) >= MaxLogSize

\* Variant: a line that fills the file beyond the limit by one more is let in.
TooLongByMore == dir.log # 0 /\ Len(files[dir.log]) > MaxLogSize + 1

\* os.Stat looks at the name, not at the open file.
TooLong == dir.log # 0 /\ Len(files[dir.log]) > MaxLogSize

Stat(w) ==
  /\ pc[w] = "stat"
  /\ Goto(w, IF TooLong THEN "close" ELSE "put")
  /\ UNCHANGED <<disk, logger, mu, kind, up, rot, lost, counters>>

Close(w) ==
  /\ pc[w] = "close"
  /\ file' = 0 /\ writer' = "closed"
  /\ Goto(w, "rename")
  /\ UNCHANGED <<disk, mu, kind, up, rot, lost, counters>>

Rename(w) ==
  /\ pc[w] = "rename"
  /\ RenameLog
  /\ Goto(w, "open")
  /\ UNCHANGED <<logger, mu, kind, up, rot, lost, counters>>

\* The rename fails, for its own reasons or because the rotate command has just
\* renamed the file.
RenameFails(w) ==
  /\ pc[w] = "rename"
  /\ \/ dir.log = 0 /\ UNCHANGED counters
     \/ dir.log # 0 /\ Fault
  /\ Goto(w, "reopen")
  /\ UNCHANGED <<disk, logger, mu, kind, up, rot, lost>>

\* Variant: when the rename failed, nothing is opened.
ReopenNothing(w) ==
  /\ pc[w] = "reopen"
  /\ Goto(w, "put")
  /\ UNCHANGED <<disk, logger, mu, kind, up, rot, lost, counters>>

Reopen(w) ==
  /\ pc[w] = "reopen"
  /\ OpenLog
  /\ file' = Opened /\ writer' = "file"
  /\ Goto(w, "put")
  /\ UNCHANGED <<mu, kind, up, rot, lost, counters>>

\* The closed file stays the writer.
ReopenFails(w) ==
  /\ pc[w] = "reopen"
  /\ Fault
  /\ Goto(w, "put")
  /\ UNCHANGED <<disk, logger, mu, kind, up, rot, lost>>

Open(w) ==
  /\ pc[w] = "open"
  /\ OpenLog
  /\ file' = Opened /\ writer' = "file"
  /\ Goto(w, "put")
  /\ UNCHANGED <<mu, kind, up, rot, lost, counters>>

OpenFails(w) ==
  /\ pc[w] = "open"
  /\ Fault
  /\ writer' = "stderr"
  /\ Goto(w, "put")
  /\ UNCHANGED <<disk, file, mu, kind, up, rot, lost>>

NewLine(w) == [no |-> lines + 1, kind |-> kind[w]]

\* Variant: the file was opened without O_APPEND.
PutFirst(f, l) == files' = [files EXCEPT ![f] = <<l>> \o @]

Put(f, l) == files' = [files EXCEPT ![f] = Append(@, l)]

\* Variant: the mutex is kept when there is no file to write to.
ReleaseAfterFile == mu' = IF file = 0 THEN mu ELSE None

Release == mu' = None

\* A write to a closed or a nil file fails, and nobody looks at the error. What
\* goes to stderr is not followed further.
Write(w) ==
  /\ pc[w] \in {"put", "write"}
  /\ \/ file # 0 /\ Put(file, NewLine(w)) /\ UNCHANGED lost
     \/ /\ file = 0 /\ (pc[w] = "put" \/ writer = "closed")
        /\ lost' = lost \cup {lines + 1}
        /\ UNCHANGED files
     \/ file = 0 /\ pc[w] = "write" /\ writer = "stderr" /\ UNCHANGED <<files, lost>>
  /\ lines' = lines + 1
  /\ Release
  /\ Goto(w, "idle")
  /\ UNCHANGED <<dir, logger, kind, up, rot, rotates, stops, faults>>

-----------------------------------------------------------------------------
(* The server is stopped or killed anywhere, and started again.            *)

Stop ==
  /\ up /\ stops < MaxStops
  /\ up' = FALSE
  /\ stops' = stops + 1
  /\ file' = 0 /\ writer' = "closed"
  /\ mu' = None
  /\ pc' = [w \in Worker |-> "idle"]
  /\ UNCHANGED <<disk, kind, rot, lost, lines, rotates, faults>>

\* Logger.Init
Start ==
  /\ ~ up
  /\ up' = TRUE
  /\ OpenLog
  /\ file' = Opened /\ writer' = "file"
  /\ UNCHANGED <<goroutines, rot, lost, counters>>

-----------------------------------------------------------------------------
(* The rotate command: Logger.Init, then rotateLocked(true).               *)

RotInit ==
  /\ rot = "off" /\ rotates < MaxRotates
  /\ rotates' = rotates + 1
  /\ OpenLog
  /\ rot' = "rename"
  /\ UNCHANGED <<logger, goroutines, up, lost, lines, stops, faults>>

RotRename ==
  /\ rot = "rename"
  /\ RenameLog
  /\ rot' = "open"
  /\ UNCHANGED <<logger, goroutines, up, lost, counters>>

RotRenameFails ==
  /\ rot = "rename"
  /\ \/ dir.log = 0 /\ UNCHANGED counters
     \/ dir.log # 0 /\ Fault
  /\ rot' = "open"
  /\ UNCHANGED <<disk, logger, goroutines, up, lost>>

RotOpen ==
  /\ rot = "open"
  /\ OpenLog
  /\ rot' = "off"
  /\ UNCHANGED <<logger, goroutines, up, lost, counters>>

RotOpenFails ==
  /\ rot = "open"
  /\ Fault
  /\ rot' = "off"
  /\ UNCHANGED <<disk, logger, goroutines, up, lost>>

-----------------------------------------------------------------------------
Step(w) ==
  \/ Lock(w) \/ Stat(w) \/ Close(w) \/ Rename(w) \/ RenameFails(w) \/ Reopen(w) \/ ReopenFails(w)
  \/ Open(w) \/ OpenFails(w) \/ Write(w)

RotStep == RotRename \/ RotRenameFails \/ RotOpen \/ RotOpenFails

\* Nobody logs any more and no command runs.
Quiet ==
  /\ up /\ rot = "off"
  /\ \A w \in Worker : pc[w] = "idle"
  /\ UNCHANGED vars

Next ==
  \/ \E w \in Worker, k \in {"Log", "LogAuth"} : Call(w, k)
  \/ \E w \in Worker : Step(w)
  \/ Stop \/ Start \/ RotInit \/ RotStep \/ Quiet

Spec == Init /\ [][Next]_vars

FairSpec == Spec /\ \A w \in Worker : WF_vars(Step(w))

-----------------------------------------------------------------------------
(* Properties.                                                             *)

TypeOK ==
  /\ files \in Seq(Seq(Line))
  /\ dir \in [Name -> 0..Len(files)]
  /\ file \in 0..Len(files)
  /\ writer \in {"file", "stderr", "closed"}
  /\ mu \in Worker \cup {None}
  /\ pc \in [Worker -> Label]
  /\ kind \in [Worker -> {"Log", "LogAuth"}]
  /\ up \in BOOLEAN
  /\ rot \in {"off", "rename", "open"}
  /\ lost \subseteq Nat
  /\ lines \in Nat /\ rotates \in 0..MaxRotates
  /\ stops \in 0..MaxStops /\ faults \in 0..MaxFaults

Content(name) == IF dir[name] = 0 THEN << >> ELSE files[dir[name]]

OnDisk == Content("old") \o Content("log")

\* What is on the disk, the rotated file first, is in the order in which it was
\* logged, whoever rotates and whatever fails: a reader of the two files never
\* has to sort them.
InOrder ==
  \A i, j \in 1..Len(OnDisk) : i < j => OnDisk[i].no < OnDisk[j].no

\* While only the server rotates and no operation fails, the two files hold
\* without a gap the last lines that were logged, at least one more than
\* MaxLogSize of them, also when the server is stopped amid a rotation.
RecentKept ==
  (rotates = 0 /\ faults = 0) =>
    /\ OnDisk # << >> => OnDisk[Len(OnDisk)].no = lines
    /\ \A i \in 1..Len(OnDisk) - 1 : OnDisk[i + 1].no = OnDisk[i].no + 1
    /\ Len(OnDisk) >= IF lines < MaxLogSize + 1 THEN lines ELSE MaxLogSize + 1

\* While only the server rotates and no operation fails, neither file has more
\* than one line beyond MaxLogSize, not counting what LogAuth wrote.
SizeBounded ==
  (rotates = 0 /\ faults = 0 /\ MaxLogSize > 0) =>
    \A name \in Name :
      Cardinality({i \in 1..Len(Content(name)) : Content(name)[i].kind = "Log"})
        <= MaxLogSize + 1

\* As long as no operation fails, no line goes to a file that was closed or was
\* never opened, whatever the rotate command does between the steps of a
\* rotation in the server.
NoLineLost == faults = 0 => lost = {}

\* Whoever logs gets on, whatever fails in the rotation: no path leaves the mutex
\* locked, and none takes it twice.
LogReturns == \A w \in Worker : pc[w] = "lock" ~> pc[w] = "idle"

=============================================================================
