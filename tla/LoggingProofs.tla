---------------------------- MODULE LoggingProofs ----------------------------
(***************************************************************************)
(* Proofs about Logging: types, the order of the lines on the disk, that   *)
(* no line is lost, and, while nothing fails, which lines are on the disk  *)
(* and how many, for any goroutines, any limit on the size, and any number *)
(* of lines, rotations, stops and failing operations.                      *)
(***************************************************************************)
EXTENDS Logging, FiniteSetTheorems, TLAPS

\* Whoever is inside Log or LogAuth has the mutex; a stopped server does nothing.
Held ==
  /\ \A w \in Worker : pc[w] \notin {"idle", "lock"} => mu = w
  /\ ~ up => \A w \in Worker : pc[w] = "idle"

\* The server is without a file only inside a rotation.
Rotating == \E w \in Worker : pc[w] \in {"rename", "reopen", "open"}

FileOpen == (faults = 0 /\ up /\ ~ Rotating) => file # 0

\* A file has one name. While the server goes on writing to the file that the
\* rotate command renamed, nobody else has written to the new one; and no line on
\* the disk is newer than the last.
Placed ==
  /\ dir.log # 0 => dir.log # dir.old
  /\ (file # 0 /\ file = dir.old) => Content("log") = << >>
  /\ \A i \in 1..Len(OnDisk) : OnDisk[i].no <= lines

-----------------------------------------------------------------------------

\* The content of a name is a sequence of lines.
LEMMA ContentType ==
  ASSUME TypeOK, NEW name \in Name
  PROVE  Content(name) \in Seq(Line)
BY DEF TypeOK, Content, Name

\* Opening the log changes the content of neither name, and keeps the types.
LEMMA OpenKeeps ==
  ASSUME TypeOK, OpenLog
  PROVE  /\ files' \in Seq(Seq(Line)) /\ dir' \in [Name -> 0..Len(files')]
         /\ Len(files') >= Len(files)
         /\ dir'.log = Opened /\ Opened \in 1..Len(files') /\ dir'.old = dir.old
         /\ (dir.log # 0 => dir.log # dir.old) => dir'.log # dir'.old
         /\ Content("log")' = Content("log") /\ Content("old")' = Content("old")
<1>1. /\ files \in Seq(Seq(Line)) /\ dir \in [Name -> 0..Len(files)] /\ << >> \in Seq(Line)
      /\ "log" \in Name /\ "old" \in Name
  BY DEF TypeOK, Name
<1>2. CASE dir.log = 0
  <2>1. files' = Append(files, << >>) /\ Opened = Len(files) + 1
    BY <1>2 DEF OpenLog, Opened
  <2>2. dir' = [dir EXCEPT !.log = Len(files) + 1]
    BY <2>1 DEF OpenLog
  <2>3. files' \in Seq(Seq(Line)) /\ Len(files') = Len(files) + 1
    BY <1>1, <2>1
  <2>4. files'[Len(files) + 1] = << >> /\ \A f \in 1..Len(files) : files'[f] = files[f]
    BY <1>1, <2>1
  <2>5. dir'.log = Len(files) + 1 /\ dir'.old = dir.old
    BY <1>1, <2>2
  <2>6. dir' \in [Name -> 0..Len(files')]
    BY <1>1, <2>2, <2>3
  <2>7. dir.old \in 0..Len(files)
    BY <1>1
  <2> QED BY <1>2, <1>1, <2>1, <2>3, <2>4, <2>5, <2>6, <2>7 DEF Content
<1>3. CASE dir.log # 0
  <2>1. files' = files /\ Opened = dir.log
    BY <1>3 DEF OpenLog, Opened
  <2>2. dir' = dir
    BY <1>1, <2>1 DEF OpenLog
  <2> QED BY <1>1, <1>3, <2>1, <2>2 DEF Content
<1> QED BY <1>2, <1>3

\* Renaming leaves of the two contents that of the log, under the other name.
LEMMA RenameMoves ==
  ASSUME TypeOK, RenameLog
  PROVE  /\ dir' \in [Name -> 0..Len(files)] /\ dir'.log = 0 /\ dir'.old = dir.log
         /\ files' = files
         /\ Content("log")' = << >> /\ Content("old")' = Content("log")
<1>1. dir \in [Name -> 0..Len(files)] /\ "log" \in Name /\ "old" \in Name
  BY DEF TypeOK, Name
<1>2. dir' = [log |-> 0, old |-> dir.log] /\ files' = files /\ dir.log # 0
  BY DEF RenameLog
<1>3. dir' \in [Name -> 0..Len(files)]
  BY <1>1, <1>2 DEF Name
<1> QED BY <1>1, <1>2, <1>3 DEF Content

\* A suffix of an ordered sequence is ordered.
LEMMA SuffixOrdered ==
  ASSUME NEW s \in Seq(Line), NEW t \in Seq(Line), NEW n \in Nat,
         \A i, j \in 1..Len(s \o t) : i < j => (s \o t)[i].no < (s \o t)[j].no,
         \A i \in 1..Len(s \o t) : (s \o t)[i].no <= n
  PROVE  /\ \A i, j \in 1..Len(t) : i < j => t[i].no < t[j].no
         /\ \A i \in 1..Len(t) : t[i].no <= n
<1>1. \A i \in 1..Len(t) : t[i] = (s \o t)[Len(s) + i] /\ Len(s) + i \in 1..Len(s \o t)
  OBVIOUS
<1>2. ASSUME NEW i \in 1..Len(t), NEW j \in 1..Len(t), i < j
      PROVE  t[i].no < t[j].no
  <2>1. Len(s) + i < Len(s) + j
    BY <1>2
  <2> QED BY <1>1, <1>2, <2>1
<1>3. ASSUME NEW i \in 1..Len(t)
      PROVE  t[i].no <= n
  BY <1>1, <1>3
<1> QED BY <1>2, <1>3

LEMMA AppendConcat ==
  ASSUME NEW s \in Seq(Line), NEW t \in Seq(Line), NEW l \in Line
  PROVE  s \o Append(t, l) = Append(s \o t, l)
<1>1. /\ s \o Append(t, l) \in Seq(Line) /\ Append(s \o t, l) \in Seq(Line)
      /\ Len(s \o Append(t, l)) = Len(Append(s \o t, l))
  OBVIOUS
<1>2. ASSUME NEW i \in 1..Len(Append(s \o t, l))
      PROVE  (s \o Append(t, l))[i] = Append(s \o t, l)[i]
  OBVIOUS
<1> QED BY <1>1, <1>2

\* A newer line at the end keeps the order.
LEMMA AppendOrdered ==
  ASSUME NEW s \in Seq(Line), NEW n \in Nat, NEW l \in Line, l.no = n + 1,
         \A i, j \in 1..Len(s) : i < j => s[i].no < s[j].no,
         \A i \in 1..Len(s) : s[i].no <= n
  PROVE  /\ \A i, j \in 1..Len(Append(s, l)) : i < j => Append(s, l)[i].no < Append(s, l)[j].no
         /\ \A i \in 1..Len(Append(s, l)) : Append(s, l)[i].no <= n + 1
<1>1. /\ Len(Append(s, l)) = Len(s) + 1 /\ Append(s, l)[Len(s) + 1] = l
      /\ \A i \in 1..Len(s) : Append(s, l)[i] = s[i] /\ s[i] \in Line
  OBVIOUS
<1>2. \A i \in 1..Len(s) : s[i].no \in Nat
  BY <1>1 DEF Line
<1>3. ASSUME NEW i \in 1..Len(s) + 1
      PROVE  /\ Append(s, l)[i].no <= n + 1
             /\ \A j \in 1..Len(s) + 1 : i < j => Append(s, l)[i].no < Append(s, l)[j].no
  <2>1. CASE i = Len(s) + 1
    BY <1>1, <2>1
  <2>2. CASE i \in 1..Len(s)
    <3>1. Append(s, l)[i].no = s[i].no /\ s[i].no <= n /\ s[i].no \in Nat
      BY <1>1, <1>2, <2>2
    <3>2. ASSUME NEW j \in 1..Len(s), i < j
          PROVE  Append(s, l)[i].no < Append(s, l)[j].no
      BY <1>1, <2>2, <3>1, <3>2
    <3> QED BY <1>1, <3>1, <3>2
  <2> QED BY <2>1, <2>2
<1> QED BY <1>1, <1>3

-----------------------------------------------------------------------------

\* What a step leaves alone when it changes neither disk, file nor lines.
LEMMA DiskSame ==
  ASSUME Placed, InOrder, UNCHANGED <<disk, file, lines>>
  PROVE  Placed' /\ InOrder'
BY ZenonT(40) DEF Placed, InOrder, OnDisk, Content, disk

\* A server without a file, or with the newly opened one, over unchanged contents.
LEMMA OpenPlaced ==
  ASSUME TypeOK, Placed, InOrder, OpenLog, lines' = lines, file' \in {file, 0, Opened}
  PROVE  Placed' /\ InOrder'
<1>1. OnDisk' = OnDisk
  BY OpenKeeps DEF OnDisk
<1>2. Opened # dir.old /\ Opened \in Nat
  BY OpenKeeps DEF Placed
<1> QED BY <1>1, <1>2, OpenKeeps DEF Placed, InOrder

LEMMA RenamePlaced ==
  ASSUME TypeOK, Placed, InOrder, RenameLog, UNCHANGED <<file, lines>>
  PROVE  Placed' /\ InOrder'
<1>1. Content("log") \in Seq(Line) /\ Content("old") \in Seq(Line)
  BY ContentType DEF Name
<1>2. OnDisk' = Content("log")
  BY <1>1, RenameMoves DEF OnDisk
<1>3. lines \in Nat
  BY DEF TypeOK
<1>4. /\ \A i, j \in 1..Len(Content("log")) :
           i < j => Content("log")[i].no < Content("log")[j].no
      /\ \A i \in 1..Len(Content("log")) : Content("log")[i].no <= lines
  BY <1>1, <1>3, SuffixOrdered DEF OnDisk, Placed, InOrder
<1> QED BY <1>2, <1>4, RenameMoves DEF Placed, InOrder

\* A line goes to the end of the disk, or to a file that has no name any more.
LEMMA PutPlaced ==
  ASSUME TypeOK, Placed, InOrder, NEW l \in Line, l.no = lines + 1, lines' = lines + 1,
         file # 0, Put(file, l), UNCHANGED <<dir, file>>
  PROVE  Placed' /\ InOrder'
<1>1. /\ files \in Seq(Seq(Line)) /\ file \in 1..Len(files) /\ lines \in Nat
      /\ dir.log \in 0..Len(files) /\ dir.old \in 0..Len(files)
  BY DEF TypeOK, Name
<1>2. /\ files' \in Seq(Seq(Line)) /\ Len(files') = Len(files)
      /\ files'[file] = Append(files[file], l)
      /\ \A f \in 1..Len(files) : f # file => files'[f] = files[f]
  BY <1>1 DEF Put
<1>3. Content("log") \in Seq(Line) /\ Content("old") \in Seq(Line)
  BY ContentType DEF Name
<1>4. CASE file = dir.log
  <2>1. Content("log")' = Append(Content("log"), l) /\ Content("old")' = Content("old")
    BY <1>1, <1>2, <1>4 DEF Content, Placed
  <2>4. OnDisk' = Content("old") \o Append(Content("log"), l)
    BY <2>1 DEF OnDisk
  <2>5. OnDisk = Content("old") \o Content("log")
    BY DEF OnDisk
  <2>6. OnDisk \in Seq(Line)
    BY <1>3, <2>5
  <2>2. OnDisk' = Append(OnDisk, l) /\ OnDisk \in Seq(Line)
    BY <1>3, <2>4, <2>5, <2>6, AppendConcat
  <2>3. file # dir.old
    BY <1>4 DEF Placed
  <2> QED BY <1>1, <2>2, <2>3, AppendOrdered DEF Placed, InOrder
<1>5. CASE file # dir.log /\ file = dir.old
  <2>1. Content("log")' = << >> /\ Content("log") = << >>
    BY <1>1, <1>2, <1>5 DEF Content, Placed
  <2>2. Content("old")' = Append(Content("old"), l)
    BY <1>1, <1>2, <1>5 DEF Content
  <2>3. OnDisk' = Append(OnDisk, l) /\ OnDisk \in Seq(Line)
    BY <1>3, <2>1, <2>2 DEF OnDisk
  <2> QED BY <1>1, <1>5, <2>1, <2>3, AppendOrdered DEF Placed, InOrder
<1>6. CASE file # dir.log /\ file # dir.old
  <2>1. ASSUME NEW f \in 0..Len(files), f # 0, f # file
        PROVE  files'[f] = files[f]
    BY <1>1, <1>2, <2>1
  <2>4. Content("log")' = Content("log") /\ Content("old")' = Content("old")
    BY <1>1, <1>6, <2>1 DEF Content
  <2>2. OnDisk' = OnDisk /\ OnDisk \in Seq(Line)
    BY <1>3, <2>4 DEF OnDisk
  <2>3. ASSUME NEW i \in 1..Len(OnDisk)
        PROVE  OnDisk[i].no <= lines + 1
    <3>1. OnDisk[i] \in Line /\ OnDisk[i].no <= lines
      BY <2>2 DEF Placed
    <3> QED BY <1>1, <3>1 DEF Line
  <2> QED BY <1>1, <1>6, <2>2, <2>3 DEF Placed, InOrder
<1> QED BY <1>4, <1>5, <1>6

-----------------------------------------------------------------------------

\* The types, action by action.
LEMMA TypeStep == TypeOK /\ [Next]_vars => TypeOK'
<1> SUFFICES ASSUME TypeOK, [Next]_vars PROVE TypeOK'
  OBVIOUS
<1> USE LoggingAssumption
<1> USE DEF Name, Label, disk, logger, goroutines, counters
<1>1. ASSUME NEW w \in Worker, NEW k \in {"Log", "LogAuth"}, Call(w, k) PROVE TypeOK'
  BY <1>1 DEF Call, Goto, TypeOK
<1>2. ASSUME NEW w \in Worker, Lock(w) PROVE TypeOK'
  BY <1>2 DEF Lock, Goto, TypeOK
<1>3. ASSUME NEW w \in Worker, Stat(w) PROVE TypeOK'
  BY <1>3 DEF Stat, Goto, TypeOK
<1>4. ASSUME NEW w \in Worker, Close(w) PROVE TypeOK'
  BY <1>4 DEF Close, Goto, TypeOK
<1>5. ASSUME NEW w \in Worker, Rename(w) PROVE TypeOK'
  BY <1>5, RenameMoves DEF Rename, Goto, TypeOK
<1>6. ASSUME NEW w \in Worker, RenameFails(w) PROVE TypeOK'
  BY SMTT(30), <1>6 DEF RenameFails, Fault, Goto, TypeOK
<1>7. ASSUME NEW w \in Worker, Reopen(w) PROVE TypeOK'
  BY <1>7, OpenKeeps DEF Reopen, Goto, TypeOK
<1>8. ASSUME NEW w \in Worker, ReopenFails(w) PROVE TypeOK'
  BY <1>8 DEF ReopenFails, Fault, Goto, TypeOK
<1>9. ASSUME NEW w \in Worker, Open(w) PROVE TypeOK'
  BY <1>9, OpenKeeps DEF Open, Goto, TypeOK
<1>10. ASSUME NEW w \in Worker, OpenFails(w) PROVE TypeOK'
  BY <1>10 DEF OpenFails, Fault, Goto, TypeOK
<1>11. ASSUME NEW w \in Worker, Write(w) PROVE TypeOK'
  <2>1. lines \in Nat /\ NewLine(w) \in Line
    BY DEF TypeOK, NewLine, Line
  <2>2. files' \in Seq(Seq(Line)) /\ Len(files') = Len(files)
    <3>1. CASE files' = files
      BY <3>1 DEF TypeOK
    <3>2. CASE file # 0 /\ Put(file, NewLine(w))
      BY <2>1, <3>2 DEF Put, TypeOK
    <3> QED BY <1>11, <3>1, <3>2 DEF Write
  <2>4. lines + 1 \in Nat
    BY <2>1
  <2>5. lost \subseteq Nat
    BY DEF TypeOK
  <2>6. lines' = lines + 1 /\ (lost' = lost \/ lost' = lost \cup {lines + 1})
    BY <1>11 DEF Write
  <2>3. lost' \subseteq Nat /\ lines' \in Nat
    BY <2>4, <2>5, <2>6, Zenon
  <2> QED BY <1>11, <2>2, <2>3 DEF Write, Release, Goto, TypeOK
<1>12. CASE Stop
  <2>1. stops' \in 0..MaxStops
    BY <1>12 DEF Stop, TypeOK
  <2>2. pc' \in [Worker -> Label]
    BY <1>12 DEF Stop
  <2>4. Len(files) \in Nat
    BY DEF TypeOK
  <2>5. up' = FALSE /\ file' = 0 /\ files' = files /\ writer' = "closed"
    BY <1>12 DEF Stop
  <2>6. 0 \in 0..Len(files)
    BY <2>4
  <2>3. up' \in BOOLEAN /\ file' \in 0..Len(files') /\ writer' \in {"file", "stderr", "closed"}
    BY <2>5, <2>6
  <2> QED BY <1>12, <2>1, <2>2, <2>3 DEF Stop, TypeOK
<1>13. CASE Start
  BY <1>13, OpenKeeps DEF Start, TypeOK
<1>14. CASE RotInit
  BY <1>14, OpenKeeps DEF RotInit, TypeOK
<1>15. CASE RotRename
  BY <1>15, RenameMoves DEF RotRename, TypeOK
<1>16. CASE RotRenameFails
  BY SMTT(30), <1>16 DEF RotRenameFails, Fault, TypeOK
<1>17. CASE RotOpen
  BY SMTT(30), <1>17, OpenKeeps DEF RotOpen, TypeOK
<1>18. CASE RotOpenFails
  BY <1>18 DEF RotOpenFails, Fault, TypeOK
<1>19. CASE UNCHANGED vars
  BY <1>19 DEF vars, TypeOK
<1> QED
  BY <1>1, <1>2, <1>3, <1>4, <1>5, <1>6, <1>7, <1>8, <1>9, <1>10, <1>11, <1>12, <1>13,
     <1>14, <1>15, <1>16, <1>17, <1>18, <1>19 DEF Next, Step, RotStep, Quiet

-----------------------------------------------------------------------------

\* The mutex, and the open file.
LEMMA MutexStep == TypeOK /\ Held /\ FileOpen /\ NoLineLost /\ [Next]_vars
                    => Held' /\ FileOpen' /\ NoLineLost'
<1> SUFFICES ASSUME TypeOK, Held, FileOpen, NoLineLost, [Next]_vars
             PROVE  Held' /\ FileOpen' /\ NoLineLost'
  OBVIOUS
<1>0. /\ pc \in [Worker -> Label] /\ None \notin Worker /\ faults \in Nat
      /\ file \in Nat /\ dir.log \in Nat /\ Len(files) \in Nat
  BY LoggingAssumption DEF TypeOK, Name
<1>a. Opened # 0
  BY <1>0 DEF Opened
<1>b. Fault => faults' # 0
  BY <1>0 DEF Fault
<1> USE <1>0 DEF Goto, Held, FileOpen, NoLineLost, Rotating, disk, logger, goroutines, counters
<1>1. ASSUME NEW w \in Worker, NEW k \in {"Log", "LogAuth"}, Call(w, k)
      PROVE  Held' /\ FileOpen' /\ NoLineLost'
  BY <1>1 DEF Call
<1>2. ASSUME NEW w \in Worker, Lock(w) PROVE Held' /\ FileOpen' /\ NoLineLost'
  BY <1>2 DEF Lock
<1>3. ASSUME NEW w \in Worker, Stat(w) PROVE Held' /\ FileOpen' /\ NoLineLost'
  BY <1>3 DEF Stat
<1>4. ASSUME NEW w \in Worker, Close(w) PROVE Held' /\ FileOpen' /\ NoLineLost'
  BY <1>4 DEF Close
<1>5. ASSUME NEW w \in Worker, Rename(w) PROVE Held' /\ FileOpen' /\ NoLineLost'
  BY <1>5 DEF Rename
<1>6. ASSUME NEW w \in Worker, RenameFails(w) PROVE Held' /\ FileOpen' /\ NoLineLost'
  BY <1>6, <1>b DEF RenameFails
<1>7. ASSUME NEW w \in Worker, Reopen(w) PROVE Held' /\ FileOpen' /\ NoLineLost'
  BY <1>7, <1>a DEF Reopen
<1>8. ASSUME NEW w \in Worker, ReopenFails(w) PROVE Held' /\ FileOpen' /\ NoLineLost'
  BY <1>8, <1>b DEF ReopenFails
<1>9. ASSUME NEW w \in Worker, Open(w) PROVE Held' /\ FileOpen' /\ NoLineLost'
  BY <1>9, <1>a DEF Open
<1>10. ASSUME NEW w \in Worker, OpenFails(w) PROVE Held' /\ FileOpen' /\ NoLineLost'
  BY <1>10, <1>b DEF OpenFails
<1>11. ASSUME NEW w \in Worker, Write(w) PROVE Held' /\ FileOpen' /\ NoLineLost'
  <2>1. up /\ mu = w /\ \A v \in Worker \ {w} : pc[v] \in {"idle", "lock"}
    BY <1>11 DEF Write
  <2>2. ~ Rotating
    BY <1>11, <2>1 DEF Write
  <2>3. faults = 0 => file # 0
    BY <2>1, <2>2
  <2> QED BY <1>11, <2>1, <2>2, <2>3 DEF Write, Release
<1>12. CASE Stop
  BY <1>12 DEF Stop
<1>13. CASE Start
  BY <1>13, <1>a DEF Start
<1>14. CASE RotInit
  BY <1>14 DEF RotInit
<1>15. CASE RotRename
  BY <1>15 DEF RotRename
<1>16. CASE RotRenameFails
  BY <1>16, <1>b DEF RotRenameFails
<1>17. CASE RotOpen
  BY <1>17 DEF RotOpen
<1>18. CASE RotOpenFails
  BY <1>18, <1>b DEF RotOpenFails
<1>19. CASE UNCHANGED vars
  BY <1>19 DEF vars
<1> QED
  BY <1>1, <1>2, <1>3, <1>4, <1>5, <1>6, <1>7, <1>8, <1>9, <1>10, <1>11, <1>12, <1>13,
     <1>14, <1>15, <1>16, <1>17, <1>18, <1>19 DEF Next, Step, RotStep, Quiet

\* The disk.
LEMMA OrderStep == TypeOK /\ Placed /\ InOrder /\ [Next]_vars => Placed' /\ InOrder'
<1> SUFFICES ASSUME TypeOK, Placed, InOrder, [Next]_vars PROVE Placed' /\ InOrder'
  OBVIOUS
<1> USE DEF disk, logger, goroutines, counters
<1>1. ASSUME NEW w \in Worker, Rename(w) PROVE Placed' /\ InOrder'
  BY <1>1, RenamePlaced DEF Rename
<1>2. ASSUME NEW w \in Worker, Reopen(w) \/ Open(w) PROVE Placed' /\ InOrder'
  BY <1>2, OpenPlaced DEF Reopen, Open
<1>3. ASSUME NEW w \in Worker, Write(w) PROVE Placed' /\ InOrder'
  <2>1. CASE file # 0 /\ Put(file, NewLine(w))
    <3>1. NewLine(w) \in Line /\ NewLine(w).no = lines + 1
      BY DEF TypeOK, NewLine, Line
    <3>2. lines' = lines + 1 /\ UNCHANGED <<dir, file>>
      BY <1>3 DEF Write
    <3> QED BY <2>1, <3>1, <3>2, PutPlaced
  <2>2. CASE UNCHANGED files
    <3>1. /\ OnDisk' = OnDisk /\ Content("log")' = Content("log")
          /\ dir' = dir /\ file' = file /\ lines' = lines + 1
      BY <1>3, <2>2 DEF Write, OnDisk, Content
    <3>2. OnDisk \in Seq(Line) /\ lines \in Nat
      BY ContentType DEF OnDisk, Name, TypeOK
    <3>3. ASSUME NEW i \in 1..Len(OnDisk)
          PROVE  OnDisk[i].no <= lines + 1
      <4>1. OnDisk[i] \in Line /\ OnDisk[i].no <= lines
        BY <3>2 DEF Placed
      <4> QED BY <3>2, <4>1 DEF Line
    <3> QED BY <3>1, <3>3 DEF Placed, InOrder
  <2> QED BY <1>3, <2>1, <2>2 DEF Write
<1>4. CASE Stop
  <2>1. /\ OnDisk' = OnDisk /\ Content("log")' = Content("log")
        /\ dir' = dir /\ file' = 0 /\ lines' = lines
    BY <1>4 DEF Stop, OnDisk, Content
  <2> QED BY <2>1 DEF Placed, InOrder
<1>5. ASSUME NEW w \in Worker, Close(w) PROVE Placed' /\ InOrder'
  <2>1. /\ OnDisk' = OnDisk /\ Content("log")' = Content("log")
        /\ dir' = dir /\ file' = 0 /\ lines' = lines
    BY <1>5 DEF Close, OnDisk, Content
  <2> QED BY <2>1 DEF Placed, InOrder
<1>6. CASE Start
  BY <1>6, OpenPlaced DEF Start
<1>7. CASE RotInit
  BY <1>7, OpenPlaced DEF RotInit
<1>8. CASE RotRename
  BY <1>8, RenamePlaced DEF RotRename
<1>9. CASE RotOpen
  BY <1>9, OpenPlaced DEF RotOpen
<1>10. ASSUME NEW w \in Worker, Lock(w) \/ Stat(w) \/ RenameFails(w) \/ ReopenFails(w) \/ OpenFails(w)
       PROVE  Placed' /\ InOrder'
  <2>1. UNCHANGED <<disk, file, lines>>
    BY <1>10 DEF Lock, Stat, RenameFails, ReopenFails, OpenFails, Fault
  <2> QED BY <2>1, DiskSame
<1>11. ASSUME \/ \E w \in Worker, k \in {"Log", "LogAuth"} : Call(w, k)
              \/ RotRenameFails \/ RotOpenFails \/ UNCHANGED vars
       PROVE  Placed' /\ InOrder'
  <2>1. UNCHANGED <<disk, file, lines>>
    BY <1>11 DEF Call, RotRenameFails, RotOpenFails, Fault, vars
  <2> QED BY <2>1, DiskSame
<1> QED
  BY <1>1, <1>2, <1>3, <1>4, <1>5, <1>6, <1>7, <1>8, <1>9, <1>10, <1>11
     DEF Next, Step, RotStep, Quiet

-----------------------------------------------------------------------------
(* While only the server rotates and nothing fails.                        *)

Calm == rotates = 0 /\ faults = 0

\* The server writes to the file that ErrorLog names. A file is renamed only
\* when it is longer than MaxLogSize, and Log puts its line into one that is not.
Tame ==
  /\ rot = "off"
  /\ file # 0 => file = dir.log
  /\ \A w \in Worker :
       /\ pc[w] # "reopen"
       /\ pc[w] \in {"close", "rename"} => Len(Content("log")) > MaxLogSize
       /\ pc[w] \in {"rename", "open"} => file = 0
       /\ pc[w] = "open" => dir.log = 0
       /\ pc[w] = "put" /\ MaxLogSize > 0 => Len(Content("log")) <= MaxLogSize
       /\ pc[w] = "write" => kind[w] = "LogAuth"

\* RecentKept and SizeBounded, in a calm state.
LastLines(s) ==
  /\ s # << >> => s[Len(s)].no = lines
  /\ \A i \in 1..Len(s) - 1 : s[i + 1].no = s[i].no + 1
  /\ Len(s) >= IF lines < MaxLogSize + 1 THEN lines ELSE MaxLogSize + 1

LogLines(s) == {i \in 1..Len(s) : s[i].kind = "Log"}

Bounded == MaxLogSize > 0 =>
  \A name \in Name : Cardinality(LogLines(Content(name))) <= MaxLogSize + 1

CalmInv == Calm => Tame /\ LastLines(OnDisk) /\ Bounded

IInv == TypeOK /\ Held /\ FileOpen /\ NoLineLost /\ Placed /\ InOrder /\ CalmInv

\* No file has more lines of Log than lines.
LEMMA LogLinesFinite ==
  ASSUME NEW s \in Seq(Line)
  PROVE  /\ IsFiniteSet(LogLines(s))
         /\ Cardinality(LogLines(s)) \in Nat /\ Cardinality(LogLines(s)) <= Len(s)
<1>1. IsFiniteSet(1..Len(s)) /\ Cardinality(1..Len(s)) = Len(s)
  <2>1. Len(s) \in Nat
    OBVIOUS
  <2> QED BY SMTT(30), <2>1, FS_Interval
<1>2. LogLines(s) \subseteq 1..Len(s)
  BY DEF LogLines
<1> QED BY <1>1, <1>2, FS_Subset, FS_CardinalityType

\* One more line is one more line of Log, or none.
LEMMA LogLinesAppend ==
  ASSUME NEW s \in Seq(Line), NEW l \in Line
  PROVE  /\ Cardinality(LogLines(Append(s, l))) <= Cardinality(LogLines(s)) + 1
         /\ l.kind # "Log" => LogLines(Append(s, l)) = LogLines(s)
<1>1. /\ Len(Append(s, l)) = Len(s) + 1 /\ Append(s, l)[Len(s) + 1] = l
      /\ \A i \in 1..Len(s) : Append(s, l)[i] = s[i]
  OBVIOUS
<1>2. LogLines(Append(s, l))
        = IF l.kind = "Log" THEN LogLines(s) \cup {Len(s) + 1} ELSE LogLines(s)
  BY <1>1 DEF LogLines
<1>3. /\ IsFiniteSet(LogLines(s)) /\ Cardinality(LogLines(s)) \in Nat
      /\ Len(s) + 1 \notin LogLines(s)
  BY LogLinesFinite DEF LogLines
<1>4. Cardinality(LogLines(s) \cup {Len(s) + 1}) = Cardinality(LogLines(s)) + 1
  BY <1>3, FS_AddElement
<1> QED BY <1>2, <1>3, <1>4

\* The next line continues the last ones.
LEMMA LastLinesAppend ==
  ASSUME NEW s \in Seq(Line), NEW l \in Line, lines \in Nat, l.no = lines + 1,
         LastLines(s), lines' = lines + 1
  PROVE  /\ Append(s, l) # << >> => Append(s, l)[Len(Append(s, l))].no = lines'
         /\ \A i \in 1..Len(Append(s, l)) - 1 :
              Append(s, l)[i + 1].no = Append(s, l)[i].no + 1
         /\ Len(Append(s, l)) >= IF lines' < MaxLogSize + 1 THEN lines' ELSE MaxLogSize + 1
<1>1. /\ Len(Append(s, l)) = Len(s) + 1 /\ Append(s, l)[Len(s) + 1] = l
      /\ Len(s) \in Nat
      /\ \A i \in 1..Len(s) : Append(s, l)[i] = s[i]
  OBVIOUS
<1>2. ASSUME NEW i \in 1..Len(s)
      PROVE  Append(s, l)[i + 1].no = Append(s, l)[i].no + 1
  <2>1. CASE i = Len(s)
    BY <1>1, <2>1 DEF LastLines
  <2>2. CASE i < Len(s)
    BY <1>1, <2>2 DEF LastLines
  <2> QED BY <2>1, <2>2
<1>3. Len(s) + 1 >= IF lines' < MaxLogSize + 1 THEN lines' ELSE MaxLogSize + 1
  BY <1>1, LoggingAssumption DEF LastLines
<1> QED BY <1>1, <1>2, <1>3

\* What is left of the disk after a rotation is its second part.
LEMMA LastLinesSuffix ==
  ASSUME NEW s \in Seq(Line), NEW t \in Seq(Line), LastLines(s \o t),
         Len(t) > MaxLogSize, lines \in Nat
  PROVE  LastLines(t)
<1>1. /\ \A i \in 1..Len(t) : t[i] = (s \o t)[Len(s) + i]
      /\ Len(s \o t) = Len(s) + Len(t) /\ Len(s) \in Nat /\ Len(t) \in Nat
      /\ MaxLogSize \in Nat
  BY LoggingAssumption
<1>2. t[Len(t)].no = lines
  BY <1>1 DEF LastLines
<1>3. ASSUME NEW i \in 1..Len(t) - 1
      PROVE  t[i + 1].no = t[i].no + 1
  <2>1. Len(s) + i \in 1..Len(s \o t) - 1 /\ Len(s) + (i + 1) = (Len(s) + i) + 1
    BY <1>1
  <2>2. (s \o t)[(Len(s) + i) + 1].no = (s \o t)[Len(s) + i].no + 1
    BY <2>1 DEF LastLines
  <2> QED BY <1>1, <2>1, <2>2
<1> QED BY <1>1, <1>2, <1>3 DEF LastLines

\* Steps that leave the lines of both names as they are.
LEMMA ContentSame ==
  ASSUME LastLines(OnDisk), Bounded, lines' = lines,
         Content("log")' = Content("log"), Content("old")' = Content("old")
  PROVE  LastLines(OnDisk)' /\ Bounded'
<1>1. OnDisk' = OnDisk
  BY DEF OnDisk
<1> QED BY <1>1 DEF LastLines, Bounded, Name

\* A rotation keeps the last lines, because it was the log that was too long.
LEMMA RenameCalm ==
  ASSUME TypeOK, LastLines(OnDisk), Bounded, RenameLog, lines' = lines,
         Len(Content("log")) > MaxLogSize
  PROVE  LastLines(OnDisk)' /\ Bounded'
<1>1. Content("log") \in Seq(Line) /\ Content("old") \in Seq(Line) /\ lines \in Nat
  BY ContentType DEF Name, TypeOK
<1>2. OnDisk' = Content("log")
  BY <1>1, RenameMoves DEF OnDisk
<1>3. LastLines(Content("log"))
  BY <1>1, LastLinesSuffix DEF OnDisk
<1>4. Cardinality(LogLines(<< >>)) = 0
  <2>1. LogLines(<< >>) = {}
    BY DEF LogLines
  <2> QED BY <2>1, FS_EmptySet
<1>5. ASSUME MaxLogSize > 0, NEW name \in Name
      PROVE  Cardinality(LogLines(Content(name)')) <= MaxLogSize + 1
  <2>1. CASE name = "log"
    <3>1. Content(name)' = << >>
      BY <2>1, RenameMoves
    <3> QED BY <1>4, <3>1, LoggingAssumption
  <2>2. CASE name = "old"
    <3>1. Content(name)' = Content("log")
      BY <2>2, RenameMoves
    <3> QED BY <1>5, <3>1 DEF Bounded, Name
  <2> QED BY <2>1, <2>2 DEF Name
<1> QED BY <1>2, <1>3, <1>5 DEF LastLines, Bounded, LogLines

\* A line goes to the end of the log, which is short enough if it is one of Log.
LEMMA PutCalm ==
  ASSUME TypeOK, Placed, LastLines(OnDisk), Bounded, NEW l \in Line, l.no = lines + 1,
         lines' = lines + 1, file # 0, file = dir.log, Put(file, l), UNCHANGED dir,
         MaxLogSize > 0 /\ l.kind = "Log" => Len(Content("log")) <= MaxLogSize
  PROVE  LastLines(OnDisk)' /\ Bounded'
<1>1. /\ files \in Seq(Seq(Line)) /\ file \in 1..Len(files) /\ lines \in Nat
      /\ dir.old \in 0..Len(files) /\ file # dir.old
      /\ Content("log") \in Seq(Line) /\ Content("old") \in Seq(Line)
  BY ContentType DEF TypeOK, Name, Placed
<1>2. /\ files'[file] = Append(files[file], l)
      /\ \A f \in 1..Len(files) : f # file => files'[f] = files[f]
  BY <1>1 DEF Put
<1>3. Content("log")' = Append(Content("log"), l) /\ Content("old")' = Content("old")
  BY SMTT(30), <1>1, <1>2 DEF Content
<1>4. OnDisk' = Append(OnDisk, l) /\ OnDisk \in Seq(Line)
  <2>1. OnDisk' = Content("old") \o Append(Content("log"), l)
    BY <1>3 DEF OnDisk
  <2>2. OnDisk = Content("old") \o Content("log") /\ OnDisk \in Seq(Line)
    BY <1>1 DEF OnDisk
  <2> QED BY <1>1, <2>1, <2>2, AppendConcat
<1>5. LastLines(OnDisk)'
  BY <1>1, <1>4, LastLinesAppend DEF LastLines
<1>6. ASSUME MaxLogSize > 0
      PROVE  Cardinality(LogLines(Append(Content("log"), l))) <= MaxLogSize + 1
  <2>1. CASE l.kind = "Log"
    <3>1. Cardinality(LogLines(Content("log"))) <= MaxLogSize
      BY <1>1, <1>6, <2>1, LogLinesFinite, LoggingAssumption
    <3>2. Append(Content("log"), l) \in Seq(Line)
      BY <1>1
    <3>3. /\ Cardinality(LogLines(Append(Content("log"), l)))
               <= Cardinality(LogLines(Content("log"))) + 1
          /\ Cardinality(LogLines(Append(Content("log"), l))) \in Nat
          /\ Cardinality(LogLines(Content("log"))) \in Nat
      BY <1>1, <3>2, LogLinesAppend, LogLinesFinite
    <3> QED BY <3>1, <3>3, LoggingAssumption
  <2>2. CASE l.kind # "Log"
    BY <1>1, <1>6, <2>2, LogLinesAppend DEF Bounded, Name
  <2> QED BY <2>1, <2>2
<1> QED BY <1>3, <1>5, <1>6 DEF Bounded, Name

\* A step after which it is calm was neither a failure nor the rotate command.
LEMMA CalmBefore ==
  ASSUME TypeOK, [Next]_vars, Calm'
  PROVE  Calm /\ ~ Fault /\ ~ RotInit
<1>0. rotates \in Nat /\ faults \in Nat
  BY LoggingAssumption DEF TypeOK
<1>1. ~ Fault
  BY <1>0 DEF Calm, Fault
<1>2. ~ RotInit
  BY <1>0 DEF Calm, RotInit
<1> USE <1>1, <1>2 DEF Calm, counters
<1>3. ASSUME NEW w \in Worker, NEW k \in {"Log", "LogAuth"}, Call(w, k) PROVE Calm
  BY <1>3 DEF Call
<1>4. ASSUME NEW w \in Worker, Step(w) PROVE Calm
  BY <1>4 DEF Step, Lock, Stat, Close, Rename, RenameFails, Reopen, ReopenFails, Open,
              OpenFails, Write
<1>5. CASE Stop \/ Start
  BY <1>5 DEF Stop, Start
<1>6. CASE RotStep
  BY <1>6 DEF RotStep, RotRename, RotRenameFails, RotOpen, RotOpenFails
<1>7. CASE UNCHANGED vars
  BY <1>7 DEF vars
<1> QED BY <1>1, <1>2, <1>3, <1>4, <1>5, <1>6, <1>7 DEF Next, Quiet

\* Who has the mutex is alone in Log and LogAuth, and has an open file outside a
\* rotation.
LEMMA AloneInside ==
  ASSUME TypeOK, Held, FileOpen, Calm, NEW w \in Worker, pc[w] \notin {"idle", "lock"}
  PROVE  /\ up /\ mu = w
         /\ \A v \in Worker : v # w => pc[v] \in {"idle", "lock"}
         /\ pc[w] \notin {"rename", "reopen", "open"} => file # 0
<1>1. up /\ mu = w
  BY DEF Held
<1>2. \A v \in Worker : v # w => pc[v] \in {"idle", "lock"}
  BY <1>1 DEF Held
<1> QED BY <1>1, <1>2 DEF FileOpen, Rotating, Calm

\* The steps of Log and LogAuth, one after the other.
LEMMA StepCalm ==
  ASSUME TypeOK, Held, FileOpen, Placed, Calm, ~ Fault,
         Tame, LastLines(OnDisk), Bounded, NEW w \in Worker, Step(w)
  PROVE  Tame' /\ LastLines(OnDisk)' /\ Bounded'
<1>0. /\ pc \in [Worker -> Label] /\ kind \in [Worker -> {"Log", "LogAuth"}]
      /\ None \notin Worker /\ MaxLogSize \in Nat /\ lines \in Nat
      /\ Content("log") \in Seq(Line) /\ Len(Content("log")) \in Nat
  BY LoggingAssumption, ContentType DEF TypeOK, Name
<1> USE <1>0 DEF Goto, disk, logger, goroutines, counters
<1>1. CASE Lock(w)
  <2>1. up /\ ~ Rotating
    BY <1>1 DEF Lock, Held, Rotating
  <2>2. file # 0
    BY <2>1 DEF FileOpen, Calm
  <2>3. /\ UNCHANGED <<files, dir, file, rot, kind, lines>>
        /\ pc' = [pc EXCEPT ![w] = pc'[w]]
        /\ pc'[w] \in {"write", "stat", "put"}
        /\ pc'[w] = "write" => kind[w] = "LogAuth"
        /\ pc'[w] = "put" => MaxLogSize = 0
    BY <1>1, <2>2 DEF Lock
  <2>4. UNCHANGED Content("log") /\ UNCHANGED Content("old")
    BY <2>3 DEF Content
  <2>5. Tame'
    BY <2>2, <2>3, <2>4 DEF Tame
  <2> QED BY <2>3, <2>4, <2>5, ContentSame
<1>2. CASE Stat(w)
  <2>1. /\ UNCHANGED <<files, dir, file, rot, kind, lines>>
        /\ pc' = [pc EXCEPT ![w] = IF TooLong THEN "close" ELSE "put"]
    BY <1>2 DEF Stat
  <2>2. UNCHANGED Content("log") /\ UNCHANGED Content("old")
    BY <2>1 DEF Content
  <2>3. TooLong <=> Len(Content("log")) > MaxLogSize
    BY DEF TooLong, Content
  <2>4. Tame'
    BY <2>1, <2>2, <2>3 DEF Tame
  <2> QED BY <2>1, <2>2, <2>4, ContentSame
<1>3. CASE Close(w)
  <2>1. /\ UNCHANGED <<files, dir, rot, kind, lines>> /\ file' = 0
        /\ pc[w] = "close" /\ pc' = [pc EXCEPT ![w] = "rename"]
    BY <1>3 DEF Close
  <2>2. UNCHANGED Content("log") /\ UNCHANGED Content("old")
    BY <2>1 DEF Content
  <2>3. Tame'
    BY <2>1, <2>2 DEF Tame
  <2> QED BY <2>1, <2>2, <2>3, ContentSame
<1>4. CASE Rename(w)
  <2>1. /\ RenameLog /\ UNCHANGED <<file, rot, kind, lines>>
        /\ pc[w] = "rename" /\ pc' = [pc EXCEPT ![w] = "open"]
    BY <1>4 DEF Rename
  <2>2. file = 0 /\ Len(Content("log")) > MaxLogSize
    BY <2>1 DEF Tame
  <2>3. dir'.log = 0 /\ \A v \in Worker : v # w => pc[v] \in {"idle", "lock"}
    BY <2>1, RenameMoves, AloneInside
  <2>4. Tame'
    BY <2>1, <2>2, <2>3 DEF Tame
  <2> QED BY <2>1, <2>2, <2>4, RenameCalm
<1>5. ~ RenameFails(w)
  BY DEF RenameFails, Tame, Content
<1>6. ~ Reopen(w) /\ ~ ReopenFails(w) /\ ~ OpenFails(w)
  BY DEF Reopen, ReopenFails, OpenFails, Tame
<1>7. CASE Open(w)
  <2>1. /\ OpenLog /\ file' = Opened /\ UNCHANGED <<rot, kind, lines>>
        /\ pc[w] = "open" /\ pc' = [pc EXCEPT ![w] = "put"]
    BY <1>7 DEF Open
  <2>2. /\ Content("log")' = Content("log") /\ Content("old")' = Content("old")
        /\ dir'.log = Opened
    BY <2>1, OpenKeeps
  <2>3. Content("log") = << >>
    BY <2>1 DEF Tame, Content
  <2>4. \A v \in Worker : v # w => pc[v] \in {"idle", "lock"}
    BY <2>1, AloneInside
  <2>5. Tame'
    BY <2>1, <2>2, <2>3, <2>4 DEF Tame
  <2> QED BY <2>1, <2>2, <2>5, ContentSame
<1>8. CASE Write(w)
  <2>1. /\ file # 0 /\ pc[w] \in {"put", "write"}
        /\ \A v \in Worker : v # w => pc[v] \in {"idle", "lock"}
    BY <1>8, AloneInside DEF Write
  <2>2. /\ Put(file, NewLine(w)) /\ UNCHANGED <<dir, file, rot, kind>>
        /\ lines' = lines + 1 /\ pc' = [pc EXCEPT ![w] = "idle"]
    BY <1>8, <2>1 DEF Write
  <2>3. /\ NewLine(w) \in Line /\ NewLine(w).no = lines + 1
        /\ NewLine(w).kind = kind[w]
    BY DEF NewLine, Line
  <2>4. kind[w] = "Log" /\ MaxLogSize > 0 => Len(Content("log")) <= MaxLogSize
    BY <2>1 DEF Tame
  <2>5. file = dir.log
    BY <2>1 DEF Tame
  <2>6. Tame'
    BY <2>1, <2>2, <2>5 DEF Tame
  <2> QED BY <2>1, <2>2, <2>3, <2>4, <2>5, <2>6, PutCalm
<1> QED BY <1>1, <1>2, <1>3, <1>4, <1>5, <1>6, <1>7, <1>8 DEF Step

\* All steps.
LEMMA CalmStep == TypeOK /\ Held /\ FileOpen /\ Placed /\ CalmInv /\ [Next]_vars => CalmInv'
<1> SUFFICES ASSUME TypeOK, Held, FileOpen, Placed, CalmInv, [Next]_vars, Calm'
             PROVE  Tame' /\ LastLines(OnDisk)' /\ Bounded'
  BY DEF CalmInv
<1>1. Calm /\ ~ Fault /\ ~ RotInit
  BY CalmBefore
<1>2. Tame /\ LastLines(OnDisk) /\ Bounded
  BY <1>1 DEF CalmInv
<1>3. ASSUME NEW w \in Worker, Step(w) PROVE Tame' /\ LastLines(OnDisk)' /\ Bounded'
  BY <1>1, <1>2, <1>3, StepCalm
<1>4. ASSUME NEW w \in Worker, NEW k \in {"Log", "LogAuth"}, Call(w, k)
      PROVE  Tame' /\ LastLines(OnDisk)' /\ Bounded'
  <2>1. /\ UNCHANGED <<files, dir, file, rot, lines>>
        /\ pc' = [pc EXCEPT ![w] = "lock"] /\ kind' = [kind EXCEPT ![w] = k]
    BY <1>4 DEF Call, Goto, disk, logger, counters
  <2>2. UNCHANGED Content("log") /\ UNCHANGED Content("old")
    BY <2>1 DEF Content
  <2>3. Tame'
    BY <1>2, <2>1, <2>2 DEF Tame, TypeOK
  <2> QED BY <1>2, <2>1, <2>2, <2>3, ContentSame
<1>5. CASE Stop
  <2>1. /\ UNCHANGED <<files, dir, rot, lines>> /\ file' = 0
        /\ pc' = [w \in Worker |-> "idle"]
    BY <1>5 DEF Stop, disk
  <2>2. UNCHANGED Content("log") /\ UNCHANGED Content("old")
    BY <2>1 DEF Content
  <2>3. Tame'
    BY <1>2, <2>1 DEF Tame
  <2> QED BY <1>2, <2>1, <2>2, <2>3, ContentSame
<1>6. CASE Start
  <2>1. /\ OpenLog /\ file' = Opened /\ UNCHANGED <<rot, lines, pc>>
        /\ \A w \in Worker : pc[w] = "idle"
    BY <1>6 DEF Start, goroutines, counters, Held
  <2>2. /\ Content("log")' = Content("log") /\ Content("old")' = Content("old")
        /\ dir'.log = Opened
    BY <2>1, OpenKeeps
  <2>3. Tame'
    BY <1>2, <2>1, <2>2 DEF Tame
  <2> QED BY <1>2, <2>1, <2>2, <2>3, ContentSame
<1>7. ~ RotStep
  BY <1>2 DEF Tame, RotStep, RotRename, RotRenameFails, RotOpen, RotOpenFails
<1>8. CASE UNCHANGED vars
  <2>1. UNCHANGED <<files, dir, file, rot, lines, pc, kind>>
    BY <1>8 DEF vars, disk, logger, goroutines, counters
  <2>2. UNCHANGED Content("log") /\ UNCHANGED Content("old")
    BY <2>1 DEF Content
  <2>3. Tame'
    BY <1>2, <2>1, <2>2 DEF Tame
  <2> QED BY <1>2, <2>1, <2>2, <2>3, ContentSame
<1> QED BY <1>1, <1>3, <1>4, <1>5, <1>6, <1>7, <1>8 DEF Next, Quiet

-----------------------------------------------------------------------------

LEMMA InitIInv == Init => IInv
<1> SUFFICES ASSUME Init PROVE IInv
  OBVIOUS
<1>1. TypeOK
  BY LoggingAssumption DEF Init, TypeOK, Name, Label, Line
<1>2. Held /\ FileOpen /\ NoLineLost
  BY DEF Init, Held, FileOpen, NoLineLost
<1>3. Content("log") = << >> /\ Content("old") = << >>
  BY DEF Init, Content
<1>4. OnDisk = << >>
  BY <1>3 DEF OnDisk
<1>5. Placed /\ InOrder
  BY <1>3, <1>4 DEF Init, Placed, InOrder
<1>6. LastLines(OnDisk)
  BY <1>4, LoggingAssumption DEF Init, LastLines
<1>7. Cardinality(LogLines(<< >>)) = 0
  <2>1. LogLines(<< >>) = {}
    BY DEF LogLines
  <2> QED BY <2>1, FS_EmptySet
<1>8. Bounded
  BY <1>3, <1>7, LoggingAssumption DEF Bounded, Name
<1>9. Tame
  BY DEF Init, Tame
<1> QED BY <1>1, <1>2, <1>5, <1>6, <1>8, <1>9 DEF IInv, CalmInv

\* The inductive invariant, for the goroutines and the rotate command of
\* internal/logging/log.go in any interleaving.
THEOREM Inductive == Spec => []IInv
<1>1. IInv /\ [Next]_vars => IInv'
  BY TypeStep, MutexStep, OrderStep, CalmStep DEF IInv
<1> QED BY InitIInv, <1>1, PTL DEF Spec

\* Type correctness of files, names, Logger and goroutines.
THEOREM TypeCorrect == Spec => []TypeOK
<1>1. IInv => TypeOK
  BY DEF IInv
<1> QED BY Inductive, <1>1, PTL

\* ErrorLog.O and ErrorLog, one after the other, are in the order in which the
\* lines were logged, although nothing orders the rotations of the two processes.
THEOREM AlwaysInOrder == Spec => []InOrder
<1>1. IInv => InOrder
  BY DEF IInv
<1> QED BY Inductive, <1>1, PTL

\* As long as no rename and no open fails, every line is written to a file that
\* is open.
THEOREM NothingLost == Spec => []NoLineLost
<1>1. IInv => NoLineLost
  BY DEF IInv
<1> QED BY Inductive, <1>1, PTL

\* While only the server rotates and nothing fails, ErrorLog.O and ErrorLog hold
\* the last lines without a gap, whenever the server is stopped: rotateLocked
\* renames a file only when it alone has enough of them.
THEOREM RecentLinesKept == Spec => []RecentKept
<1>1. IInv => RecentKept
  BY DEF IInv, CalmInv, Calm, LastLines, RecentKept
<1> QED BY Inductive, <1>1, PTL

\* While only the server rotates and nothing fails, neither file outgrows
\* MaxLogSize by more than the line that Log finds room for.
THEOREM SizeStaysBounded == Spec => []SizeBounded
<1>1. IInv => SizeBounded
  BY DEF IInv, CalmInv, Calm, Bounded, LogLines, SizeBounded
<1> QED BY Inductive, <1>1, PTL

=============================================================================
