---------------------------- MODULE AnswerProofs ----------------------------
(***************************************************************************)
(* What comes of a text that was taken as it was meant (SubmissionProofs): *)
(* what SendArticle sends of the file that is written of it, and that the  *)
(* file is of that text; and the answers that POST and the mail gateway    *)
(* give.                                                                   *)
(***************************************************************************)
EXTENDS SubmissionProofs

-----------------------------------------------------------------------------
(* Lines that are cut, and lines that get another dot.                     *)

LEMMA LineChanged ==
  ASSUME NEW l \in Line
  PROVE  /\ Cut(l) \in Line /\ Stuffed(l) \in Line
         /\ Cut(l) = << >> <=> l = << >>
         /\ Unstuffed(Stuffed(l)) = l
         /\ Stuffed(l) # <<Dot>>
<1>1. l \in Seq(Byte) /\ Len(l) \in Nat /\ \A i \in 1..Len(l) : l[i] \in Byte \ {CR, LF}
  BY BytesAreBytes, LenProperties, ElementOfSeq DEF Line
<1>2. MaxSend \in Nat \ {0}
  BY TextAssumption
<1>3. Cut(l) \in Line /\ (Cut(l) = << >> <=> l = << >>)
  <2>1. CASE Len(l) > MaxSend
    <3> DEFINE c == SubSeq(l, 1, MaxSend)
    <3>1. \A i \in 1..MaxSend : l[i] \in Byte \ {CR, LF}
      BY <1>1, <1>2, <2>1
    <3>2. c \in Line /\ Len(c) = MaxSend
      BY <1>1, <1>2, <2>1, <3>1, SubSeqProperties DEF Line
    <3> HIDE DEF c
    <3>3. c # << >> /\ l # << >>
      BY <1>2, <2>1, <3>2
    <3> QED  BY <2>1, <3>2, <3>3 DEF Cut, c
  <2>2. CASE ~ (Len(l) > MaxSend)
    BY <2>2 DEF Cut
  <2> QED  BY <2>1, <2>2
<1>4. CASE StartsWith(l, Dot)
  <2> DEFINE s == <<Dot>> \o l
  <2>1. /\ Dot \in Byte \ {CR, LF} /\ <<Dot>> \in Line /\ Len(<<Dot>>) = 1 /\ <<Dot>>[1] = Dot
    BY DEF Byte, Dot, CR, LF, Line
  <2>2. /\ s \in Line /\ Len(s) = 1 + Len(l) /\ s[1] = Dot
    <3>1. /\ s \in Line /\ Len(s) = 1 + Len(l)
          /\ \A i \in 1..1 + Len(l) : s[i] = IF i <= 1 THEN <<Dot>>[i] ELSE l[i - 1]
      BY <2>1, ConcatProperties DEF Line
    <3> HIDE DEF s
    <3> QED  BY <1>1, <2>1, <3>1
  <2>3. s # << >> /\ Tail(s) = l
    BY <1>1, <2>1, TakeByte
  <2>4. Len(l) > 0
    BY <1>1, <1>4 DEF StartsWith
  <2>5. Stuffed(l) = s
    BY <1>4 DEF Stuffed
  <2> HIDE DEF s
  <2>6. s # <<Dot>>
    <3>1. Len(s) # Len(<<Dot>>)
      BY <1>1, <2>1, <2>2, <2>4
    <3> QED  BY <3>1
  <2>7. Unstuffed(s) = l
    BY <2>2, <2>3 DEF Unstuffed, StartsWith
  <2> QED  BY <1>3, <2>2, <2>5, <2>6, <2>7
<1>5. CASE ~ StartsWith(l, Dot)
  <2>1. Stuffed(l) = l /\ Unstuffed(l) = l
    BY <1>5 DEF Stuffed, Unstuffed
  <2>2. StartsWith(<<Dot>>, Dot)
    BY DEF StartsWith
  <2>3. l # <<Dot>>
    BY <1>5, <2>2
  <2> QED  BY <1>3, <2>1, <2>3
<1> QED  BY <1>4, <1>5

-----------------------------------------------------------------------------
(* The lines that the scanner of SendArticle finds.                        *)

\* As many as there are before an overlong one.
IsScanned(lines, n) ==
  /\ n \in 0..Len(lines)
  /\ \A i \in 1..n : Len(lines[i]) < MaxScan
  /\ n < Len(lines) => Len(lines[n + 1]) >= MaxScan

LEMMA ScannedOnce ==
  ASSUME NEW lines \in Seq(Line), NEW n, NEW m, IsScanned(lines, n), IsScanned(lines, m)
  PROVE  n = m
<1>1. Len(lines) \in Nat /\ MaxScan \in Nat
  BY LenProperties, TextAssumption
<1>2. \A i \in 1..Len(lines) : Len(lines[i]) \in Nat
  <2> TAKE i \in 1..Len(lines)
  <2>1. lines[i] \in Line
    BY ElementOfSeq
  <2> QED  BY <2>1, LenProperties DEF Line
<1>3. ASSUME NEW a, NEW b, IsScanned(lines, a), IsScanned(lines, b)
      PROVE  ~ (a < b)
  <2> SUFFICES ASSUME a < b PROVE FALSE
    OBVIOUS
  <2>1. a + 1 \in 1..b /\ a + 1 \in 1..Len(lines) /\ a < Len(lines)
    BY <1>1, <1>3 DEF IsScanned
  <2>2. Len(lines[a + 1]) < MaxScan /\ Len(lines[a + 1]) >= MaxScan
    BY <1>3, <2>1 DEF IsScanned
  <2> QED  BY <1>1, <1>2, <2>1, <2>2
<1>4. ~ (n < m) /\ ~ (m < n)
  BY <1>3
<1> QED  BY <1>1, <1>4 DEF IsScanned

LEMMA Scanned ==
  ASSUME NEW lines \in Seq(Line)
  PROVE  \E n : IsScanned(lines, n) /\ UpToOverlong(lines) = [i \in 1..n |-> Cut(lines[i])]
<1> DEFINE over == {i \in 1..Len(lines) : Len(lines[i]) >= MaxScan}
           end == IF over = {} THEN Len(lines) ELSE Min(over) - 1
<1>1. Len(lines) \in Nat /\ MaxScan \in Nat
  BY LenProperties, TextAssumption
<1>2. \A i \in 1..Len(lines) : Len(lines[i]) \in Nat
  <2> TAKE i \in 1..Len(lines)
  <2>1. lines[i] \in Line
    BY ElementOfSeq
  <2> QED  BY <2>1, LenProperties DEF Line
<1>3. IsScanned(lines, end)
  <2>1. CASE over = {}
    <3>1. end = Len(lines) /\ \A i \in 1..Len(lines) : ~ (Len(lines[i]) >= MaxScan)
      BY <2>1
    <3> HIDE DEF end
    <3> QED  BY <1>1, <1>2, <3>1 DEF IsScanned
  <2>2. CASE over # {}
    <3>1. over \in SUBSET Nat
      BY <1>1
    <3>2. PICK x \in over : \A y \in over : x <= y
      BY <2>2, <3>1, LeastElement
    <3>3. Min(over) \in over /\ \A y \in over : Min(over) <= y
      BY <3>2 DEF Min
    <3> DEFINE m == Min(over)
    <3>4. m \in 1..Len(lines) /\ Len(lines[m]) >= MaxScan /\ end = m - 1
      BY <2>2, <3>3
    <3>5. \A i \in 1..m - 1 : ~ (Len(lines[i]) >= MaxScan)
      <4> TAKE i \in 1..m - 1
      <4>1. i \notin over
        <5> HIDE DEF over
        <5> QED  BY <1>1, <3>1, <3>3, <3>4
      <4>2. i \in 1..Len(lines)
        BY <1>1, <3>4
      <4> QED  BY <4>1, <4>2
    <3> HIDE DEF end, m, over
    <3>6. m - 1 \in 0..Len(lines) /\ (m - 1) + 1 = m
      BY <1>1, <3>4
    <3>7. \A i \in 1..m - 1 : Len(lines[i]) < MaxScan
      BY <1>1, <1>2, <3>4, <3>5
    <3> QED  BY <3>4, <3>6, <3>7 DEF IsScanned
  <2> QED  BY <2>1, <2>2
<1>4. UpToOverlong(lines) = [i \in 1..end |-> Cut(lines[i])]
  BY DEF UpToOverlong
<1> HIDE DEF end
<1> QED  BY <1>3, <1>4

\* Some lines of a file as they are sent.
Sent(file, from, to) == [k \in 1..to - from + 1 |-> Stuffed(Cut(file[from + k - 1]))]

LEMMA SentTyped ==
  ASSUME NEW file \in Seq(Line), NEW from \in Nat \ {0}, NEW to \in 0..Len(file)
  PROVE  /\ Sent(file, from, to) \in Seq(Line)
         /\ Len(Sent(file, from, to)) = IF to < from THEN 0 ELSE to - from + 1
         /\ to < from => Sent(file, from, to) = << >>
<1> DEFINE n == to - from + 1
           s == Sent(file, from, to)
<1>1. Len(file) \in Nat /\ n \in Int
  BY LenProperties
<1>2. \A k \in 1..n : s[k] \in Line
  <2> TAKE k \in 1..n
  <2>1. from + k - 1 \in 1..Len(file)
    BY <1>1
  <2>2. file[from + k - 1] \in Line
    BY <2>1, ElementOfSeq
  <2>3. Stuffed(Cut(file[from + k - 1])) \in Line
    BY <2>2, LineChanged
  <2> QED  BY <2>3 DEF Sent
<1>3. s = [k \in 1..n |-> s[k]]
  BY DEF Sent
<1> HIDE DEF s
<1>4. CASE to < from
  <2>1. 1..n = {}
    BY <1>1, <1>4
  <2>2. s = [k \in {} |-> s[k]]
    BY <1>3, <2>1
  <2>3. << >> = [k \in {} |-> s[k]]
    OBVIOUS
  <2>4. s = << >>
    BY <2>2, <2>3
  <2> QED  BY <1>4, <2>4 DEF s
<1>5. CASE ~ (to < from)
  <2>1. n \in Nat
    BY <1>1, <1>5
  <2> HIDE DEF n
  <2>2. s \in Seq(Line) /\ Len(s) = n
    <3>1. s \in [1..n -> Line]
      BY <1>2, <1>3
    <3>2. s \in Seq(Line)
      BY <2>1, <3>1, SeqDef
    <3>3. DOMAIN s = 1..n /\ DOMAIN s = 1..Len(s) /\ Len(s) \in Nat
      BY <3>1, <3>2, LenProperties
    <3> QED  BY <2>1, <3>2, <3>3
  <2> QED  BY <1>5, <2>2 DEF s, n
<1> QED  BY <1>4, <1>5

\* One line more.
LEMMA SentNext ==
  ASSUME NEW file \in Seq(Line), NEW from \in Nat \ {0}, NEW to \in 0..Len(file) - 1,
         from <= to + 1
  PROVE  Append(Sent(file, from, to), Stuffed(Cut(file[to + 1]))) = Sent(file, from, to + 1)
<1> DEFINE a == Sent(file, from, to)
           b == Sent(file, from, to + 1)
           l == Stuffed(Cut(file[to + 1]))
           n == to - from + 1
<1>1. Len(file) \in Nat /\ n \in Nat /\ to \in 0..Len(file) /\ to + 1 \in 0..Len(file)
      /\ to + 1 \in 1..Len(file)
  BY LenProperties
<1>2. a \in Seq(Line) /\ Len(a) = n
  <2>1. a \in Seq(Line) /\ Len(a) = IF to < from THEN 0 ELSE to - from + 1
    BY <1>1, SentTyped
  <2> HIDE DEF a
  <2> QED  BY <1>1, <2>1
<1>3. b \in Seq(Line) /\ Len(b) = n + 1
  <2>1. b \in Seq(Line) /\ Len(b) = IF to + 1 < from THEN 0 ELSE (to + 1) - from + 1
    BY <1>1, SentTyped
  <2> HIDE DEF b
  <2> QED  BY <1>1, <2>1
<1>4. l \in Line
  <2>1. file[to + 1] \in Line
    BY <1>1, ElementOfSeq
  <2> QED  BY <2>1, LineChanged
<1>5. \A k \in 1..n : a[k] = b[k]
  BY DEF Sent
<1>6. b[n + 1] = l
  <2>1. n + 1 \in 1..(to + 1) - from + 1 /\ from + (n + 1) - 1 = to + 1
    BY <1>1
  <2> QED  BY <2>1 DEF Sent
<1> HIDE DEF a, b, l
<1>7. /\ Append(a, l) \in Seq(Line) /\ Len(Append(a, l)) = n + 1
      /\ Append(a, l)[n + 1] = l /\ \A k \in 1..n : Append(a, l)[k] = a[k]
  BY <1>2, <1>4, AppendProperties
<1> HIDE DEF n
<1>8. \A k \in 1..Len(b) : Append(a, l)[k] = b[k]
  BY <1>1, <1>3, <1>5, <1>6, <1>7
<1>9. Append(a, l) = b
  BY <1>3, <1>7, <1>8, SeqEqual
<1> QED  BY <1>9 DEF a, b, l

-----------------------------------------------------------------------------
(* The loop of SendArticle.                                                *)

Sender == [mode : {"head", "sep", "body"}, done : BOOLEAN, out : Seq(Line)]

NewSender == [mode |-> "head", done |-> FALSE, out |-> << >>]

Sending(file, sendHead, sendBody) ==
  LET after[i \in 0..Len(file)] ==
        IF i = 0 THEN NewSender ELSE SendLine(after[i - 1], file[i], sendHead, sendBody)
  IN  after

\* The three things that a line does to the loop.
LEMMA SendLineSteps ==
  ASSUME NEW s \in Sender, NEW text \in Line, NEW h \in BOOLEAN, NEW b \in BOOLEAN
  PROVE  /\ SendLine(s, text, h, b) \in Sender
         /\ s.done \/ Len(text) >= MaxScan =>
              SendLine(s, text, h, b) = [mode |-> s.mode, done |-> TRUE, out |-> s.out]
         /\ ~ s.done /\ Len(text) < MaxScan /\ s.mode = "head" /\ text = << >> =>
              SendLine(s, text, h, b) =
                [mode |-> "sep", done |-> ~ b,
                 out  |-> IF h /\ b THEN Append(s.out, << >>) ELSE s.out]
         /\ ~ s.done /\ Len(text) < MaxScan /\ s.mode = "head" /\ text # << >> =>
              SendLine(s, text, h, b) =
                [mode |-> "head", done |-> FALSE,
                 out  |-> IF h THEN Append(s.out, Stuffed(Cut(text))) ELSE s.out]
         /\ ~ s.done /\ Len(text) < MaxScan /\ s.mode # "head" =>
              SendLine(s, text, h, b) =
                [mode |-> "body", done |-> FALSE,
                 out  |-> IF b THEN Append(s.out, Stuffed(Cut(text))) ELSE s.out]
<1> DEFINE t == SendLine(s, text, h, b)
<1>1. /\ Cut(text) \in Line /\ (Cut(text) = << >> <=> text = << >>)
      /\ Stuffed(Cut(text)) \in Line
  BY LineChanged
<1>2. Len(text) \in Nat /\ MaxScan \in Nat /\ s.out \in Seq(Line) /\ << >> \in Line
  BY LenProperties, TextAssumption DEF Line, Sender
<1>3. Append(s.out, << >>) \in Seq(Line) /\ Append(s.out, Stuffed(Cut(text))) \in Seq(Line)
  BY <1>1, <1>2, AppendProperties
<1>4. CASE s.done \/ Len(text) >= MaxScan
  <2>1. t = [s EXCEPT !.done = TRUE]
    BY <1>4 DEF SendLine
  <2>2. t = [mode |-> s.mode, done |-> TRUE, out |-> s.out]
    BY <2>1 DEF Sender
  <2>3. t \in Sender
    BY <2>2 DEF Sender
  <2> QED  BY <1>2, <1>4, <2>2, <2>3
<1>5. CASE ~ s.done /\ Len(text) < MaxScan
  <2>1. ~ (s.done \/ Len(text) >= MaxScan) /\ s.done = FALSE
    BY <1>2, <1>5 DEF Sender
  <2>2. CASE s.mode = "head" /\ text = << >>
    <3>1. t = [mode |-> "sep", done |-> ~ b,
               out  |-> IF h /\ b THEN Append(s.out, << >>) ELSE s.out]
      BY <1>1, <2>1, <2>2 DEF SendLine
    <3>2. t \in Sender
      BY <1>2, <1>3, <3>1 DEF Sender
    <3> QED  BY <2>1, <2>2, <3>1, <3>2
  <2>3. CASE s.mode = "head" /\ text # << >>
    <3>1. t = [s EXCEPT !.mode = "head",
                        !.out = IF h THEN Append(@, Stuffed(Cut(text))) ELSE @]
      BY <1>1, <2>1, <2>3 DEF SendLine
    <3>2. t = [mode |-> "head", done |-> FALSE,
               out  |-> IF h THEN Append(s.out, Stuffed(Cut(text))) ELSE s.out]
      BY <2>1, <3>1 DEF Sender
    <3>3. t \in Sender
      BY <1>2, <1>3, <3>2 DEF Sender
    <3> QED  BY <2>1, <2>3, <3>2, <3>3
  <2>4. CASE s.mode # "head"
    <3>1. s.mode \in {"sep", "body"}
      BY <2>4 DEF Sender
    <3>2. t = [s EXCEPT !.mode = "body",
                        !.out = IF b THEN Append(@, Stuffed(Cut(text))) ELSE @]
      BY <2>1, <3>1 DEF SendLine
    <3>3. t = [mode |-> "body", done |-> FALSE,
               out  |-> IF b THEN Append(s.out, Stuffed(Cut(text))) ELSE s.out]
      BY <2>1, <3>2 DEF Sender
    <3>4. t \in Sender
      BY <1>2, <1>3, <3>3 DEF Sender
    <3> QED  BY <2>1, <2>4, <3>3, <3>4
  <2> QED  BY <2>2, <2>3, <2>4
<1> QED  BY <1>2, <1>4, <1>5

LEMMA SendingStates ==
  ASSUME NEW file \in Seq(Line), NEW h \in BOOLEAN, NEW b \in BOOLEAN
  PROVE  /\ Sending(file, h, b) \in [0..Len(file) -> Sender]
         /\ Sending(file, h, b)[0] = NewSender
         /\ \A i \in 1..Len(file) :
              Sending(file, h, b)[i] = SendLine(Sending(file, h, b)[i - 1], file[i], h, b)
         /\ SendArticle(file, h, b) = Sending(file, h, b)[Len(file)].out
<1> DEFINE step == [x \in Sender \X (1..Len(file)) |-> SendLine(x[1], file[x[2]], h, b)]
           after == Sending(file, h, b)
<1>1. Len(file) \in Nat /\ \A i \in 1..Len(file) : file[i] \in Line
  BY LenProperties, ElementOfSeq
<1>2. ASSUME NEW s \in Sender, NEW i \in 1..Len(file)
      PROVE  SendLine(s, file[i], h, b) \in Sender
  BY <1>1, SendLineSteps
<1>3. step \in [Sender \X (1..Len(file)) -> Sender]
  BY <1>2
<1>4. NewSender \in Sender
  BY DEF NewSender, Sender
<1>5. PICK g : Values(g, Sender, NewSender, Len(file), step)
  <2>1. Steps(Sender, NewSender, Len(file), step)
    BY <1>1, <1>3, <1>4 DEF Steps
  <2> HIDE DEF step
  <2> QED  BY <2>1, ValuesExist
<1>6. \A i \in 1..Len(file) : g[i] = SendLine(g[i - 1], file[i], h, b)
  <2> TAKE i \in 1..Len(file)
  <2>1. \A s \in Sender : step[<<s, i>>] = SendLine(s, file[i], h, b)
    OBVIOUS
  <2> HIDE DEF step
  <2>2. i - 1 \in 0..Len(file)
    BY <1>1
  <2>3. g[i] = step[<<g[i - 1], i>>] /\ g[i - 1] \in Sender
    BY <1>5, <2>2 DEF Values
  <2> QED  BY <2>1, <2>3
<1> HIDE DEF step
<1>7. g = [i \in 0..Len(file) |-> IF i = 0 THEN NewSender ELSE SendLine(g[i - 1], file[i], h, b)]
  BY <1>5, <1>6 DEF Values
<1>8. after = [i \in 0..Len(file) |->
                 IF i = 0 THEN NewSender ELSE SendLine(after[i - 1], file[i], h, b)]
  BY <1>7 DEF Sending
<1>9. SendArticle(file, h, b) = after[Len(file)].out
  BY DEF SendArticle, Sending, NewSender
<1> HIDE DEF after
<1>10. /\ after[0] = NewSender
       /\ \A i \in 1..Len(file) : after[i] = SendLine(after[i - 1], file[i], h, b)
  BY <1>1, <1>8
<1> DEFINE S == {i \in Nat : i <= Len(file) => after[i] \in Sender}
<1>11. S = Nat
  <2>1. 0 \in S
    BY <1>4, <1>10
  <2>2. \A n \in S : n + 1 \in S
    <3> SUFFICES ASSUME NEW n \in S, n + 1 <= Len(file) PROVE after[n + 1] \in Sender
      OBVIOUS
    <3>1. n \in Nat /\ n + 1 \in 1..Len(file) /\ (n + 1) - 1 = n
      BY <1>1
    <3>2. after[n] \in Sender
      BY <3>1
    <3> QED  BY <1>2, <1>10, <3>1, <3>2
  <2> QED  BY <2>1, <2>2, Induction
<1>12. after \in [0..Len(file) -> Sender]
  <2>1. \A i \in 0..Len(file) : i \in S
    BY <1>11
  <2>2. \A i \in 0..Len(file) : after[i] \in Sender
    BY <2>1
  <2> QED  BY <1>8, <2>2
<1> QED  BY <1>9, <1>10, <1>12 DEF after

\* A file whose line p is the first empty one, of which n lines are scanned.
IsFile(file, p, n) ==
  /\ p \in 1..Len(file) /\ file[p] = << >> /\ \A i \in 1..p - 1 : file[i] # << >>
  /\ IsScanned(file, n)

FirstSent(p, h) == IF h THEN 1 ELSE p + 1

LastSent(p, b, n) == IF b \/ n < p THEN n ELSE p - 1

\* What the loop has done after i lines.
Reached(file, p, n, h, b, s, i) ==
  /\ s.done = (i > n \/ (i >= p /\ ~ b))
  /\ ~ s.done => s.mode = IF i < p THEN "head" ELSE IF i = p THEN "sep" ELSE "body"
  /\ s.out = Sent(file, FirstSent(p, h), LastSent(p, b, IF i <= n THEN i ELSE n))

LEMMA ReachedNext ==
  ASSUME NEW file \in Seq(Line), NEW p, NEW n, IsFile(file, p, n),
         NEW h \in BOOLEAN, NEW b \in BOOLEAN,
         NEW s \in Sender, NEW i \in 0..Len(file) - 1, Reached(file, p, n, h, b, s, i)
  PROVE  Reached(file, p, n, h, b, SendLine(s, file[i + 1], h, b), i + 1)
<1> DEFINE text == file[i + 1]
           t == SendLine(s, text, h, b)
<1>1. /\ Len(file) \in Nat /\ p \in 1..Len(file) /\ n \in 0..Len(file) /\ MaxScan \in Nat
      /\ i \in Nat /\ i + 1 \in 1..Len(file)
  BY LenProperties, TextAssumption DEF IsFile, IsScanned
<1>2. text \in Line /\ Len(text) \in Nat
  <2>1. text \in Line
    BY <1>1, ElementOfSeq
  <2> HIDE DEF text
  <2> QED  BY <2>1, LenProperties DEF Line
<1>3. /\ (s.done \/ Len(text) >= MaxScan) =>
           t = [mode |-> s.mode, done |-> TRUE, out |-> s.out]
      /\ (~ s.done /\ Len(text) < MaxScan /\ s.mode = "head" /\ text = << >>) =>
           t = [mode |-> "sep", done |-> ~ b,
                out  |-> IF h /\ b THEN Append(s.out, << >>) ELSE s.out]
      /\ (~ s.done /\ Len(text) < MaxScan /\ s.mode = "head" /\ text # << >>) =>
           t = [mode |-> "head", done |-> FALSE,
                out  |-> IF h THEN Append(s.out, Stuffed(Cut(text))) ELSE s.out]
      /\ (~ s.done /\ Len(text) < MaxScan /\ s.mode # "head") =>
           t = [mode |-> "body", done |-> FALSE,
                out  |-> IF b THEN Append(s.out, Stuffed(Cut(text))) ELSE s.out]
  <2> HIDE DEF text
  <2> QED  BY <1>2, SendLineSteps
<1>4. /\ s.done = (i > n \/ (i >= p /\ ~ b))
      /\ ~ s.done => s.mode = IF i < p THEN "head" ELSE IF i = p THEN "sep" ELSE "body"
      /\ s.out = Sent(file, FirstSent(p, h), LastSent(p, b, IF i <= n THEN i ELSE n))
  BY DEF Reached
<1>5. SUFFICES Reached(file, p, n, h, b, t, i + 1)
  OBVIOUS
<1>6. FirstSent(p, h) \in Nat \ {0}
  BY <1>1 DEF FirstSent
<1>7. text = file[i + 1]
  OBVIOUS
<1> HIDE DEF text, t
<1>8. CASE s.done
  <2>1. t.done = TRUE /\ t.out = s.out
    BY <1>3, <1>8
  <2>2. i > n \/ (i >= p /\ ~ b)
    BY Zenon, <1>4, <1>8
  <2>3. /\ i + 1 > n \/ (i + 1 >= p /\ ~ b)
        /\ LastSent(p, b, IF i <= n THEN i ELSE n) = LastSent(p, b, IF i + 1 <= n THEN i + 1 ELSE n)
    <3>1. CASE i > n
      <4>1. /\ i + 1 > n /\ (IF i <= n THEN i ELSE n) = n
            /\ (IF i + 1 <= n THEN i + 1 ELSE n) = n
        BY <1>1, <3>1
      <4> QED  BY <4>1
    <3>2. CASE i <= n /\ i >= p /\ ~ b
      <4>1. i + 1 >= p /\ (IF i <= n THEN i ELSE n) = i
            /\ ~ (i < p) /\ ~ (i + 1 < p) /\ ~ (n < p)
        BY <1>1, <3>2
      <4>2. ~ ((IF i + 1 <= n THEN i + 1 ELSE n) < p)
        BY <4>1
      <4> QED  BY Zenon, <3>2, <4>1, <4>2 DEF LastSent
    <3> QED  BY <1>1, <2>2, <3>1, <3>2
  <2> QED  BY <1>4, <2>1, <2>2, <2>3 DEF Reached
<1>9. CASE ~ s.done /\ i = n
  <2>1. Len(text) >= MaxScan
    BY <1>1, <1>7, <1>9 DEF IsFile, IsScanned
  <2>2. t.done = TRUE /\ t.out = s.out
    BY <1>3, <2>1
  <2>3. i + 1 > n /\ (IF i <= n THEN i ELSE n) = n /\ (IF i + 1 <= n THEN i + 1 ELSE n) = n
    BY <1>1, <1>9
  <2> QED  BY <1>4, <2>2, <2>3 DEF Reached
<1>10. CASE ~ s.done /\ i # n
  <2>0. ~ (i > n) /\ (i >= p => b)
    BY Zenon, <1>4, <1>10
  <2>1. i < n /\ i + 1 <= n /\ (i >= p => b)
    BY <1>1, <1>10, <2>0
  <2>2. Len(text) < MaxScan
    <3>1. i + 1 \in 1..n
      BY <1>1, <2>1
    <3> QED  BY <1>7, <3>1 DEF IsFile, IsScanned
  <2>3. s.out = Sent(file, FirstSent(p, h), LastSent(p, b, i))
    BY <1>1, <1>4, <2>1
  <2>4. SUFFICES /\ t.done = (i + 1 >= p /\ ~ b)
                 /\ ~ t.done => t.mode = IF i + 1 < p THEN "head"
                                         ELSE IF i + 1 = p THEN "sep" ELSE "body"
                 /\ t.out = Sent(file, FirstSent(p, h), LastSent(p, b, i + 1))
    <3>1. ~ (i + 1 > n) /\ (IF i + 1 <= n THEN i + 1 ELSE n) = i + 1
      BY <1>1, <2>1
    <3> QED  BY <3>1 DEF Reached
  <2>5. CASE i + 1 < p
    <3>1. text # << >>
      BY <1>1, <1>7, <2>5 DEF IsFile
    <3>2. t = [mode |-> "head", done |-> FALSE,
               out  |-> IF h THEN Append(s.out, Stuffed(Cut(text))) ELSE s.out]
      BY <1>1, <1>3, <1>4, <1>10, <2>2, <2>5, <3>1
    <3>3. LastSent(p, b, i) = i /\ LastSent(p, b, i + 1) = i + 1
      BY <1>1, <2>5 DEF LastSent
    <3>4. t.out = Sent(file, FirstSent(p, h), i + 1)
      <4>1. CASE h
        <5>1. FirstSent(p, h) = 1 /\ 1 <= i + 1 /\ 1 \in Nat \ {0}
          BY <1>1, <4>1 DEF FirstSent
        <5>2. Append(Sent(file, 1, i), Stuffed(Cut(file[i + 1]))) = Sent(file, 1, i + 1)
          BY <5>1, SentNext
        <5> QED  BY <1>7, <2>3, <3>2, <3>3, <4>1, <5>1, <5>2
      <4>2. CASE ~ h
        <5>1. FirstSent(p, h) = p + 1 /\ i < p + 1 /\ i + 1 < p + 1
              /\ p + 1 \in Nat \ {0} /\ i \in 0..Len(file) /\ i + 1 \in 0..Len(file)
          BY <1>1, <2>5, <4>2 DEF FirstSent
        <5>2. Sent(file, p + 1, i) = << >> /\ Sent(file, p + 1, i + 1) = << >>
          BY <5>1, SentTyped
        <5> QED  BY <2>3, <3>2, <3>3, <4>2, <5>1, <5>2
      <4> QED  BY <4>1, <4>2
    <3>5. ~ (i + 1 >= p)
      BY <1>1, <2>5
    <3> QED  BY <2>5, <3>2, <3>3, <3>4, <3>5
  <2>6. CASE i + 1 = p
    <3>1. text = << >>
      BY <1>7, <2>6 DEF IsFile
    <3>2. t = [mode |-> "sep", done |-> ~ b,
               out  |-> IF h /\ b THEN Append(s.out, << >>) ELSE s.out]
      BY <1>1, <1>3, <1>4, <1>10, <2>2, <2>6, <3>1
    <3>3. LastSent(p, b, i) = i /\ LastSent(p, b, i + 1) = IF b THEN i + 1 ELSE i
      BY <1>1, <2>6 DEF LastSent
    <3>4. t.out = Sent(file, FirstSent(p, h), LastSent(p, b, i + 1))
      <4>1. CASE h /\ b
        <5>1. FirstSent(p, h) = 1 /\ 1 <= i + 1 /\ 1 \in Nat \ {0}
          BY <1>1, <4>1 DEF FirstSent
        <5>2. Append(Sent(file, 1, i), Stuffed(Cut(file[i + 1]))) = Sent(file, 1, i + 1)
          BY <5>1, SentNext
        <5>3. Stuffed(Cut(text)) = << >>
          <6>1. Cut(text) = << >>
            BY <1>2, <3>1, LineChanged
          <6> QED  BY <6>1 DEF Stuffed, StartsWith
        <5> QED  BY <1>7, <2>3, <3>2, <3>3, <4>1, <5>1, <5>2, <5>3
      <4>2. CASE ~ h
        <5>1. FirstSent(p, h) = p + 1 /\ i < p + 1 /\ i + 1 < p + 1
              /\ p + 1 \in Nat \ {0} /\ i \in 0..Len(file) /\ i + 1 \in 0..Len(file)
          BY <1>1, <2>6, <4>2 DEF FirstSent
        <5>2. Sent(file, p + 1, i) = << >> /\ Sent(file, p + 1, i + 1) = << >>
          BY <5>1, SentTyped
        <5> QED  BY <2>3, <3>2, <3>3, <4>2, <5>1, <5>2
      <4>3. CASE h /\ ~ b
        BY <2>3, <3>2, <3>3, <4>3
      <4> QED  BY <4>1, <4>2, <4>3
    <3>5. i + 1 >= p /\ ~ (i + 1 < p)
      BY <1>1, <2>6
    <3> QED  BY <2>6, <3>2, <3>4, <3>5
  <2>7. CASE i + 1 > p
    <3>1. b /\ i >= p /\ s.mode # "head"
      BY <1>1, <1>4, <1>10, <2>1, <2>7
    <3>2. t = [mode |-> "body", done |-> FALSE, out |-> Append(s.out, Stuffed(Cut(text)))]
      BY <1>3, <1>10, <2>2, <3>1
    <3>3. LastSent(p, b, i) = i /\ LastSent(p, b, i + 1) = i + 1
      BY <3>1 DEF LastSent
    <3>4. FirstSent(p, h) <= i + 1
      BY <1>1, <2>7 DEF FirstSent
    <3>5. Append(Sent(file, FirstSent(p, h), i), Stuffed(Cut(file[i + 1]))) = Sent(file, FirstSent(p, h), i + 1)
      BY <1>6, <3>4, SentNext
    <3>6. ~ (i + 1 < p) /\ i + 1 # p
      BY <1>1, <2>7
    <3> QED  BY <1>7, <2>3, <3>1, <3>2, <3>3, <3>5, <3>6
  <2> QED  BY <1>1, <2>5, <2>6, <2>7
<1> QED  BY <1>8, <1>9, <1>10

\* What is sent of a file.
LEMMA ArticleSent ==
  ASSUME NEW file \in Seq(Line), NEW p, NEW n, IsFile(file, p, n),
         NEW h \in BOOLEAN, NEW b \in BOOLEAN
  PROVE  SendArticle(file, h, b) = Sent(file, FirstSent(p, h), LastSent(p, b, n))
<1> DEFINE after == Sending(file, h, b)
           S == {i \in Nat : i <= Len(file) => Reached(file, p, n, h, b, after[i], i)}
<1>1. /\ Len(file) \in Nat /\ p \in 1..Len(file) /\ n \in 0..Len(file)
  BY LenProperties DEF IsFile, IsScanned
<1>2. /\ after \in [0..Len(file) -> Sender]
      /\ after[0] = NewSender
      /\ \A i \in 1..Len(file) : after[i] = SendLine(after[i - 1], file[i], h, b)
      /\ SendArticle(file, h, b) = after[Len(file)].out
  BY SendingStates
<1> HIDE DEF after
<1>3. 0 \in S
  <2>1. FirstSent(p, h) \in Nat \ {0} /\ 0 < FirstSent(p, h) /\ 0 \in 0..Len(file)
    BY <1>1 DEF FirstSent
  <2>2. Sent(file, FirstSent(p, h), 0) = << >>
    BY <2>1, SentTyped
  <2>3. LastSent(p, b, 0) = 0 /\ 0 < p /\ ~ (0 >= p) /\ ~ (0 > n) /\ 0 <= n
    BY <1>1 DEF LastSent
  <2>4. Reached(file, p, n, h, b, NewSender, 0)
    BY <2>2, <2>3 DEF Reached, NewSender
  <2> QED  BY <1>2, <2>4
<1>4. \A i \in S : i + 1 \in S
  <2> SUFFICES ASSUME NEW i \in S, i + 1 <= Len(file)
               PROVE  Reached(file, p, n, h, b, after[i + 1], i + 1)
    OBVIOUS
  <2>1. /\ i \in 0..Len(file) - 1 /\ i + 1 \in 1..Len(file) /\ (i + 1) - 1 = i
        /\ i \in 0..Len(file)
    BY <1>1
  <2>2. Reached(file, p, n, h, b, after[i], i)
    <3>1. i <= Len(file)
      BY <2>1, <1>1
    <3> QED  BY <3>1
  <2>0. after[i] \in Sender
    BY <1>2, <2>1
  <2>3. Reached(file, p, n, h, b, SendLine(after[i], file[i + 1], h, b), i + 1)
    BY <2>0, <2>1, <2>2, ReachedNext
  <2> QED  BY <1>2, <2>1, <2>3
<1>5. S = Nat
  <2>1. S \in SUBSET Nat
    OBVIOUS
  <2> HIDE DEF S
  <2> QED  BY <1>3, <1>4, <2>1, Induction
<1>6. Reached(file, p, n, h, b, after[Len(file)], Len(file))
  BY <1>1, <1>5
<1>7. (IF Len(file) <= n THEN Len(file) ELSE n) = n
  BY <1>1
<1> QED  BY <1>2, <1>6, <1>7 DEF Reached

-----------------------------------------------------------------------------
(* What a client makes of it.                                              *)

LEMMA SentReceived ==
  ASSUME NEW file \in Seq(Line), NEW from \in Nat \ {0}, NEW to \in 0..Len(file)
  PROVE  /\ Received(Sent(file, from, to)) = [k \in 1..to - from + 1 |-> Cut(file[from + k - 1])]
         /\ \A l \in ToSet(Sent(file, from, to)) : l # <<Dot>>
<1> DEFINE s == Sent(file, from, to)
           m == to - from + 1
<1>1. Len(file) \in Nat /\ m \in Int
  BY LenProperties
<1>2. s \in Seq(Line) /\ Len(s) = IF to < from THEN 0 ELSE to - from + 1
  BY SentTyped
<1>3. \A k \in 1..m : Unstuffed(s[k]) = Cut(file[from + k - 1]) /\ s[k] # <<Dot>>
  <2> TAKE k \in 1..m
  <2>1. from + k - 1 \in 1..Len(file)
    BY <1>1
  <2>2. Cut(file[from + k - 1]) \in Line
    <3>1. file[from + k - 1] \in Line
      BY <2>1, ElementOfSeq
    <3> QED  BY <3>1, LineChanged
  <2>3. s[k] = Stuffed(Cut(file[from + k - 1]))
    BY DEF Sent
  <2> HIDE DEF s
  <2> QED  BY <2>2, <2>3, LineChanged
<1> HIDE DEF s
<1>4. 1..Len(s) = 1..m
  BY <1>1, <1>2
<1>5. Received(s) = [k \in 1..m |-> Unstuffed(s[k])]
  BY <1>4 DEF Received
<1>6. Received(s) = [k \in 1..m |-> Cut(file[from + k - 1])]
  BY <1>3, <1>5
<1>7. \A l \in ToSet(s) : l # <<Dot>>
  <2>1. DOMAIN s = 1..m
    BY <1>2, <1>4, LenProperties
  <2> HIDE DEF m
  <2> QED  BY <1>3, <2>1 DEF ToSet
<1> QED  BY <1>6, <1>7 DEF s, m

LEMMA ReceivedTyped ==
  ASSUME NEW s \in Seq(Line)
  PROVE  Received(s) \in Seq(Line) /\ Len(Received(s)) = Len(s)
<1> DEFINE n == Len(s)
           r == Received(s)
<1>1. n \in Nat /\ r = [i \in 1..n |-> Unstuffed(s[i])]
  BY LenProperties DEF Received
<1>2. \A i \in 1..n : Unstuffed(s[i]) \in Line
  <2> TAKE i \in 1..n
  <2>1. s[i] \in Line
    BY ElementOfSeq
  <2>2. s[i] # << >> => Tail(s[i]) \in Line
    BY <2>1, HeadTailProperties DEF Line
  <2> QED  BY <2>1, <2>2 DEF Unstuffed, StartsWith
<1> HIDE DEF n, r
<1>3. r \in [1..n -> Line]
  BY <1>1, <1>2
<1>4. r \in Seq(Line)
  BY <1>1, <1>3, SeqDef
<1>5. DOMAIN r = 1..n /\ DOMAIN r = 1..Len(r) /\ Len(r) \in Nat
  BY <1>3, <1>4, LenProperties
<1>6. Len(r) = n
  BY <1>1, <1>5
<1> QED  BY <1>4, <1>6 DEF r, n

\* The empty line that BODY sends first.
LEMMA AfterBlank ==
  ASSUME NEW s \in Seq(Line)
  PROVE  /\ Received(<< << >> >> \o s) = << << >> >> \o Received(s)
         /\ (\A l \in ToSet(s) : l # <<Dot>>) =>
              \A l \in ToSet(<< << >> >> \o s) : l # <<Dot>>
<1> DEFINE blank == << << >> >>
           n == Len(s)
           r == Received(s)
           whole == blank \o s
           right == blank \o r
           left == Received(whole)
<1>1. blank \in Seq(Line) /\ Len(blank) = 1 /\ blank[1] = << >>
  BY BytesAreBytes
<1>2. n \in Nat /\ r \in Seq(Line) /\ Len(r) = n /\ \A i \in 1..n : r[i] = Unstuffed(s[i])
  BY LenProperties, ReceivedTyped DEF Received
<1> HIDE DEF blank, r
<1>3. /\ whole \in Seq(Line) /\ Len(whole) = n + 1
      /\ \A i \in 1..n + 1 : whole[i] = IF i <= 1 THEN << >> ELSE s[i - 1]
  <2>1. /\ whole \in Seq(Line) /\ Len(whole) = Len(blank) + Len(s)
        /\ \A i \in 1..Len(blank) + Len(s) :
             whole[i] = IF i <= Len(blank) THEN blank[i] ELSE s[i - Len(blank)]
    BY <1>1, ConcatProperties
  <2>2. /\ whole \in Seq(Line) /\ Len(whole) = 1 + n
        /\ \A i \in 1..1 + n : whole[i] = IF i <= 1 THEN blank[i] ELSE s[i - 1]
    BY <1>1, <2>1
  <2> HIDE DEF whole, n
  <2> QED  BY <1>1, <1>2, <2>2
<1> HIDE DEF whole, n
<1>4. /\ right \in Seq(Line) /\ Len(right) = n + 1
      /\ \A i \in 1..n + 1 : right[i] = IF i <= 1 THEN << >> ELSE r[i - 1]
  <2>1. /\ right \in Seq(Line) /\ Len(right) = Len(blank) + Len(r)
        /\ \A i \in 1..Len(blank) + Len(r) :
             right[i] = IF i <= Len(blank) THEN blank[i] ELSE r[i - Len(blank)]
    BY <1>1, <1>2, ConcatProperties
  <2>2. /\ right \in Seq(Line) /\ Len(right) = 1 + n
        /\ \A i \in 1..1 + n : right[i] = IF i <= 1 THEN blank[i] ELSE r[i - 1]
    BY <1>1, <1>2, <2>1
  <2> HIDE DEF right
  <2> QED  BY <1>1, <1>2, <2>2
<1> HIDE DEF right
<1>5. left \in Seq(Line) /\ Len(left) = n + 1 /\ \A i \in 1..n + 1 : left[i] = Unstuffed(whole[i])
  BY <1>3, ReceivedTyped DEF Received
<1>6. Unstuffed(<< >>) = << >>
  BY DEF Unstuffed, StartsWith
<1> HIDE DEF left
<1>7. \A i \in 1..Len(right) : left[i] = right[i]
  <2> TAKE i \in 1..Len(right)
  <2>1. i \in 1..n + 1 /\ (i <= 1 \/ i - 1 \in 1..n)
    BY <1>2, <1>4
  <2> QED  BY <1>2, <1>3, <1>4, <1>5, <1>6, <2>1
<1>8. left = right
  BY <1>4, <1>5, <1>7, SeqEqual
<1>9. ASSUME \A l \in ToSet(s) : l # <<Dot>>, NEW l \in ToSet(whole)
      PROVE  l # <<Dot>>
  <2>1. PICK i \in DOMAIN whole : l = whole[i]
    BY DEF ToSet
  <2>2. i \in 1..n + 1
    BY <1>3, <2>1, LenProperties
  <2>3. CASE i <= 1
    <3>1. l = << >>
      BY <1>3, <2>1, <2>2, <2>3
    <3> QED  BY <3>1
  <2>4. CASE ~ (i <= 1)
    <3>1. i - 1 \in 1..n /\ l = s[i - 1]
      BY <1>2, <1>3, <2>1, <2>2, <2>4
    <3>2. DOMAIN s = 1..n
      BY LenProperties DEF n
    <3>3. l \in ToSet(s)
      BY <3>1, <3>2 DEF ToSet
    <3> QED  BY <1>9, <3>3
  <2> QED  BY <2>3, <2>4
<1> QED  BY <1>8, <1>9 DEF left, right, whole, blank, r, n

\* The headers, an empty line and the body.
LEMMA Parts ==
  ASSUME NEW head \in Seq(Line), NEW body \in Seq(Line)
  PROVE  LET file == head \o << << >> >> \o body
             p == Len(head) + 1 IN
         /\ file \in Seq(Line) /\ Len(file) = p + Len(body)
         /\ \A i \in 1..Len(head) : file[i] = head[i]
         /\ file[p] = << >>
         /\ \A i \in 1..Len(body) : file[p + i] = body[i]
<1> DEFINE blank == << << >> >>
           file == (head \o blank) \o body
           p == Len(head) + 1
<1>1. blank \in Seq(Line) /\ Len(blank) = 1 /\ blank[1] = << >>
  BY BytesAreBytes
<1> HIDE DEF blank
<1>2. Len(head) \in Nat /\ Len(body) \in Nat
  BY LenProperties
<1>3. /\ head \o blank \in Seq(Line) /\ Len(head \o blank) = p
      /\ \A i \in 1..p : (head \o blank)[i] =
           IF i <= Len(head) THEN head[i] ELSE blank[i - Len(head)]
  BY <1>1, ConcatProperties
<1> DEFINE first == head \o blank
<1> HIDE DEF first
<1>4. /\ first \in Seq(Line) /\ Len(first) = p
      /\ \A i \in 1..p : first[i] = IF i <= Len(head) THEN head[i] ELSE blank[i - Len(head)]
  BY <1>3 DEF first
<1>5. /\ first \o body \in Seq(Line) /\ Len(first \o body) = p + Len(body)
      /\ \A i \in 1..p + Len(body) : (first \o body)[i] =
           IF i <= p THEN first[i] ELSE body[i - p]
  <2> HIDE DEF p
  <2> QED  BY <1>4, ConcatProperties
<1> DEFINE whole == first \o body
<1>6. /\ whole \in Seq(Line) /\ Len(whole) = p + Len(body)
      /\ \A i \in 1..p + Len(body) : whole[i] = IF i <= p THEN first[i] ELSE body[i - p]
  BY <1>5
<1> HIDE DEF whole
<1>7. \A i \in 1..Len(head) : whole[i] = head[i]
  <2> TAKE i \in 1..Len(head)
  <2>1. i \in 1..p + Len(body) /\ i <= p /\ i \in 1..p /\ i <= Len(head)
    BY <1>2
  <2> QED  BY <1>4, <1>6, <2>1
<1>8. whole[p] = << >>
  <2>1. p \in 1..p + Len(body) /\ p <= p /\ p \in 1..p /\ ~ (p <= Len(head)) /\ p - Len(head) = 1
    BY <1>2
  <2> QED  BY <1>1, <1>4, <1>6, <2>1
<1>9. \A i \in 1..Len(body) : whole[p + i] = body[i]
  <2> TAKE i \in 1..Len(body)
  <2>1. p + i \in 1..p + Len(body) /\ ~ (p + i <= p) /\ (p + i) - p = i
    BY <1>2
  <2> QED  BY <1>6, <2>1
<1> QED  BY <1>6, <1>7, <1>8, <1>9 DEF whole, first, blank

\* The headers that a text means: lines, none of them empty.
LEMMA MeantHeaders ==
  ASSUME NEW text \in Seq(Line)
  PROVE  /\ Meant(text).headers \in Seq(Line) /\ Meant(text).body \in Seq(Line)
         /\ \A i \in 1..Len(Meant(text).headers) : Meant(text).headers[i] # << >>
<1> DEFINE end == HeadEnd(text)
           headers == SubSeq(text, 1, end - 1)
           body == SubSeq(text, end + 1, Len(text))
<1>1. /\ end \in 1..Len(text) + 1 /\ Len(text) \in Nat
      /\ Meant(text).headers = headers /\ Meant(text).body = body
      /\ \A i \in 1..Len(text) : i < end => text[i] # << >>
  BY HeadEndFirst, LenProperties
<1> HIDE DEF end
<1>2. \A i \in 1..Len(text) : text[i] \in Line
  BY ElementOfSeq
<1>3. headers \in Seq(Line) /\ Len(headers) = end - 1 /\ \A i \in 1..end - 1 : headers[i] = text[i]
  <2>1. \A i \in 1..end - 1 : text[i] \in Line
    BY <1>1, <1>2
  <2> QED  BY <1>1, <2>1, SubSeqProperties
<1>4. body \in Seq(Line)
  <2>1. \A i \in end + 1..Len(text) : text[i] \in Line
    BY <1>1, <1>2
  <2> QED  BY <1>1, <2>1, SubSeqProperties
<1>5. \A i \in 1..Len(headers) : headers[i] # << >>
  <2> TAKE i \in 1..Len(headers)
  <2>1. i \in 1..end - 1 /\ i \in 1..Len(text) /\ i < end
    BY <1>1, <1>3
  <2> QED  BY <1>1, <1>3, <2>1
<1> HIDE DEF headers, body
<1> QED  BY <1>1, <1>3, <1>4, <1>5

\* A file is loaded if its header lines are such that it can.
LEMMA Loaded ==
  ASSUME NEW head \in Seq(Line), NEW body \in Seq(Line),
         \A i \in 1..Len(head) : head[i] # << >>
  PROVE  Loads(head \o << << >> >> \o body) <=> Complete(head)
<1> DEFINE file == head \o << << >> >> \o body
           p == Len(head) + 1
<1>1. /\ file \in Seq(Line) /\ Len(file) = p + Len(body)
      /\ \A i \in 1..Len(head) : file[i] = head[i]
      /\ file[p] = << >>
  BY Parts
<1>2. Len(head) \in Nat /\ Len(body) \in Nat /\ MaxScan \in Nat
  BY LenProperties, TextAssumption
<1>3. \A i \in 1..Len(head) : Len(head[i]) \in Nat
  <2> TAKE i \in 1..Len(head)
  <2>1. head[i] \in Line
    BY ElementOfSeq
  <2> QED  BY <2>1, LenProperties DEF Line
<1> HIDE DEF file
<1>4. HeadLines(file) = {head[i] : i \in 1..Len(head)}
  <2>1. {j \in 1..Len(file) : \A k \in 1..j : file[k] # << >>} = 1..Len(head)
    <3>1. ASSUME NEW j \in 1..Len(file), \A k \in 1..j : file[k] # << >>
          PROVE  j \in 1..Len(head)
      <4>1. p \notin 1..j
        BY <1>1, <3>1
      <4> QED  BY <1>1, <1>2, <4>1
    <3>2. ASSUME NEW j \in 1..Len(head)
          PROVE  j \in 1..Len(file) /\ \A k \in 1..j : file[k] # << >>
      <4>1. j \in 1..Len(file) /\ 1..j \subseteq 1..Len(head)
        BY <1>1, <1>2
      <4> QED  BY <1>1, <4>1
    <3> QED  BY <3>1, <3>2
  <2>2. HeadLines(file) = {file[i] : i \in 1..Len(head)}
    BY <2>1 DEF HeadLines
  <2> QED  BY <1>1, <2>2
<1>5. Loads(file) <=> /\ \A i \in 1..Len(head) : Len(head[i]) < MaxScan /\ ~ StartsWith(head[i], EmptyID)
                      /\ \E i \in 1..Len(head) : StartsWith(head[i], From)
  BY <1>4 DEF Loads
<1> QED  BY <1>5 DEF Complete, HasHeader, file

\* Load and SendArticle (article.go), of any file whose headers have no empty line: it
\* loads if and only if the headers are complete. Then no line of a reply is the end of
\* it to a client, and with the added dots taken away ARTICLE is the file with its lines
\* cut, up to the first of the body that does not fit the scanner; HEAD is its headers,
\* and BODY its body after an empty line.
THEOREM Replies ==
  ASSUME NEW head \in Seq(Line), NEW body \in Seq(Line),
         \A i \in 1..Len(head) : head[i] # << >>
  PROVE  LET file == head \o << << >> >> \o body IN
         /\ Loads(file) <=> Complete(head)
         /\ Complete(head) =>
              /\ \A c \in {"ARTICLE", "HEAD", "BODY"} : \A l \in ToSet(Reply(c, file)) : l # <<Dot>>
              /\ Received(Reply("ARTICLE", file)) = UpToOverlong(file)
              /\ Received(Reply("HEAD", file)) = UpToOverlong(head)
              /\ Received(Reply("BODY", file)) = << << >> >> \o UpToOverlong(body)
<1> DEFINE file == head \o << << >> >> \o body
           p == Len(head) + 1
<1>1. /\ file \in Seq(Line) /\ Len(file) = p + Len(body)
      /\ \A i \in 1..Len(head) : file[i] = head[i]
      /\ file[p] = << >>
      /\ \A i \in 1..Len(body) : file[p + i] = body[i]
  BY Parts
<1> HIDE DEF file
<1>2. Len(head) \in Nat /\ Len(body) \in Nat /\ p \in Nat \ {0} /\ MaxScan \in Nat \ {0}
  <2>1. MaxScan \in Nat \ {0}
    BY TextAssumption
  <2> QED  BY <2>1, LenProperties
<1>3. PICK n : IsScanned(file, n) /\ UpToOverlong(file) = [i \in 1..n |-> Cut(file[i])]
  BY <1>1, Scanned
<1>4. IsFile(file, p, n)
  <2>1. \A i \in 1..p - 1 : file[i] # << >>
    BY <1>1, <1>2
  <2>2. p \in 1..Len(file)
    BY <1>1, <1>2
  <2> QED  BY <1>1, <1>3, <2>1, <2>2 DEF IsFile
<1>5. n \in 0..Len(file) /\ Len(file) \in Nat
  BY <1>1, <1>2, <1>3 DEF IsScanned
<1>6. \A h, b \in BOOLEAN : SendArticle(file, h, b) = Sent(file, FirstSent(p, h), LastSent(p, b, n))
  BY <1>1, <1>4, ArticleSent
<1> DEFINE m == IF n < p THEN n ELSE p - 1
<1>7. m \in 0..Len(head) /\ m \in 0..Len(file) /\ m <= n
  BY <1>1, <1>2, <1>5
<1>8. /\ SendArticle(file, TRUE, TRUE) = Sent(file, 1, n)
      /\ SendArticle(file, TRUE, FALSE) = Sent(file, 1, m)
      /\ SendArticle(file, FALSE, TRUE) = Sent(file, p + 1, n)
  BY <1>6 DEF FirstSent, LastSent
<1>9. \A to \in 0..Len(file) :
        /\ Received(Sent(file, 1, to)) = [k \in 1..to |-> Cut(file[k])]
        /\ \A l \in ToSet(Sent(file, 1, to)) : l # <<Dot>>
  <2> TAKE to \in 0..Len(file)
  <2>1. /\ Received(Sent(file, 1, to)) = [k \in 1..to - 1 + 1 |-> Cut(file[1 + k - 1])]
        /\ \A l \in ToSet(Sent(file, 1, to)) : l # <<Dot>>
    <3> DEFINE from == 1
    <3>1. from \in Nat \ {0}
      OBVIOUS
    <3>2. SUFFICES
            /\ Received(Sent(file, from, to)) =
                 [k \in 1..to - from + 1 |-> Cut(file[from + k - 1])]
            /\ \A l \in ToSet(Sent(file, from, to)) : l # <<Dot>>
      OBVIOUS
    <3> HIDE DEF from
    <3> QED  BY <1>1, <3>1, SentReceived
  <2>2. to - 1 + 1 = to /\ \A k \in 1..to : 1 + k - 1 = k
    BY <1>5
  <2> QED  BY <2>1, <2>2
<1>10. Received(SendArticle(file, TRUE, TRUE)) = UpToOverlong(file)
       /\ \A l \in ToSet(SendArticle(file, TRUE, TRUE)) : l # <<Dot>>
  BY <1>3, <1>5, <1>8, <1>9
<1>11. IsScanned(head, m)
  <2>1. \A i \in 1..m : Len(head[i]) < MaxScan
    <3> TAKE i \in 1..m
    <3>1. i \in 1..n /\ i \in 1..Len(head)
      BY <1>2, <1>5, <1>7
    <3> QED  BY <1>1, <1>3, <3>1 DEF IsScanned
  <2>2. m < Len(head) => Len(head[m + 1]) >= MaxScan
    <3> SUFFICES ASSUME m < Len(head) PROVE Len(head[m + 1]) >= MaxScan
      OBVIOUS
    <3>1. m = n /\ n < Len(file) /\ n + 1 \in 1..Len(head)
      BY <1>1, <1>2, <1>5
    <3> QED  BY <1>1, <1>3, <3>1 DEF IsScanned
  <2> HIDE DEF m
  <2> QED  BY <1>7, <2>1, <2>2 DEF IsScanned
<1>12. UpToOverlong(head) = [i \in 1..m |-> Cut(head[i])]
  <2>1. PICK k : IsScanned(head, k) /\ UpToOverlong(head) = [i \in 1..k |-> Cut(head[i])]
    BY Scanned
  <2>2. k = m
    <3> HIDE DEF m
    <3> QED  BY <1>11, <2>1, ScannedOnce
  <2> QED  BY <2>1, <2>2
<1>13. /\ Received(SendArticle(file, TRUE, FALSE)) = UpToOverlong(head)
       /\ \A l \in ToSet(SendArticle(file, TRUE, FALSE)) : l # <<Dot>>
  <2> HIDE DEF m
  <2>1. /\ Received(SendArticle(file, TRUE, FALSE)) = [k \in 1..m |-> Cut(file[k])]
        /\ \A l \in ToSet(SendArticle(file, TRUE, FALSE)) : l # <<Dot>>
    BY <1>7, <1>8, <1>9
  <2>2. \A k \in 1..m : file[k] = head[k]
    BY <1>1, <1>2, <1>7
  <2> QED  BY <1>12, <2>1, <2>2
<1>14. ASSUME Complete(head)
       PROVE  /\ Received(Reply("BODY", file)) = << << >> >> \o UpToOverlong(body)
              /\ \A l \in ToSet(Reply("BODY", file)) : l # <<Dot>>
  <2>1. \A i \in 1..Len(head) : Len(head[i]) < MaxScan /\ Len(head[i]) \in Nat
    <3> TAKE i \in 1..Len(head)
    <3>1. head[i] \in Line
      BY ElementOfSeq
    <3> QED  BY <1>14, <3>1, LenProperties DEF Complete, Line
  <2>2. n >= p
    <3>1. SUFFICES ASSUME n < p PROVE FALSE
      BY <1>2, <1>5
    <3>2. n < Len(file) /\ n + 1 \in 1..p
      BY <1>1, <1>2, <1>5, <3>1
    <3>3. Len(file[n + 1]) >= MaxScan
      BY <1>3, <3>2 DEF IsScanned
    <3>4. CASE n + 1 = p
      <4>1. Len(file[p]) = 0
        BY <1>1
      <4> QED  BY <1>2, <3>3, <3>4, <4>1
    <3>5. CASE n + 1 # p
      <4>1. n + 1 \in 1..Len(head)
        BY <1>2, <3>2, <3>5
      <4>2. file[n + 1] = head[n + 1]
        BY <1>1, <4>1
      <4>3. Len(head[n + 1]) < MaxScan /\ Len(head[n + 1]) \in Nat
        BY <2>1, <4>1
      <4> QED  BY <1>2, <3>3, <4>2, <4>3
    <3> QED  BY <3>4, <3>5
  <2> DEFINE e == n - p
  <2>3. e \in 0..Len(body) /\ n = p + e
    BY <1>1, <1>2, <1>5, <2>2
  <2>4. IsScanned(body, e)
    <3>1. \A i \in 1..e : Len(body[i]) < MaxScan
      <4> TAKE i \in 1..e
      <4>1. p + i \in 1..n /\ i \in 1..Len(body)
        BY <1>2, <2>3
      <4> QED  BY <1>1, <1>3, <4>1 DEF IsScanned
    <3>2. e < Len(body) => Len(body[e + 1]) >= MaxScan
      <4> SUFFICES ASSUME e < Len(body) PROVE Len(body[e + 1]) >= MaxScan
        OBVIOUS
      <4> HIDE DEF e, p
      <4>1. n < Len(file) /\ n + 1 = p + (e + 1) /\ e + 1 \in 1..Len(body)
        BY <1>1, <1>2, <2>3
      <4> QED  BY <1>1, <1>3, <4>1 DEF IsScanned
    <3> HIDE DEF e
    <3> QED  BY <2>3, <3>1, <3>2 DEF IsScanned
  <2>5. UpToOverlong(body) = [i \in 1..e |-> Cut(body[i])]
    <3> HIDE DEF e
    <3>1. PICK k : IsScanned(body, k) /\ UpToOverlong(body) = [i \in 1..k |-> Cut(body[i])]
      BY Scanned
    <3>2. k = e
      BY <2>4, <3>1, ScannedOnce
    <3> QED  BY <3>1, <3>2
  <2> DEFINE s == Sent(file, p + 1, n)
  <2>6. /\ s \in Seq(Line)
        /\ Received(s) = [k \in 1..n - (p + 1) + 1 |-> Cut(file[p + 1 + k - 1])]
        /\ \A l \in ToSet(s) : l # <<Dot>>
    <3>1. p + 1 \in Nat \ {0}
      BY <1>2
    <3> HIDE DEF p
    <3> QED  BY <1>1, <1>5, <3>1, SentReceived, SentTyped
  <2>7. n - (p + 1) + 1 = e /\ \A k \in 1..e : p + 1 + k - 1 = p + k /\ k \in 1..Len(body)
    BY <1>2, <2>3
  <2>8. \A k \in 1..e : file[p + 1 + k - 1] = body[k]
    <3> HIDE DEF p, e
    <3> QED  BY <1>1, <2>7
  <2>9. Reply("BODY", file) = << << >> >> \o s
    BY <1>8 DEF Reply
  <2> HIDE DEF e, p, s
  <2>10. Received(s) = UpToOverlong(body)
    BY <2>5, <2>6, <2>7, <2>8
  <2> QED  BY <2>6, <2>9, <2>10, AfterBlank
<1>15. Loads(file) <=> Complete(head)
  BY Loaded DEF file
<1>16. Reply("ARTICLE", file) = SendArticle(file, TRUE, TRUE) /\ Reply("HEAD", file) = SendArticle(file, TRUE, FALSE)
  BY DEF Reply
<1> QED  BY <1>10, <1>13, <1>14, <1>15, <1>16 DEF file

-----------------------------------------------------------------------------
(* What the program makes of a text, and what it says of it.               *)

ByMail == at \in {"mail", "cc"} \/ exit # "none"

\* How far the program is tells what the gateway has done, and that the bytes of
\* a POST have no CR.
Outcome ==
  /\ at \in {"command", "dispatch", "body", "post"} => exit = "none"
  /\ at \in {"body", "post"} => msg \in Seq(Byte \ {CR})
  /\ at = "mail" => /\ exit = "none" /\ ~ selected /\ files = << >>
                    /\ toolong = (PostLimit > 0 /\ count.linecount > PostLimit)
  /\ at = "cc" => exit = "none" /\ answer = <<"posted">> /\ Len(files) = 1
  /\ exit = "0" => at = "gone" /\ answer = <<"posted">> /\ Len(files) = 1

Allowed(i) == IF ByMail THEN MailAnswers(i) ELSE Answers(i)

\* The file that text i calls for.
KeptFile(i) ==
  LET text == Meant(sent[i].text)
      before == IF ByMail THEN Before ELSE << >> IN
  FileOf(i, [headers |-> before \o text.headers, body |-> text.body])

\* The answers are those that the texts allow, and the files are those that the
\* answers speak of, in the order they came.
Recorded ==
  /\ selected <=> \E i \in 1..Len(heard) : heard[i].command = GROUP
  /\ \A i \in 1..Len(heard) : heard[i].command = POST => answer[i] \in Allowed(i)
  /\ \A i \in 1..Len(heard) :
       answer[i] \in Kept <=> \E k \in 1..Len(files) : files[k].of = i
  /\ \A k \in 1..Len(files) :
       /\ files[k].of \in 1..Len(heard) /\ files[k] = KeptFile(files[k].of)
       /\ sent[files[k].of].command = POST
  /\ \A k \in 1..Len(files) : \A m \in 1..k - 1 : files[m].of < files[k].of

\* The inductive invariant of Judged and ComesBack.
AnswersInv == FramedInv /\ Outcome /\ (~ failed => Recorded)

LEMMA ReadMailOutcome ==
  ASSUME Typed, Outcome, ReadMail
  PROVE  Outcome'
<1>1. /\ at = "mail" /\ at' = "mail" /\ rest # << >> /\ count \in [linechars : 0..MaxChars, linecount : Nat]
      /\ UNCHANGED <<selected, exit, files>>
  BY DEF Typed, TypeOK, ReadMail, history
<1>2. /\ exit = "none" /\ ~ selected /\ files = << >>
      /\ toolong = (PostLimit > 0 /\ count.linecount > PostLimit)
  BY <1>1 DEF Outcome
<1> DEFINE n == CountByte(count, Head(rest))
<1>3. n.linecount \in Nat /\ n.linecount >= count.linecount
  BY <1>1 DEF CountByte
<1>4. PostLimit \in Nat
  BY SubmissionAssumption
<1>5. toolong' = (PostLimit > 0 /\ count'.linecount > PostLimit)
  <2>1. CASE UNCHANGED <<count, toolong, msg>>
    BY <1>2, <2>1
  <2>2. CASE count' = n /\ toolong' = (toolong \/ (PostLimit > 0 /\ n.linecount > PostLimit))
    <3>1. (PostLimit > 0 /\ count.linecount > PostLimit) => n.linecount > PostLimit
      BY <1>1, <1>3, <1>4
    <3> HIDE DEF n
    <3> QED  BY <1>2, <2>2, <3>1
  <2> QED  BY <2>1, <2>2 DEF ReadMail
<1> QED  BY <1>1, <1>2, <1>5 DEF Outcome

LEMMA MailPostOutcome ==
  ASSUME Outcome, MailPost
  PROVE  Outcome'
<1>1. at = "mail" /\ exit = "none"
  BY DEF MailPost, Outcome
<1>2. \/ at' = "gone" /\ exit' = "1"
      \/ /\ answer' = <<"posted">> /\ Len(files') = 1
         /\ \/ at' = "cc" /\ exit' = "none"
            \/ at' = "gone" /\ exit' = "0"
  <2> DEFINE article == ParseArticle(msg)
  <2>1. ASSUME NEW code, MailRefused(article, code)
        PROVE  at' = "gone" /\ exit' = "1"
    BY <2>1 DEF MailRefused
  <2>2. ASSUME MailStored(article, "posted")
        PROVE  answer' = <<"posted">> /\ Len(files') = 1
    BY <2>2 DEF MailStored, MailHeard
  <2>3. \/ \E code : MailRefused(article, code)
        \/ at' = "gone" /\ exit' = "1"
        \/ /\ MailStored(article, "posted")
           /\ at' = IF CCPost THEN "cc" ELSE "gone"
           /\ exit' = IF CCPost THEN "none" ELSE "0"
    BY DEF MailPost
  <2> HIDE DEF article
  <2> QED  BY <2>1, <2>2, <2>3
<1> QED  BY <1>2 DEF Outcome

LEMMA OutcomeNext ==
  ASSUME Typed, Outcome, [Next]_vars
  PROVE  Outcome'
<1>1. CASE Pause \/ Resume \/ HangUp \/ UNCHANGED vars
  BY <1>1 DEF Pause, Resume, HangUp, Outcome, vars, reader, gateway, history
<1>2. CASE ReadLine \/ ReadLineFails
  BY <1>2 DEF ReadLine, ReadLineFails, Outcome, input, reader, gateway, history
<1>3. CASE Blank \/ SelectGroup \/ Unknown
  BY <1>3 DEF Blank, SelectGroup, Unknown, Outcome, gateway, reader, history
<1>4. CASE BeginPost
  <2>1. << >> \in Seq(Byte \ {CR})
    OBVIOUS
  <2> QED  BY <1>4, <2>1 DEF BeginPost, Outcome, gateway, history
<1>5. CASE ReadBody
  <2>1. /\ at = "body" /\ at' \in {"body", "post"} /\ UNCHANGED exit
        /\ \/ msg' = msg
           \/ Head(rest) # CR /\ msg' = Append(msg, Head(rest))
        /\ rest # << >> /\ rest \in Seq(Byte)
    BY <1>5 DEF ReadBody, Arrives, gateway, Typed, TypeOK
  <2>2. exit = "none" /\ msg \in Seq(Byte \ {CR})
    BY <2>1 DEF Outcome
  <2>3. Head(rest) \in Byte
    BY <2>1, HeadTailProperties
  <2>4. msg' \in Seq(Byte \ {CR})
    BY <2>1, <2>2, <2>3, AppendProperties
  <2> QED  BY <2>1, <2>2, <2>4 DEF Outcome
<1>6. CASE ReadBodyTooBig \/ Expire \/ ReadBodyEof
  BY <1>6 DEF ReadBodyTooBig, Expire, ReadBodyEof, BodyFails, Outcome, gateway
<1>7. CASE Post
  BY <1>7 DEF Post, Outcome, gateway
<1>8. CASE ReadMail
  BY <1>8, ReadMailOutcome
<1>9. CASE ReadMailFails \/ CcPostToMail
  BY <1>9 DEF ReadMailFails, CcPostToMail, Outcome, history
<1>10. CASE MailPost
  BY <1>10, MailPostOutcome
<1> QED
  BY <1>1, <1>2, <1>3, <1>4, <1>5, <1>6, <1>7, <1>8, <1>9, <1>10
     DEF Next, Server, BodyStep, MailGateway, Gone

\* What came by mail has come by mail.
LEMMA RouteKept ==
  ASSUME Outcome, [Next]_vars
  PROVE  ByMail' = ByMail
<1>1. CASE Pause \/ Resume \/ HangUp \/ UNCHANGED vars
  BY <1>1 DEF Pause, Resume, HangUp, ByMail, vars, gateway
<1>2. CASE Server
  <2>1. /\ at \in {"command", "dispatch", "body", "post"} /\ UNCHANGED exit
        /\ at' \notin {"mail", "cc"}
    BY <1>2 DEF Server, BodyStep, ReadLine, ReadLineFails, Blank, SelectGroup, Unknown,
                BeginPost, ReadBody, ReadBodyTooBig, Expire, ReadBodyEof, BodyFails, Post,
                gateway
  <2> QED  BY <2>1 DEF Outcome, ByMail
<1>3. CASE MailGateway
  BY <1>3 DEF MailGateway, ReadMail, ReadMailFails, MailPost, MailRefused, MailStored,
              CcPostToMail, ByMail
<1> QED  BY <1>1, <1>2, <1>3 DEF Next, Gone

LEMMA RecordedSame ==
  ASSUME Recorded, ByMail' = ByMail,
         UNCHANGED <<sent, heard, answer, files, selected>>
  PROVE  Recorded'
BY DEF Recorded, Allowed, KeptFile, MailAnswers, Answers, TooLong

\* A text, or a command, is answered; if the answer says so, its file is written.
LEMMA RecordedMore ==
  ASSUME Typed, Typed', Recorded, ByMail' = ByMail, sent' = sent,
         NEW command, NEW text, NEW code, NEW k, k = Len(heard) + 1,
         Heard(command, text, code),
         selected' <=> selected \/ command = GROUP,
         command = POST => code \in Allowed(k),
         code \in Kept => sent[k].command = POST /\ files' = Append(files, KeptFile(k)),
         code \notin Kept => files' = files
  PROVE  Recorded'
<1> DEFINE Taken == [command : {POST, GROUP, "unknown"}, headers : Seq(Line), body : Seq(Line)]
           taken == [command |-> command, headers |-> text.headers, body |-> text.body]
           n == Len(heard)
           w == Len(files)
<1>1. /\ heard \in Seq(Taken) /\ answer \in Seq(Code) /\ files \in Seq(File) /\ Len(answer) = n
      /\ files' \in Seq(File)
  BY DEF Typed, TypeOK, File
<1>2. heard' = Append(heard, taken) /\ answer' = Append(answer, code)
  BY DEF Heard
<1> HIDE DEF Taken
<1>3. n \in Nat /\ w \in Nat /\ k = n + 1
  BY <1>1, LenProperties
<1>4. /\ Len(heard') = k /\ heard'[k] = taken /\ taken.command = command
      /\ \A i \in 1..n : heard'[i] = heard[i]
  <2>1. taken.command = command
    OBVIOUS
  <2> HIDE DEF taken
  <2> QED  BY <1>1, <1>2, <1>3, <2>1
<1>5. /\ answer'[k] = code
      /\ \A i \in 1..n : answer'[i] = answer[i]
  BY <1>1, <1>2, <1>3
<1> HIDE DEF taken
<1>6. \A i : Allowed(i)' = Allowed(i) /\ KeptFile(i)' = KeptFile(i)
  BY DEF Allowed, KeptFile, MailAnswers, Answers, TooLong
<1>7. /\ \A f \in 1..w : files'[f] = files[f]
      /\ code \in Kept => Len(files') = w + 1 /\ files'[w + 1] = KeptFile(k)
      /\ code \notin Kept => Len(files') = w
  <2>1. CASE code \in Kept
    <3> DEFINE file == KeptFile(k)
    <3>1. files' = Append(files, file)
      BY <2>1
    <3> HIDE DEF file
    <3>2. /\ Len(files') = w + 1 /\ files'[w + 1] = file
          /\ \A f \in 1..w : files'[f] = files[f]
      BY <1>1, <1>3, <3>1
    <3> QED  BY <2>1, <3>2 DEF file
  <2>2. CASE code \notin Kept
    BY <2>2
  <2> QED  BY <2>1, <2>2
<1>8. KeptFile(k).of = k
  BY DEF KeptFile, FileOf
<1>9. \A f \in 1..w : files[f].of \in 1..n
  BY DEF Recorded
<1>10. selected' <=> \E i \in 1..Len(heard') : heard'[i].command = GROUP
  <2>1. (\E i \in 1..k : heard'[i].command = GROUP)
          <=> (\E i \in 1..n : heard[i].command = GROUP) \/ command = GROUP
    <3>1. \A i \in 1..k : i \in 1..n \/ i = k
      BY <1>3
    <3>2. 1..n \subseteq 1..k /\ k \in 1..k
      BY <1>3
    <3> QED  BY <1>4, <3>1, <3>2
  <2> QED  BY <1>4, <2>1 DEF Recorded
<1>11. \A i \in 1..Len(heard') : heard'[i].command = POST => answer'[i] \in Allowed(i)'
  <2> TAKE i \in 1..Len(heard')
  <2>1. i \in 1..n \/ i = k
    BY <1>3, <1>4
  <2>2. CASE i \in 1..n
    BY <1>4, <1>5, <1>6, <2>2 DEF Recorded
  <2>3. CASE i = k
    BY <1>4, <1>5, <1>6, <2>3
  <2> QED  BY <2>1, <2>2, <2>3
<1>12. \A i \in 1..Len(heard') :
         answer'[i] \in Kept <=> \E f \in 1..Len(files') : files'[f].of = i
  <2> TAKE i \in 1..Len(heard')
  <2>1. i \in 1..n \/ i = k
    BY <1>3, <1>4
  <2>2. Len(files') \in {w, w + 1} /\ \A f \in 1..Len(files') : f \in 1..w \/ f = w + 1
    BY <1>3, <1>7
  <2>3. CASE i \in 1..n
    <3>1. (\E f \in 1..Len(files') : files'[f].of = i) <=> \E f \in 1..w : files[f].of = i
      <4>1. i # k
        BY <1>3, <2>3
      <4>2. 1..w \subseteq 1..Len(files')
        BY <1>3, <2>2
      <4>3. ASSUME NEW f \in 1..Len(files'), files'[f].of = i
            PROVE  f \in 1..w
        <5>1. SUFFICES ASSUME f = w + 1 PROVE FALSE
          BY <2>2
        <5>2. code \in Kept
          BY <1>3, <1>7, <5>1
        <5> QED  BY <1>7, <1>8, <4>1, <4>3, <5>1, <5>2
      <4> QED  BY <1>7, <4>2, <4>3
    <3> QED  BY <1>5, <2>3, <3>1 DEF Recorded
  <2>4. CASE i = k
    <3>1. CASE code \in Kept
      <4>1. w + 1 \in 1..Len(files')
        BY <1>3, <1>7, <3>1
      <4> QED  BY <1>5, <1>7, <1>8, <2>4, <3>1, <4>1
    <3>2. CASE code \notin Kept
      <4>1. \A f \in 1..w : files[f].of # k
        BY <1>3, <1>9
      <4> QED  BY <1>5, <1>7, <2>4, <3>2, <4>1
    <3> QED  BY <3>1, <3>2
  <2> QED  BY <2>1, <2>3, <2>4
<1>13. ASSUME NEW f \in 1..Len(files')
       PROVE  /\ files'[f].of \in 1..Len(heard') /\ files'[f] = KeptFile(files'[f].of)
              /\ sent'[files'[f].of].command = POST
              /\ \A m \in 1..f - 1 : files'[m].of < files'[f].of
  <2>1. CASE f \in 1..w
    <3>1. files'[f] = files[f] /\ \A m \in 1..f - 1 : files'[m] = files[m]
      BY <1>3, <1>7, <2>1
    <3>2. /\ files[f].of \in 1..n /\ files[f] = KeptFile(files[f].of)
          /\ sent[files[f].of].command = POST
          /\ \A m \in 1..f - 1 : files[m].of < files[f].of
      BY <2>1 DEF Recorded
    <3>3. 1..n \subseteq 1..Len(heard')
      BY <1>3, <1>4
    <3> QED  BY <1>6, <3>1, <3>2, <3>3
  <2>2. CASE f \notin 1..w
    <3>1. f = w + 1 /\ code \in Kept
      BY <1>3, <1>7, <2>2
    <3>2. files'[f] = KeptFile(k) /\ files'[f].of = k /\ sent[k].command = POST
      BY <1>7, <1>8, <3>1
    <3>3. k \in 1..Len(heard')
      BY <1>3, <1>4
    <3>4. \A m \in 1..f - 1 : files'[m] = files[m] /\ files[m].of \in 1..n
      BY <1>3, <1>7, <1>9, <3>1
    <3>5. \A m \in 1..f - 1 : files'[m].of < k
      BY <1>3, <3>4
    <3> QED  BY <1>6, <3>2, <3>3, <3>5
  <2> QED  BY <2>1, <2>2
<1>14. \A f \in 1..Len(files') : (files[f] = KeptFile(files[f].of))'
  BY <1>13 DEF KeptFile
<1> QED  BY <1>10, <1>11, <1>12, <1>13, <1>14 DEF Recorded

\* What the limit is applied to is what the text has by the rule of newsd.
LEMMA PostCounts ==
  ASSUME NEW text \in Seq(Line), NEW bytes \in Seq(Byte \ {CR}),
         After(bytes) = TextRead(<< >>, text, Len(text), << >>)
  PROVE  CountPostLines(bytes) = LinesOf(text)
<1> DEFINE none == << >>
           n == Tally(TextRead(<< >>, text, Len(text), none))
<1>1. Len(text) \in 0..Len(text) /\ Len(text) \in Nat
  BY LenProperties
<1>2. none \in Line /\ Len(none) = 0
  BY DEF Line
<1>3. CountPostLines(bytes) = n.linecount + IF n.linechars > 0 THEN 1 ELSE 0
  BY CountsTally
<1> HIDE DEF none
<1>4. n = [linechars |-> Len(none) % Period, linecount |-> Lines(text)[Len(text)] + Len(none) \div Period]
  BY <1>1, <1>2, TallyText
<1>5. n.linechars = 0 /\ n.linecount = Lines(text)[Len(text)] + 0
  <2>1. Len(none) % Period = 0 /\ Len(none) \div Period = 0
    BY <1>2, Periods
  <2> HIDE DEF n
  <2> QED  BY <1>4, <2>1
<1>6. LinesOf(text) = Lines(text)[Len(text)] /\ Lines(text)[Len(text)] \in Nat
  BY <1>1, LinesStates
<1> HIDE DEF n
<1> QED  BY <1>3, <1>5, <1>6

\* The article that is posted is the text that was sent.
LEMMA PostTaken ==
  ASSUME FramedInv, Outcome, Post, ~ failed, NEW k, k = Len(heard) + 1
  PROVE  /\ k \in 1..Len(sent) /\ sent[k].command = POST /\ sent[k].text \in Seq(Line)
         /\ ParseArticle(msg) = [headers |-> Meant(sent[k].text).headers,
                                 body    |-> Meant(sent[k].text).body]
         /\ CountPostLines(msg) = LinesOf(sent[k].text)
<1> DEFINE text == sent[k].text
           none == << >>
<1>1. Typed /\ Framed /\ at = "post" /\ msg \in Seq(Byte \ {CR}) /\ msg \in Seq(Byte)
  BY DEF FramedInv, Post, Outcome, Typed, TypeOK
<1>2. sent \in Seq(Item) /\ Len(sent) \in Nat /\ k \in Nat /\ k - 1 \in Nat
  BY <1>1, Counted
<1>3. PICK eol \in Eol : AtPost(eol)
  BY <1>1 DEF FramedInv, Position
<1>4. InPost /\ After(msg) = TextRead(<< >>, text, Len(text), << >>)
  BY <1>3 DEF AtPost
<1>5. k \in 1..Len(sent) /\ sent[k].command = POST /\ sent[k] \in Item
  BY <1>2, <1>4, ElementOfSeq DEF InPost
<1>6. text \in Seq(Line) /\ none \in Seq(Line)
  BY <1>5 DEF Item
<1>7. CountPostLines(msg) = LinesOf(text)
  <2> HIDE DEF text
  <2> QED  BY <1>1, <1>4, <1>6, PostCounts
<1>8. ParseArticle(msg) = [headers |-> none \o Meant(text).headers, body |-> Meant(text).body]
  <2>1. After(msg) = TextRead(none, text, Len(text), << >>)
    BY <1>4
  <2> HIDE DEF text, none
  <2> QED  BY <1>1, <1>6, <2>1, ArticleMeant
<1>9. Meant(text).headers \in Seq(Line)
  BY <1>6, MeantHeaders
<1>10. none \o Meant(text).headers = Meant(text).headers
  BY <1>9, ConcatEmptySeq
<1> QED  BY <1>5, <1>6, <1>7, <1>8, <1>10

\* POST: the answer is one that the text allows, and the file is that of the text.
LEMMA PostRecorded ==
  ASSUME FramedInv, Typed', Outcome, Recorded, Post, ~ failed, ByMail' = ByMail
  PROVE  Recorded'
<1> DEFINE k == Len(heard) + 1
           text == sent[k].text
           article == ParseArticle(msg)
           named == HasHeader(article.headers, Newsgroups)
<1>1. Typed /\ Framed /\ at = "post" /\ exit = "none" /\ UNCHANGED <<sent, selected>>
  BY DEF FramedInv, Post, Outcome
<1>2. ~ ByMail
  BY <1>1 DEF ByMail
<1>3. /\ k \in 1..Len(sent) /\ sent[k].command = POST /\ text \in Seq(Line)
      /\ article = [headers |-> Meant(text).headers, body |-> Meant(text).body]
      /\ CountPostLines(msg) = LinesOf(text)
  BY PostTaken
<1>4. Len(heard) \in Nat /\ \A j \in 1..Len(heard) : heard[j].command = sent[j].command
  BY <1>1, Counted DEF Framed
<1> HIDE DEF article
<1>5. named <=> HasHeader(Meant(text).headers, Newsgroups)
  BY <1>3
<1>6. OverLimit(article) <=> (\E j \in 1..k - 1 : sent[j].command = GROUP) /\ TooLong(k)
  <2>1. selected <=> \E j \in 1..Len(heard) : sent[j].command = GROUP
    BY <1>4 DEF Recorded
  <2>2. k - 1 = Len(heard)
    BY <1>4
  <2>3. PostLimit > 0 /\ CountPostLines(msg) > PostLimit <=> TooLong(k)
    BY <1>3 DEF TooLong
  <2> HIDE DEF k, text
  <2> QED  BY <2>1, <2>2, <2>3 DEF OverLimit
<1>7. Allowed(k) = IF ~ named THEN {"441 no Newsgroups"}
                   ELSE {"refused"} \cup
                     IF OverLimit(article) THEN {"411"}
                                           ELSE {"240", "441 failed", "441 index failed"}
  BY <1>2, <1>5, <1>6 DEF Allowed, Answers
<1>8. FileOf(k, article) = KeptFile(k)
  <2>1. Meant(text).headers \in Seq(Line)
    BY <1>3, MeantHeaders
  <2>2. << >> \o Meant(text).headers = Meant(text).headers
    BY <2>1, ConcatEmptySeq
  <2> QED  BY <1>2, <1>3, <2>2 DEF KeptFile
<1>9. PICK code :
        /\ Heard(POST, article, code) /\ code \in Allowed(k)
        /\ \/ code \in Kept /\ files' = Append(files, FileOf(k, article))
           \/ code \notin Kept /\ files' = files
  <2>1. \/ ~ named /\ Refuse(article, "441 no Newsgroups")
        \/ named /\ Refuse(article, "refused")
        \/ named /\ OverLimit(article) /\ Refuse(article, "411")
        \/ /\ named /\ ~ OverLimit(article)
           /\ \/ Store(article, "240")
              \/ Store(article, "441 index failed")
              \/ Refuse(article, "441 failed")
    BY DEF Post, article
  <2>2. \A code : Refuse(article, code) => Heard(POST, article, code) /\ files' = files
    BY DEF Refuse
  <2>3. \A code : Store(article, code) =>
          Heard(POST, article, code) /\ files' = Append(files, FileOf(k, article))
    BY DEF Store, FileOf
  <2>4. /\ {"240", "441 index failed"} \subseteq Kept
        /\ {"441 no Newsgroups", "refused", "411", "441 failed"} \cap Kept = {}
    BY DEF Kept
  <2> HIDE DEF named, k
  <2> QED  BY <1>7, <2>1, <2>2, <2>3, <2>4
<1>10. selected' <=> selected \/ POST = GROUP
  BY <1>1 DEF POST, GROUP
<1> HIDE DEF named, text
<1> QED  BY <1>1, <1>3, <1>8, <1>9, <1>10, RecordedMore

\* The mail gateway: the same of a mail. Of a last line without an end it may miss
\* one line, and then the limit is one line higher.
LEMMA MailRecorded ==
  ASSUME FramedInv, Typed', Outcome, Recorded, MailPost, ~ failed, ByMail' = ByMail
  PROVE  Recorded'
<1> DEFINE text == sent[1].text
           article == ParseArticle(msg)
           verdict == {"posted", "failed", "index failed"}
<1>1. Typed /\ at = "mail" /\ ~ selected /\ files = << >> /\ UNCHANGED <<sent, selected>>
      /\ toolong = (PostLimit > 0 /\ count.linecount > PostLimit)
  BY DEF FramedInv, MailPost, Outcome
<1>2. ByMail
  BY <1>1 DEF ByMail
<1>3. Len(sent) = 1 /\ sent[1].command = POST /\ heard = << >> /\ text \in Seq(Line)
      /\ MailWhole(text, article)
  BY MailTaken
<1>4. Len(answer) = 0 /\ answer = << >> /\ Len(heard) = 0
  <2>1. answer \in Seq(Code) /\ Len(answer) = Len(heard)
    BY <1>1 DEF Typed, TypeOK
  <2> QED  BY <1>3, <2>1, EmptySeq
<1> HIDE DEF article
<1>5. ASSUME toolong
      PROVE  "too long" \in MailAnswers(1)
  <2>1. LinesOf(text) \in Nat /\ PostLimit \in Nat /\ count.linecount \in Nat
    BY <1>1, <1>3, LinesAppend, SubmissionAssumption DEF Typed, TypeOK
  <2>2. PostLimit > 0 /\ count.linecount > PostLimit
    BY <1>1, <1>5
  <2>3. count.linecount \in {LinesOf(text), LinesOf(text) - 1}
    BY <1>3 DEF MailWhole
  <2>4. LinesOf(text) > PostLimit
    BY <2>1, <2>2, <2>3
  <2> QED  BY <2>2, <2>4 DEF MailAnswers, TooLong
<1>6. ASSUME ~ toolong
      PROVE  verdict \subseteq MailAnswers(1)
  <2>1. LinesOf(text) \in Nat /\ PostLimit \in Nat /\ count.linecount \in Nat
    BY <1>1, <1>3, LinesAppend, SubmissionAssumption DEF Typed, TypeOK
  <2>2. ~ (PostLimit > 0 /\ count.linecount > PostLimit)
    BY <1>1, <1>6
  <2>3. count.linecount \in {LinesOf(text), LinesOf(text) - 1}
    BY <1>3 DEF MailWhole
  <2>4. PostLimit > 0 => ~ (LinesOf(text) > PostLimit + 1)
    BY <2>1, <2>2, <2>3
  <2> HIDE DEF verdict
  <2> QED  BY <2>4 DEF MailAnswers, TooLong, verdict
<1>7. ASSUME ~ toolong
      PROVE  FileOf(1, article) = KeptFile(1)
  <2>1. article = [headers |-> Before \o Meant(text).headers, body |-> Meant(text).body]
    BY <1>3, <1>7 DEF MailWhole
  <2> QED  BY <1>2, <2>1 DEF KeptFile
<1>8. PICK code :
        /\ MailHeard(article, code) /\ code \in MailAnswers(1)
        /\ \/ code \in Kept /\ ~ toolong /\ files' = <<FileOf(1, article)>>
           \/ code \notin Kept /\ files' = files
  <2>1. \/ toolong /\ MailRefused(article, "too long")
        \/ /\ ~ toolong
           /\ \/ MailRefused(article, "failed")
              \/ MailStored(article, "index failed")
              \/ MailStored(article, "posted")
    BY DEF MailPost, article
  <2>2. \A code : MailRefused(article, code) => MailHeard(article, code) /\ files' = files
    BY DEF MailRefused
  <2>3. \A code : MailStored(article, code) =>
          MailHeard(article, code) /\ files' = <<FileOf(1, article)>>
    BY DEF MailStored, FileOf
  <2>4. /\ {"posted", "index failed"} \subseteq Kept
        /\ {"too long", "failed"} \cap Kept = {}
    BY DEF Kept
  <2>5. CASE toolong
    BY <1>5, <2>1, <2>2, <2>4, <2>5
  <2>6. CASE ~ toolong
    <3>1. {"posted", "failed", "index failed"} \subseteq MailAnswers(1)
      BY <1>6, <2>6
    <3> QED  BY <2>1, <2>2, <2>3, <2>4, <2>6, <3>1
  <2> QED  BY <2>5, <2>6
<1> DEFINE mail == [headers |-> SubSeq(article.headers, 3, Len(article.headers)),
                    body    |-> article.body]
           k == Len(heard) + 1
<1>9. Heard(POST, mail, code)
  <2>1. mail.headers = SubSeq(article.headers, 3, Len(article.headers)) /\ mail.body = article.body
    OBVIOUS
  <2> HIDE DEF mail
  <2> DEFINE taken == [command |-> POST, headers |-> mail.headers, body |-> mail.body]
  <2>2. heard' = <<taken>> /\ answer' = <<code>>
    BY <1>8, <2>1 DEF MailHeard
  <2> HIDE DEF taken
  <2>3. heard' = Append(heard, taken) /\ answer' = Append(answer, code)
    BY <1>3, <1>4, <2>2
  <2> QED  BY <2>3 DEF Heard, taken
<1>10. k = 1
  BY <1>4
<1>11. /\ code \in Kept => sent[k].command = POST /\ files' = Append(files, KeptFile(k))
       /\ code \notin Kept => files' = files
  <2>1. CASE code \in Kept
    <3>1. files' = <<KeptFile(1)>>
      BY <1>7, <1>8, <2>1
    <3> DEFINE file == KeptFile(1)
    <3> HIDE DEF file
    <3>2. Append(<< >>, file) = <<file>>
      OBVIOUS
    <3> QED  BY <1>1, <1>3, <1>10, <2>1, <3>1, <3>2 DEF file
  <2>2. CASE code \notin Kept
    BY <1>8, <2>2
  <2> QED  BY <2>1, <2>2
<1>12. code \in Allowed(k)
  BY <1>2, <1>8, <1>10 DEF Allowed
<1>13. selected' <=> selected \/ POST = GROUP
  BY <1>1 DEF POST, GROUP
<1> HIDE DEF mail, text
<1> QED  BY <1>1, <1>9, <1>11, <1>12, <1>13, RecordedMore

LEMMA InitAnswers == Init => AnswersInv
<1> SUFFICES ASSUME Init PROVE AnswersInv
  OBVIOUS
<1>1. FramedInv
  BY InitFramed
<1>2. /\ at \in {"command", "mail"} /\ exit = "none" /\ ~ selected /\ ~ toolong
      /\ count = NoLines
      /\ heard = << >> /\ answer = << >> /\ files = << >>
  BY DEF Init
<1>3. toolong = (PostLimit > 0 /\ count.linecount > PostLimit)
  <2>1. PostLimit \in Nat /\ count.linecount = 0
    BY <1>2, SubmissionAssumption DEF NoLines
  <2>2. ~ (PostLimit > 0 /\ count.linecount > PostLimit)
    BY <2>1
  <2>3. toolong \in BOOLEAN
    BY <1>1 DEF FramedInv, Typed, TypeOK
  <2> QED  BY <1>2, <2>2, <2>3
<1>4. Outcome
  BY <1>2, <1>3 DEF Outcome
<1>5. Recorded
  BY <1>2 DEF Recorded
<1> QED  BY <1>1, <1>4, <1>5 DEF AnswersInv

LEMMA NextAnswers ==
  ASSUME WellBegun, MaxLine > 1, AnswersInv, [Next]_vars
  PROVE  AnswersInv'
<1>1. FramedInv /\ FramedInv' /\ Outcome /\ Typed /\ Typed'
  BY NextFramed DEF AnswersInv, FramedInv
<1>2. Outcome' /\ ByMail' = ByMail
  BY <1>1, OutcomeNext, RouteKept
<1>3. ASSUME ~ failed'
      PROVE  Recorded'
  <2>1. ~ failed
    BY <1>3 DEF Next, Server, BodyStep, MailGateway, Gone, Pause, Resume, HangUp, ReadLine,
                ReadLineFails, Blank, SelectGroup, Unknown, BeginPost, ReadBody,
                ReadBodyTooBig, Expire, ReadBodyEof, BodyFails, Post, ReadMail,
                ReadMailFails, MailPost, CcPostToMail, vars, history
  <2>2. Recorded
    BY <2>1 DEF AnswersInv
  <2>3. CASE Pause \/ Resume \/ HangUp \/ ReadLine \/ ReadLineFails \/ Blank \/ BeginPost
               \/ ReadBody \/ ReadMail \/ ReadMailFails \/ CcPostToMail \/ UNCHANGED vars
    <3>1. UNCHANGED <<sent, heard, answer, files, selected>>
      BY <2>3 DEF Pause, Resume, HangUp, ReadLine, ReadLineFails, Blank, BeginPost, ReadBody,
                  ReadMail, ReadMailFails, CcPostToMail, vars, history
    <3> QED  BY <1>2, <2>2, <3>1, RecordedSame
  <2>4. CASE SelectGroup
    <3>1. /\ Heard(GROUP, NoText, "211") /\ selected' = TRUE /\ UNCHANGED <<sent, files>>
          /\ selected' <=> selected \/ GROUP = GROUP
          /\ GROUP # POST /\ "211" \notin Kept
      BY <2>4 DEF SelectGroup, GROUP, POST, Kept
    <3> QED  BY <1>1, <1>2, <2>2, <3>1, RecordedMore
  <2>5. CASE Unknown
    <3> DEFINE unknown == "unknown"
    <3>1. /\ Heard(unknown, NoText, "500") /\ UNCHANGED <<sent, files>>
          /\ selected' <=> selected \/ unknown = GROUP
          /\ unknown # POST /\ "500" \notin Kept
      BY <2>5 DEF Unknown, GROUP, POST, Kept
    <3> HIDE DEF unknown
    <3> QED  BY <1>1, <1>2, <2>2, <3>1, RecordedMore
  <2>6. CASE ReadBodyTooBig \/ Expire \/ ReadBodyEof
    BY <1>3, <2>6 DEF ReadBodyTooBig, Expire, ReadBodyEof, BodyFails
  <2>7. CASE Post
    BY <1>1, <1>2, <2>1, <2>2, <2>7, PostRecorded
  <2>8. CASE MailPost
    BY <1>1, <1>2, <2>1, <2>2, <2>8, MailRecorded
  <2> QED
    BY <2>3, <2>4, <2>5, <2>6, <2>7, <2>8 DEF Next, Server, BodyStep, MailGateway, Gone
<1> QED  BY <1>1, <1>2, <1>3 DEF AnswersInv

\* Both routes apply to a text, however it is cut into bytes, the rule that it calls
\* for (POST and CountPostLines in nntp/server.go, the gateway in main.go): when no
\* body failed to be read, every answer is one that the lines which were sent allow,
\* and the gateway exits with 0 only when it has posted the mail, once.
THEOREM JudgedByRule ==
  ASSUME WellBegun, MaxLine > 1
  PROVE  Spec => []Judged
<1>1. Init => AnswersInv
  BY InitAnswers
<1>2. AnswersInv /\ [Next]_vars => AnswersInv'
  BY NextAnswers
<1>3. AnswersInv => Judged
  BY DEF AnswersInv, Outcome, Recorded, Allowed, ByMail, Judged
<1> QED  BY <1>1, <1>2, <1>3, PTL DEF Spec

\* A header that makes no difference to whether an article can be loaded, as are those
\* that the gateway and Post add.
Harmless(l) ==
  l # << >> /\ Len(l) < MaxScan /\ ~ StartsWith(l, From) /\ ~ StartsWith(l, EmptyID)

LEMMA AddedHarmless ==
  /\ Harmless(<<Newsgroups>>) /\ Harmless(<<Gateway>>) /\ Harmless(<<Xref>>)
  /\ {<<Newsgroups>>, <<Gateway>>, <<Xref>>} \subseteq Line
<1>1. /\ Len(<<Newsgroups>>) = 1 /\ Len(<<Gateway>>) = 1 /\ Len(<<Xref>>) = 1
      /\ <<Newsgroups>>[1] = Newsgroups /\ <<Gateway>>[1] = Gateway /\ <<Xref>>[1] = Xref
  OBVIOUS
<1>2. 1 < MaxScan
  BY TextAssumption
<1>3. {Newsgroups, Gateway, Xref} \cap {From, EmptyID} = {}
  BY DEF Newsgroups, Gateway, Xref, From, EmptyID
<1> QED  BY <1>1, <1>2, <1>3, BytesAreBytes DEF Harmless, StartsWith

\* A file has the headers that were sent and others around them.
LEMMA Around ==
  ASSUME NEW before \in Seq(Line), \A i \in 1..Len(before) : Harmless(before[i]),
         NEW headers \in Seq(Line), \A i \in 1..Len(headers) : headers[i] # << >>
  PROVE  LET head == before \o headers \o << <<Xref>> >> IN
         /\ head \in Seq(Line) /\ \A i \in 1..Len(head) : head[i] # << >>
         /\ Complete(head) <=> Complete(headers)
<1> DEFINE xref == <<Xref>>
           both == before \o headers
           head == both \o <<xref>>
           b == Len(before)
           n == Len(headers)
<1>1. b \in Nat /\ n \in Nat
  BY LenProperties
<1>2. xref \in Line /\ Harmless(xref)
  BY AddedHarmless
<1>3. /\ both \in Seq(Line) /\ Len(both) = b + n
      /\ \A i \in 1..b + n : both[i] = IF i <= b THEN before[i] ELSE headers[i - b]
  BY ConcatProperties
<1> HIDE DEF xref, both
<1>4. /\ head \in Seq(Line) /\ Len(head) = b + n + 1
      /\ head[b + n + 1] = xref /\ \A i \in 1..b + n : head[i] = both[i]
  <2>1. head = Append(both, xref)
    BY <1>2, <1>3
  <2> HIDE DEF head
  <2>2. /\ head \in Seq(Line) /\ Len(head) = Len(both) + 1 /\ head[Len(both) + 1] = xref
        /\ \A i \in 1..Len(both) : head[i] = both[i]
    BY <1>2, <1>3, <2>1, AppendProperties
  <2> HIDE DEF b, n
  <2> QED  BY <1>1, <1>3, <2>2
<1> HIDE DEF head
<1> HIDE DEF b
<1>5. ASSUME NEW i \in 1..Len(head)
      PROVE  Harmless(head[i]) \/ \E j \in 1..n : head[i] = headers[j]
  <2>1. CASE i <= b
    <3>1. i \in 1..b /\ i \in 1..b + n
      BY <1>1, <2>1
    <3>2. head[i] = before[i]
      BY <1>3, <1>4, <2>1, <3>1
    <3> QED  BY <3>1, <3>2 DEF b
  <2>2. CASE i > b /\ i <= b + n
    <3>1. i \in 1..b + n /\ i - b \in 1..n /\ ~ (i <= b)
      BY <1>1, <2>2
    <3>2. head[i] = headers[i - b]
      BY <1>3, <1>4, <3>1
    <3> QED  BY <3>1, <3>2
  <2>3. CASE i = b + n + 1
    BY <1>2, <1>4, <2>3
  <2>4. i <= b \/ (i > b /\ i <= b + n) \/ i = b + n + 1
    <3> HIDE DEF n
    <3> QED  BY <1>1, <1>4
  <2> QED  BY <2>1, <2>2, <2>3, <2>4
<1>6. ASSUME NEW j \in 1..n
      PROVE  b + j \in 1..Len(head) /\ head[b + j] = headers[j]
  <2>1. b + j \in 1..b + n /\ b + j \in 1..Len(head) /\ ~ (b + j <= b) /\ (b + j) - b = j
    BY <1>1, <1>4
  <2> QED  BY <1>3, <1>4, <2>1
<1> HIDE DEF n
<1>7. \A i \in 1..Len(head) : head[i] # << >>
  BY <1>5 DEF Harmless, n
<1>8. ASSUME NEW name, \A l : Harmless(l) => ~ StartsWith(l, name)
      PROVE  HasHeader(head, name) <=> HasHeader(headers, name)
  <2>1. ASSUME NEW i \in 1..Len(head), StartsWith(head[i], name)
        PROVE  \E j \in 1..n : StartsWith(headers[j], name)
    BY <1>5, <1>8, <2>1
  <2>2. ASSUME NEW j \in 1..n, StartsWith(headers[j], name)
        PROVE  \E i \in 1..Len(head) : StartsWith(head[i], name)
    BY <1>6, <2>2
  <2> QED  BY <2>1, <2>2 DEF HasHeader, n
<1>9. HasHeader(head, From) <=> HasHeader(headers, From)
  <2> DEFINE name == From
  <2>1. \A l : Harmless(l) => ~ StartsWith(l, name)
    BY DEF Harmless
  <2> HIDE DEF name
  <2>2. HasHeader(head, name) <=> HasHeader(headers, name)
    BY <1>8, <2>1
  <2> QED  BY <2>2 DEF name
<1>10. HasHeader(head, EmptyID) <=> HasHeader(headers, EmptyID)
  <2> DEFINE name == EmptyID
  <2>1. \A l : Harmless(l) => ~ StartsWith(l, name)
    BY DEF Harmless
  <2> HIDE DEF name
  <2>2. HasHeader(head, name) <=> HasHeader(headers, name)
    BY <1>8, <2>1
  <2> QED  BY <2>2 DEF name
<1>11. (\A i \in 1..Len(head) : Len(head[i]) < MaxScan) <=> \A j \in 1..n : Len(headers[j]) < MaxScan
  <2>1. ASSUME \A i \in 1..Len(head) : Len(head[i]) < MaxScan, NEW j \in 1..n
        PROVE  Len(headers[j]) < MaxScan
    <3>1. Len(head[b + j]) < MaxScan
      BY <1>6, <2>1
    <3> QED  BY <1>6, <3>1
  <2>2. ASSUME \A j \in 1..n : Len(headers[j]) < MaxScan, NEW i \in 1..Len(head)
        PROVE  Len(head[i]) < MaxScan
    BY <1>5, <2>2 DEF Harmless
  <2> QED  BY <2>1, <2>2
<1>12. Complete(head) <=> Complete(headers)
  BY <1>9, <1>10, <1>11 DEF Complete, n
<1> QED  BY <1>4, <1>7, <1>12 DEF head, both, xref

\* The replies of a file that was written of a text.
LEMMA FileReplies ==
  ASSUME NEW before \in Seq(Line), \A i \in 1..Len(before) : Harmless(before[i]),
         NEW text \in Seq(Line)
  PROVE  LET meant == Meant(text)
             file == Written(before \o meant.headers, << <<Xref>> >>, meant.body)
             head == before \o meant.headers \o << <<Xref>> >> IN
         /\ Loads(file) <=> Complete(meant.headers)
         /\ Loads(file) =>
              /\ \A c \in {"ARTICLE", "HEAD", "BODY"} : \A l \in ToSet(Reply(c, file)) : l # <<Dot>>
              /\ Received(Reply("ARTICLE", file)) = UpToOverlong(head \o << << >> >> \o meant.body)
              /\ Received(Reply("HEAD", file)) = UpToOverlong(head)
              /\ Received(Reply("BODY", file)) = << << >> >> \o UpToOverlong(meant.body)
<1> DEFINE headers == Meant(text).headers
           body == Meant(text).body
           head == before \o headers \o << <<Xref>> >>
           file == Written(before \o headers, << <<Xref>> >>, body)
<1>1. /\ headers \in Seq(Line) /\ body \in Seq(Line)
      /\ \A i \in 1..Len(headers) : headers[i] # << >>
  BY MeantHeaders
<1>2. file = head \o << << >> >> \o body
  BY DEF Written
<1> HIDE DEF headers, body
<1>3. /\ head \in Seq(Line) /\ \A i \in 1..Len(head) : head[i] # << >>
      /\ Complete(head) <=> Complete(headers)
  BY <1>1, Around
<1> HIDE DEF head, file
<1>4. /\ Loads(file) <=> Complete(head)
      /\ Complete(head) =>
           /\ \A c \in {"ARTICLE", "HEAD", "BODY"} : \A l \in ToSet(Reply(c, file)) : l # <<Dot>>
           /\ Received(Reply("ARTICLE", file)) = UpToOverlong(head \o << << >> >> \o body)
           /\ Received(Reply("HEAD", file)) = UpToOverlong(head)
           /\ Received(Reply("BODY", file)) = << << >> >> \o UpToOverlong(body)
  BY <1>1, <1>2, <1>3, Replies
<1> QED  BY <1>3, <1>4 DEF head, file, headers, body

\* What was posted or mailed, and nothing else, comes back: every file that POST and
\* the gateway write (Post in group.go) is one of a text that was answered as kept,
\* in the order they came. Load (article.go) accepts it if and only if its sender gave it
\* complete headers; then ARTICLE, HEAD and BODY (SendArticle) send of it the lines that
\* were sent, cut as SendArticle cuts them, BODY after an empty one, and no line that a
\* client would take for the end.
THEOREM ComesBackWhole ==
  ASSUME WellBegun, MaxLine > 1
  PROVE  Spec => []ComesBack
<1>1. Init => AnswersInv
  BY InitAnswers
<1>2. AnswersInv /\ [Next]_vars => AnswersInv'
  BY NextAnswers
<1>3. AnswersInv => ComesBack
  <2> SUFFICES ASSUME AnswersInv, ~ failed PROVE ComesBack
    BY DEF ComesBack
  <2>1. Typed /\ Outcome /\ Recorded /\ Framed
    BY DEF AnswersInv, FramedInv
  <2>2. {files[k].of : k \in 1..Len(files)} = {i \in 1..Len(heard) : answer[i] \in Kept}
    BY <2>1 DEF Recorded
  <2>3. \A k \in 1..Len(files) : \A m \in 1..k - 1 : files[m].of < files[k].of
    BY <2>1 DEF Recorded
  <2>4. ASSUME NEW k \in 1..Len(files)
        PROVE  LET file == files[k].lines
                   text == Meant(sent[files[k].of].text)
                   before == IF at = "cc" \/ exit # "none"
                               THEN << <<Newsgroups>>, <<Gateway>> >> ELSE << >>
                   head == before \o text.headers \o << <<Xref>> >> IN
               /\ Loads(file) <=> Complete(text.headers)
               /\ Loads(file) =>
                    /\ \A c \in {"ARTICLE", "HEAD", "BODY"} : \A l \in ToSet(Reply(c, file)) : l # <<Dot>>
                    /\ Received(Reply("ARTICLE", file)) = UpToOverlong(head \o << << >> >> \o text.body)
                    /\ Received(Reply("HEAD", file)) = UpToOverlong(head)
                    /\ Received(Reply("BODY", file)) = << << >> >> \o UpToOverlong(text.body)
    <3> DEFINE i == files[k].of
               text == sent[i].text
               before == IF at = "cc" \/ exit # "none"
                           THEN << <<Newsgroups>>, <<Gateway>> >> ELSE << >>
    <3>1. i \in 1..Len(heard) /\ files[k] = KeptFile(i)
      BY <2>1 DEF Recorded
    <3>2. text \in Seq(Line)
      <4>1. sent \in Seq(Item) /\ i \in 1..Len(sent)
        BY <2>1, <3>1, Counted
      <4>2. sent[i] \in Item
        BY <4>1, ElementOfSeq
      <4> QED  BY <4>2 DEF Item
    <3>3. at # "mail"
      <4>1. at = "mail" => Len(files) = 0
        BY <2>1 DEF Outcome
      <4> QED  BY <4>1
    <3>4. before = IF ByMail THEN Before ELSE << >>
      BY <3>3 DEF ByMail, Before
    <3>5. before \in Seq(Line) /\ \A j \in 1..Len(before) : Harmless(before[j])
      <4>1. CASE before = << >>
        BY <4>1
      <4>2. CASE before = << <<Newsgroups>>, <<Gateway>> >>
        <5> DEFINE n == <<Newsgroups>>
                   g == <<Gateway>>
        <5>1. n \in Line /\ g \in Line /\ Harmless(n) /\ Harmless(g)
          BY AddedHarmless
        <5>2. before = <<n, g>>
          BY <4>2
        <5> HIDE DEF n, g, before
        <5> QED  BY <5>1, <5>2
      <4> QED  BY <4>1, <4>2
    <3> HIDE DEF before
    <3>6. files[k].lines = Written(before \o Meant(text).headers, << <<Xref>> >>, Meant(text).body)
      BY <3>1, <3>4 DEF KeptFile, FileOf
    <3> DEFINE head == before \o Meant(text).headers \o << <<Xref>> >>
               file == files[k].lines
    <3>7. /\ Loads(file) <=> Complete(Meant(text).headers)
          /\ Loads(file) =>
               /\ \A c \in {"ARTICLE", "HEAD", "BODY"} : \A l \in ToSet(Reply(c, file)) : l # <<Dot>>
               /\ Received(Reply("ARTICLE", file)) = UpToOverlong(head \o << << >> >> \o Meant(text).body)
               /\ Received(Reply("HEAD", file)) = UpToOverlong(head)
               /\ Received(Reply("BODY", file)) = << << >> >> \o UpToOverlong(Meant(text).body)
      <4> HIDE DEF text
      <4> QED  BY <3>2, <3>5, <3>6, FileReplies
    <3> QED  BY <3>7 DEF before
  <2> QED  BY <2>2, <2>3, <2>4 DEF ComesBack
<1> QED  BY <1>1, <1>2, <1>3, PTL DEF Spec

=============================================================================
