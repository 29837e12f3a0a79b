----------------------------- MODULE ArticleText -----------------------------
(***************************************************************************)
(* The text of an article on its way: parsed from the bytes of a message   *)
(* (internal/group/group.go), counted against the limit of the group       *)
(* (internal/nntp/server.go), written to a file, loaded and sent from      *)
(* there (internal/article/article.go).                                    *)
(*                                                                         *)
(* A byte is CR, LF, a dot, or stands for the whole text of a header or of *)
(* a command; a line is a sequence of bytes without CR and LF, and a file  *)
(* a sequence of lines.                                                    *)
(***************************************************************************)
EXTENDS Naturals, Sequences, SequencesExt

CONSTANTS
  MaxChars, \* 80: characters that count as one line
  MaxSend,  \* lineLen - 4: longer lines are cut
  MaxScan   \* 64 * 1024: a line that does not fit the scanner's buffer ends it

ASSUME TextAssumption ==
  MaxChars \in Nat /\ MaxSend \in Nat \ {0} /\ MaxScan \in Nat /\ MaxScan > MaxSend

CR == "CR"
LF == "LF"
Dot == "."
From == "F"    \* From: with a value
EmptyID == "I" \* Message-ID: without one, to which Post adds no other

StartsWith(line, byte) == line # << >> /\ line[1] = byte

-----------------------------------------------------------------------------

\* One byte in the loop of ParseArticle.
ParseByte(p, c) ==
  LET add == IF p.inHeader THEN [p EXCEPT !.headers = Append(@, p.line)]
                           ELSE [p EXCEPT !.body = Append(@, p.line)]
  IN CASE c = CR -> p
       [] c = LF /\ p.inHeader /\ p.line = << >> -> [p EXCEPT !.inHeader = FALSE]
       [] c = LF /\ ~ (p.inHeader /\ p.line = << >>) -> [add EXCEPT !.line = << >>]
       [] OTHER -> [p EXCEPT !.line = Append(@, c)]

\* Headers and body of a message; a last line without LF counts.
ParseArticle(msg) ==
  LET after[i \in 0..Len(msg)] ==
        IF i = 0
          THEN [headers |-> << >>, body |-> << >>, line |-> << >>, inHeader |-> TRUE]
          ELSE ParseByte(after[i - 1], msg[i])
      p == after[Len(msg)]
      last == IF p.line = << >> THEN << >> ELSE <<p.line>>
  IN IF p.inHeader THEN [headers |-> p.headers \o last, body |-> << >>]
                   ELSE [headers |-> p.headers, body |-> p.body \o last]

\* Variant: a line is full one character earlier.
CountByteFull(n, c) ==
  IF c = LF \/ n.linechars + 1 >= MaxChars
    THEN [linechars |-> 0, linecount |-> n.linecount + 1]
    ELSE [n EXCEPT !.linechars = @ + 1]

\* The counting in the loops of countPostLines and of the mail gateway.
CountByte(n, c) ==
  IF c = LF \/ n.linechars + 1 > MaxChars
    THEN [linechars |-> 0, linecount |-> n.linecount + 1]
    ELSE [n EXCEPT !.linechars = @ + 1]

NoLines == [linechars |-> 0, linecount |-> 0]

CountPostLines(msg) ==
  LET after[i \in 0..Len(msg)] == IF i = 0 THEN NoLines ELSE CountByte(after[i - 1], msg[i])
      n == after[Len(msg)]
  IN n.linecount + IF n.linechars > 0 THEN 1 ELSE 0

-----------------------------------------------------------------------------

\* The file that Post writes: added are the lines it adds to the headers.
Written(headers, added, body) == headers \o added \o << << >> >> \o body

Cut(line) == IF Len(line) > MaxSend THEN SubSeq(line, 1, MaxSend) ELSE line

\* Variant: only a line that is a dot gets another.
StuffedLoneDot(line) == IF line = <<Dot>> THEN <<Dot>> \o line ELSE line

Stuffed(line) == IF StartsWith(line, Dot) THEN <<Dot>> \o line ELSE line

\* One line of the file in the loop of SendArticle.
SendLine(s, text, sendHead, sendBody) ==
  LET line == Cut(text)
      mode == IF s.mode = "sep" THEN "body" ELSE s.mode
      send == (mode = "head" /\ sendHead) \/ (mode = "body" /\ sendBody)
  IN IF s.done \/ Len(text) >= MaxScan THEN [s EXCEPT !.done = TRUE]
     ELSE IF mode = "head" /\ line = << >>
       THEN [mode |-> "sep",
             done |-> ~ sendBody,
             out  |-> IF sendHead /\ sendBody THEN Append(s.out, << >>) ELSE s.out]
       ELSE [s EXCEPT !.mode = mode,
                      !.out = IF send THEN Append(@, Stuffed(line)) ELSE @]

\* The lines that ARTICLE (both), HEAD or BODY send of a file.
SendArticle(file, sendHead, sendBody) ==
  LET after[i \in 0..Len(file)] ==
        IF i = 0
          THEN [mode |-> "head", done |-> FALSE, out |-> << >>]
          ELSE SendLine(after[i - 1], file[i], sendHead, sendBody)
  IN after[Len(file)].out

\* The header lines that Load reads: those before the first empty line.
HeadLines(file) ==
  {file[i] : i \in {j \in 1..Len(file) : \A k \in 1..j : file[k] # << >>}}

\* Load, of a file that is there: otherwise ARTICLE, HEAD and BODY answer 430.
Loads(file) ==
  /\ \A l \in HeadLines(file) : Len(l) < MaxScan /\ ~ StartsWith(l, EmptyID)
  /\ \E l \in HeadLines(file) : StartsWith(l, From)

\* The lines that follow 220, 221 or 222, up to the final dot.
Reply(command, file) ==
  CASE command = "ARTICLE" -> SendArticle(file, TRUE, TRUE)
    [] command = "HEAD" -> SendArticle(file, TRUE, FALSE)
    [] command = "BODY" -> << << >> >> \o SendArticle(file, FALSE, TRUE)

=============================================================================
