----------------------------- MODULE Submission -----------------------------
(***************************************************************************)
(* An article on its way into a group and out again, byte by byte: the     *)
(* line and body readers of a connection and the checks of POST            *)
(* (internal/nntp/server.go), and the mail gateway                         *)
(* (cmd/gonewsd/main.go).                                                  *)
(*                                                                         *)
(* The bytes that a client or a mailer is going to send are chosen in the  *)
(* beginning. They may come late, stop coming, or end anywhere. Rights and *)
(* cancel messages are the subject of Session and Spool; the file that is  *)
(* written is the whole of Post here.                                      *)
(***************************************************************************)
EXTENDS ArticleText, FiniteSetsExt

CONSTANTS
  Talks,        \* what clients send: sequences of commands, texts for POST
  Mails,        \* what mailers send: texts
  PostLimit,    \* postlimit of the group; 0 means none
  CCPost,       \* whether ccpost of the group is set
  MaxLine,      \* 4096: longer commands are two
  MaxPostSize   \* bytes in the body of a POST

POST == "P"
GROUP == "G"
Newsgroups == "N"
Gateway == "W"  \* X-Mail-To-News-Gateway:
Xref == "X"     \* the headers that Post adds

Byte == {CR, LF, Dot, POST, GROUP, Newsgroups, From, EmptyID, Gateway, Xref, "a"}

ASSUME SubmissionAssumption ==
  /\ PostLimit \in Nat /\ CCPost \in BOOLEAN
  /\ MaxLine \in Nat \ {0} /\ MaxPostSize \in Nat
  /\ Talks \subseteq Seq([command : {POST, GROUP}, text : Seq(Seq(Byte \ {CR, LF}))])
  /\ Mails \subseteq Seq(Seq(Byte \ {CR, LF}))

VARIABLES
  sent,      \* what the sender means: a talk, or one mail
  rest,      \* the bytes not yet read
  link,      \* "open", "silent" or "closed" by the sender
  at,        \* what the program reads or does
  line, skip,            \* readLineRaw
  mode, msg,             \* readPostBodyRaw; msg also of the gateway
  selected,  \* the current group is the group
  count, toolong,        \* the gateway's linechars, linecount and toolong
  exit,      \* the gateway's exit status
  heard,     \* history: the commands and texts as the program took them
  answer,    \* history: what came of each
  files,     \* history: the files that were written, and of which of heard
  failed     \* history: the body of a POST could not be read

input == <<rest, link>>
reader == <<line, skip, mode, msg>>
gateway == <<count, toolong, exit>>
history == <<heard, answer, files, failed>>
vars == <<sent, input, at, reader, selected, gateway, history>>

-----------------------------------------------------------------------------
(* The senders (external).                                                 *)

Crlf == <<CR, LF>>

Wire(lines, eol) == FlattenSeq([i \in 1..Len(lines) |-> lines[i] \o eol])

Escaped(l) == IF StartsWith(l, Dot) THEN <<Dot>> \o l ELSE l

\* A text is sent with dots before dots and a dot in the end (RFC 3977 3.1.1).
ItemWire(item, eol) ==
  <<item.command>> \o eol \o
    IF item.command = POST
      THEN Wire([i \in 1..Len(item.text) |-> Escaped(item.text[i])], eol) \o <<Dot>> \o eol
      ELSE << >>

TalkWire(talk, eol) == FlattenSeq([i \in 1..Len(talk) |-> ItemWire(talk[i], eol)])

\* The last line of a mail may lack its end.
MailWires(text, eol) ==
  {Wire(text, eol)} \cup
    IF text # << >> /\ text[Len(text)] # << >>
      THEN {Wire(SubSeq(text, 1, Len(text) - 1), eol) \o text[Len(text)]}
      ELSE {}

Init ==
  /\ \E eol \in {Crlf, <<LF>>} :
       \/ /\ sent \in Talks
          /\ rest = TalkWire(sent, eol)
          /\ at = "command"
          /\ msg = << >>
       \/ \E text \in Mails :
            /\ sent = <<[command |-> POST, text |-> text]>>
            /\ rest \in MailWires(text, eol)
            /\ at = "mail"
            /\ msg = <<Newsgroups, CR, LF, Gateway, CR, LF>>
  /\ link = "open"
  /\ line = << >> /\ skip = FALSE
  /\ mode = "normal"
  /\ selected = FALSE
  /\ count = NoLines /\ toolong = FALSE
  /\ exit = "none"
  /\ heard = << >> /\ answer = << >> /\ files = << >>
  /\ failed = FALSE

\* The sender is slow, goes on, or is gone before he has sent all.
Pause ==
  /\ link = "open" /\ at # "mail"
  /\ link' = "silent"
  /\ UNCHANGED <<sent, rest, at, reader, selected, gateway, history>>

Resume ==
  /\ link = "silent"
  /\ link' = "open"
  /\ UNCHANGED <<sent, rest, at, reader, selected, gateway, history>>

HangUp ==
  /\ link = "open" /\ at # "mail"
  /\ link' = "closed"
  /\ rest' = << >>
  /\ UNCHANGED <<sent, at, reader, selected, gateway, history>>

-----------------------------------------------------------------------------
(* Commands.                                                               *)

Arrives == link = "open" /\ rest # << >>

\* The sender has closed, or is done and closes.
Eof == link # "silent" /\ rest = << >>

EndOfLine(c) == skip \/ c = LF

\* readLineRaw: a CR and any byte after it, a LF, or too many bytes end a line.
ReadLine ==
  /\ at = "command" /\ Arrives
  /\ rest' = Tail(rest)
  /\ LET c == Head(rest)
         full == c # CR /\ Len(line) + 1 = MaxLine IN
     \/ /\ EndOfLine(c)
        /\ at' = "dispatch" /\ skip' = FALSE
        /\ UNCHANGED line
     \/ /\ ~ EndOfLine(c)
        /\ skip' = (c = CR)
        /\ line' = IF c = CR THEN line ELSE Append(line, c)
        /\ at' = IF full THEN "dispatch" ELSE at
  /\ UNCHANGED <<sent, link, mode, msg, selected, gateway, history>>

\* The command Timeout, when it is set, or the end.
ReadLineFails ==
  /\ at = "command" /\ (Eof \/ link = "silent")
  /\ at' = "gone"
  /\ UNCHANGED <<sent, input, reader, selected, gateway, history>>

Heard(command, text, code) ==
  /\ heard' = Append(heard, [command |-> command, headers |-> text.headers, body |-> text.body])
  /\ answer' = Append(answer, code)

NoText == [headers |-> << >>, body |-> << >>]

Blank ==
  /\ at = "dispatch" /\ line = << >>
  /\ at' = "command"
  /\ UNCHANGED <<sent, input, reader, selected, gateway, history>>

SelectGroup ==
  /\ at = "dispatch" /\ line = <<GROUP>>
  /\ selected' = TRUE
  /\ line' = << >>
  /\ at' = "command"
  /\ Heard(GROUP, NoText, "211")
  /\ UNCHANGED <<sent, input, skip, mode, msg, gateway, files, failed>>

Unknown ==
  /\ at = "dispatch" /\ line \notin {<< >>, <<GROUP>>, <<POST>>}
  /\ line' = << >>
  /\ at' = "command"
  /\ Heard("unknown", NoText, "500")
  /\ UNCHANGED <<sent, input, skip, mode, msg, selected, gateway, files, failed>>

\* 340, and two minutes for the whole body.
BeginPost ==
  /\ at = "dispatch" /\ line = <<POST>>
  /\ line' = << >>
  /\ mode' = "normal" /\ msg' = << >>
  /\ at' = "body"
  /\ UNCHANGED <<sent, input, skip, selected, gateway, history>>

-----------------------------------------------------------------------------
(* The body of a POST.                                                     *)

DotDropped(c) == c = Dot /\ mode = "crlf"

\* Variant: every line that begins with a dot ends the body.
EndOfBodyAnyDot(c) == mode = "crlfdot"

EndOfBody(c) == c = LF /\ mode = "crlfdot"

NextMode(c) ==
  IF c = LF THEN "crlf" ELSE IF DotDropped(c) THEN "crlfdot" ELSE "normal"

\* Variant: the size is not looked at.
TooBigNever == FALSE

TooBig == Len(msg) > MaxPostSize

ReadBody ==
  /\ at = "body" /\ Arrives /\ ~ TooBig
  /\ rest' = Tail(rest)
  /\ LET c == Head(rest) IN
     \/ c = CR /\ UNCHANGED <<at, mode, msg>>
     \/ c # CR /\ EndOfBody(c) /\ at' = "post" /\ UNCHANGED <<mode, msg>>
     \/ /\ c # CR /\ ~ EndOfBody(c)
        /\ mode' = NextMode(c)
        /\ msg' = IF DotDropped(c) THEN msg ELSE Append(msg, c)
        /\ UNCHANGED at
  /\ UNCHANGED <<sent, link, line, skip, selected, gateway, history>>

\* 441, and what is left of the body is taken for commands.
BodyFails ==
  /\ at' = "command"
  /\ failed' = TRUE
  /\ Heard(POST, NoText, "441")
  /\ UNCHANGED <<sent, link, reader, selected, gateway, files>>

ReadBodyTooBig ==
  /\ at = "body" /\ Arrives /\ TooBig
  /\ rest' = Tail(rest)
  /\ BodyFails

\* Variant: the deadline is not set again for the body.
ExpireNever == FALSE /\ BodyFails /\ UNCHANGED rest

\* The two minutes are over.
Expire == at = "body" /\ link = "silent" /\ BodyFails /\ UNCHANGED rest

ReadBodyEof == at = "body" /\ Eof /\ BodyFails /\ UNCHANGED rest

HasHeader(headers, name) == \E i \in 1..Len(headers) : StartsWith(headers[i], name)

\* The limit is that of the current group, whatever group the article names.
OverLimit(article) ==
  selected /\ PostLimit > 0 /\ CountPostLines(msg) > PostLimit

Refuse(article, code) ==
  /\ Heard(POST, article, code)
  /\ UNCHANGED files

\* Post succeeds, or fails for the reasons that Spool has, before or after it
\* wrote the file; before the limit is looked at, the group's name, its index, the
\* rights and From: may be refused.
Store(article, code) ==
  /\ Heard(POST, article, code)
  /\ files' = Append(files,
       [of    |-> Len(heard) + 1,
        lines |-> Written(article.headers, << <<Xref>> >>, article.body)])

Post ==
  /\ at = "post"
  /\ at' = "command"
  /\ LET article == ParseArticle(msg)
         named == HasHeader(article.headers, Newsgroups) IN
     \/ ~ named /\ Refuse(article, "441 no Newsgroups")
     \/ named /\ Refuse(article, "refused")
     \/ named /\ OverLimit(article) /\ Refuse(article, "411")
     \/ /\ named /\ ~ OverLimit(article)
        /\ \/ Store(article, "240")
           \/ Store(article, "441 index failed")
           \/ Refuse(article, "441 failed")
  /\ UNCHANGED <<sent, input, reader, selected, gateway, failed>>

-----------------------------------------------------------------------------
(* The mail gateway.                                                       *)

ReadMail ==
  /\ at = "mail" /\ rest # << >>
  /\ rest' = Tail(rest)
  /\ LET c == Head(rest)
         n == CountByte(count, c)
         over == PostLimit > 0 /\ n.linecount > PostLimit IN
     \/ c = CR /\ UNCHANGED <<count, toolong, msg>>
     \/ /\ c # CR
        /\ count' = n
        /\ toolong' = (toolong \/ over)
        /\ msg' = IF over THEN msg ELSE msg \o (IF c = LF THEN <<CR, LF>> ELSE <<c>>)
  /\ UNCHANGED <<sent, link, at, line, skip, mode, selected, exit, history>>

ReadMailFails ==
  /\ at = "mail" /\ rest # << >>
  /\ at' = "gone" /\ exit' = "1"
  /\ UNCHANGED <<sent, input, reader, selected, count, toolong, history>>

\* What the gateway takes is the mail without the two headers it put before it.
MailHeard(article, code) ==
  /\ heard' = <<[command |-> POST,
                 headers |-> SubSeq(article.headers, 3, Len(article.headers)),
                 body    |-> article.body]>>
  /\ answer' = <<code>>

MailRefused(article, code) ==
  /\ MailHeard(article, code)
  /\ at' = "gone" /\ exit' = "1"
  /\ UNCHANGED files

MailStored(article, code) ==
  /\ MailHeard(article, code)
  /\ files' = <<[of    |-> 1,
                 lines |-> Written(article.headers, << <<Xref>> >>, article.body)]>>

\* No mail is a loop: the prefixes that are compared are longer than the names.
MailPost ==
  /\ at = "mail" /\ rest = << >>
  /\ LET article == ParseArticle(msg) IN
     \/ toolong /\ MailRefused(article, "too long")
     \/ /\ ~ toolong
        /\ \/ MailRefused(article, "failed")
           \/ MailStored(article, "index failed") /\ at' = "gone" /\ exit' = "1"
           \/ /\ MailStored(article, "posted")
              /\ at' = IF CCPost THEN "cc" ELSE "gone"
              /\ exit' = IF CCPost THEN "none" ELSE "0"
  /\ UNCHANGED <<sent, input, reader, selected, count, toolong, failed>>

\* ccPostToMail. When it fails the gateway logs that with a Logger that was never
\* initialized, and panics.
CcPostToMail ==
  /\ at = "cc"
  /\ at' = "gone"
  /\ exit' \in {"0", "panic"}
  /\ UNCHANGED <<sent, input, reader, selected, count, toolong, history>>

-----------------------------------------------------------------------------
BodyStep == ReadBody \/ ReadBodyTooBig \/ Expire \/ ReadBodyEof

Server ==
  \/ ReadLine \/ ReadLineFails \/ Blank \/ SelectGroup \/ Unknown \/ BeginPost
  \/ BodyStep \/ Post

MailGateway == ReadMail \/ ReadMailFails \/ MailPost \/ CcPostToMail

Gone == at = "gone" /\ UNCHANGED vars

Next == Pause \/ Resume \/ HangUp \/ Server \/ MailGateway \/ Gone

Spec == Init /\ [][Next]_vars

\* The server reads of a body what has come, and the deadline passes.
FairSpec == Spec /\ WF_vars(BodyStep)

-----------------------------------------------------------------------------
(* Properties.                                                             *)

Line == Seq(Byte \ {CR, LF})

\* Types, and the memory that a sender can fill: a command line never grows
\* beyond MaxLine, and the body of a POST by no more than one byte beyond
\* MaxPostSize, however much is sent.
TypeOK ==
  /\ rest \in Seq(Byte) /\ link \in {"open", "silent", "closed"}
  /\ at \in {"command", "dispatch", "body", "post", "mail", "cc", "gone"}
  /\ line \in Line /\ Len(line) <= MaxLine
  /\ skip \in BOOLEAN /\ mode \in {"normal", "crlf", "crlfdot"}
  /\ msg \in Seq(Byte) /\ (at = "body" => Len(msg) <= MaxPostSize + 1)
  /\ selected \in BOOLEAN /\ toolong \in BOOLEAN /\ failed \in BOOLEAN
  /\ count \in [linechars : 0..MaxChars, linecount : Nat]
  /\ exit \in {"none", "0", "1", "panic"}
  /\ heard \in Seq([command : {POST, GROUP, "unknown"}, headers : Seq(Line), body : Seq(Line)])
  /\ Len(answer) = Len(heard)
  /\ files \in Seq([of : Nat, lines : Seq(Line)])

\* What a text means: its headers end at the first empty line.
Meant(text) ==
  LET blank == {i \in 1..Len(text) : text[i] = << >>}
      end == IF blank = {} THEN Len(text) + 1 ELSE Min(blank)
  IN [headers |-> SubSeq(text, 1, end - 1), body |-> SubSeq(text, end + 1, Len(text))]

\* As long as every body could be read, the program takes what comes for what
\* the sender meant, whatever its lines look like: no line of an article for its
\* end or for a command, no command for text, and of no text less or more.
Framed ==
  ~ failed =>
    /\ Len(heard) <= Len(sent)
    /\ \A i \in 1..Len(heard) :
         /\ heard[i].command = sent[i].command
         /\ (sent[i].command = POST /\ answer[i] # "too long") =>
              /\ heard[i].headers = Meant(sent[i].text).headers
              /\ heard[i].body = Meant(sent[i].text).body

\* Lines by the rule of newsd: each begun MaxChars + 1 characters, the end of the
\* line among them, are one.
LinesOf(text) ==
  LET upto[i \in 0..Len(text)] ==
        IF i = 0 THEN 0 ELSE upto[i - 1] + 1 + Len(text[i]) \div (MaxChars + 1)
  IN  upto[Len(text)]

TooLong(i) == PostLimit > 0 /\ LinesOf(sent[i].text) > PostLimit

\* The answers that a text allows when it is sent to the server...
Answers(i) ==
  LET limited == \E j \in 1..i - 1 : sent[j].command = GROUP IN
  IF ~ HasHeader(Meant(sent[i].text).headers, Newsgroups) THEN {"441 no Newsgroups"}
  ELSE {"refused"} \cup
    IF limited /\ TooLong(i) THEN {"411"} ELSE {"240", "441 failed", "441 index failed"}

\* ... and by mail, where a last line without an end is not counted.
MailAnswers(i) ==
  LET verdict == {"posted", "failed", "index failed"} IN
  IF ~ TooLong(i) THEN verdict
  ELSE IF LinesOf(sent[i].text) > PostLimit + 1 THEN {"too long"}
  ELSE {"too long"} \cup verdict

\* Both routes apply to a text the rule that it calls for, however it is cut into
\* bytes: the limit is neither exceeded nor applied to less, missing Newsgroups are
\* found in the headers only; and what the gateway reports as done was posted.
Judged ==
  /\ exit = "0" => answer = <<"posted">> /\ Len(files) = 1
  /\ ~ failed => \A i \in 1..Len(heard) : heard[i].command = POST =>
       answer[i] \in IF at \in {"mail", "cc"} \/ exit # "none" THEN MailAnswers(i) ELSE Answers(i)

Kept == {"240", "441 index failed", "posted", "index failed"}

\* Headers with which a client can get the article again.
Complete(headers) ==
  /\ HasHeader(headers, From) /\ ~ HasHeader(headers, EmptyID)
  /\ \A i \in 1..Len(headers) : Len(headers[i]) < MaxScan

\* What a client makes of a reply: it ends at a dot, other dots are doubled.
Unstuffed(l) == IF StartsWith(l, Dot) THEN Tail(l) ELSE l

Received(reply) == [i \in 1..Len(reply) |-> Unstuffed(reply[i])]

\* A reply as long as the scanner gets on, its lines cut.
UpToOverlong(lines) ==
  LET over == {i \in 1..Len(lines) : Len(lines[i]) >= MaxScan}
      end == IF over = {} THEN Len(lines) ELSE Min(over) - 1
  IN [i \in 1..end |-> Cut(lines[i])]

\* Of what was posted or mailed, and of nothing else, there is a file, in the order it
\* came. It can be loaded if its sender has given it From:, no empty Message-ID: and
\* no header that is overlong, whatever its body looks like, and otherwise never. If it
\* can, ARTICLE sends the headers, with those that were added, and the body, every line
\* as it was sent or cut, up to one of the body that is overlong; HEAD and BODY are its
\* two parts, BODY after an empty line; and no reply ends early.
ComesBack ==
  ~ failed =>
    /\ {files[k].of : k \in 1..Len(files)} = {i \in 1..Len(heard) : answer[i] \in Kept}
    /\ \A k \in 1..Len(files) : \A m \in 1..k - 1 : files[m].of < files[k].of
    /\ \A k \in 1..Len(files) :
         LET file == files[k].lines
             text == Meant(sent[files[k].of].text)
             before == IF at = "cc" \/ exit # "none" THEN << <<Newsgroups>>, <<Gateway>> >> ELSE << >>
             head == before \o text.headers \o << <<Xref>> >> IN
         /\ Loads(file) <=> Complete(text.headers)
         /\ Loads(file) =>
              /\ \A c \in {"ARTICLE", "HEAD", "BODY"} : \A l \in ToSet(Reply(c, file)) : l # <<Dot>>
              /\ Received(Reply("ARTICLE", file)) = UpToOverlong(head \o << << >> >> \o text.body)
              /\ Received(Reply("HEAD", file)) = UpToOverlong(head)
              /\ Received(Reply("BODY", file)) = << << >> >> \o UpToOverlong(text.body)

\* Nobody holds the server in a body for ever: it ends, or the sender is silent
\* until the deadline, or he is gone.
BodyEnds == at = "body" ~> at # "body"

=============================================================================
