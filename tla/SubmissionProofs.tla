-------------------------- MODULE SubmissionProofs --------------------------
(***************************************************************************)
(* Proofs about Submission and ArticleText.                                *)
(***************************************************************************)
EXTENDS Submission, RecursionProofs, SequenceTheorems

Parser == [headers : Seq(Line), body : Seq(Line), line : Line, inHeader : BOOLEAN]

NewParser == [headers |-> << >>, body |-> << >>, line |-> << >>, inHeader |-> TRUE]

\* The states of the loop of ParseArticle.
Parsed(text) ==
  LET after[i \in 0..Len(text)] ==
        IF i = 0 THEN NewParser ELSE ParseByte(after[i - 1], text[i])
  IN  after

LEMMA ParserByte ==
  ASSUME NEW p \in Parser, NEW c \in Byte
  PROVE  ParseByte(p, c) \in Parser
<1>1. CASE c = CR
  BY <1>1 DEF ParseByte, CR, LF
<1>2. CASE c = LF /\ p.inHeader /\ p.line = << >>
  BY <1>2 DEF ParseByte, Parser, CR, LF
<1>3. CASE c = LF /\ ~ (p.inHeader /\ p.line = << >>)
  <2>1. Append(p.headers, p.line) \in Seq(Line) /\ Append(p.body, p.line) \in Seq(Line)
    BY DEF Parser
  <2>2. << >> \in Line
    BY DEF Line
  <2> QED  BY <1>3, <2>1, <2>2 DEF ParseByte, Parser, CR, LF
<1>4. CASE c \notin {CR, LF}
  <2>1. Append(p.line, c) \in Line
    BY <1>4 DEF Parser, Line
  <2> QED  BY <1>4, <2>1 DEF ParseByte, Parser
<1> QED  BY <1>1, <1>2, <1>3, <1>4

LEMMA ParsedStates ==
  ASSUME NEW text \in Seq(Byte)
  PROVE  /\ Parsed(text) \in [0..Len(text) -> Parser]
         /\ Parsed(text)[0] = NewParser
         /\ \A i \in 1..Len(text) : Parsed(text)[i] = ParseByte(Parsed(text)[i - 1], text[i])
<1> DEFINE step == [x \in Parser \X (1..Len(text)) |-> ParseByte(x[1], text[x[2]])]
<1>1. step \in [Parser \X (1..Len(text)) -> Parser]
  BY ParserByte
<1>2. NewParser \in Parser
  BY DEF NewParser, Parser, Line
<1>3. PICK g : Values(g, Parser, NewParser, Len(text), step)
  <2>1. Steps(Parser, NewParser, Len(text), step)
    BY <1>1, <1>2 DEF Steps
  <2> HIDE DEF step
  <2> QED  BY <2>1, ValuesExist
<1>4. \A i \in 1..Len(text) : g[i] = ParseByte(g[i - 1], text[i])
  <2> TAKE i \in 1..Len(text)
  <2>1. \A p \in Parser : step[<<p, i>>] = ParseByte(p, text[i])
    OBVIOUS
  <2> HIDE DEF step
  <2>2. i - 1 \in 0..Len(text)
    OBVIOUS
  <2>3. g[i] = step[<<g[i - 1], i>>] /\ g[i - 1] \in Parser
    BY <1>3, <2>2 DEF Values
  <2> QED  BY <2>1, <2>3
<1>5. g = [i \in 0..Len(text) |-> IF i = 0 THEN NewParser ELSE ParseByte(g[i - 1], text[i])]
  BY <1>3, <1>4 DEF Values
<1>6. Parsed(text) = [i \in 0..Len(text) |->
        IF i = 0 THEN NewParser ELSE ParseByte(Parsed(text)[i - 1], text[i])]
  BY <1>5 DEF Parsed
<1>7. /\ Parsed(text)[0] = NewParser
      /\ \A i \in 1..Len(text) : Parsed(text)[i] = ParseByte(Parsed(text)[i - 1], text[i])
  BY <1>6
<1> DEFINE S == {i \in Nat : i <= Len(text) => Parsed(text)[i] \in Parser}
<1>8. S = Nat
  <2>1. 0 \in S
    BY <1>7, <1>2
  <2>2. \A n \in S : n + 1 \in S
    BY <1>7, ParserByte
  <2> QED  BY <2>1, <2>2, Induction
<1>9. Parsed(text) \in [0..Len(text) -> Parser]
  <2>1. \A i \in 0..Len(text) : i \in S
    BY <1>8
  <2>2. \A i \in 0..Len(text) : Parsed(text)[i] \in Parser
    BY <2>1
  <2> QED  BY <1>6, <2>2
<1> QED  BY <1>7, <1>9

\* What the loop has when the bytes are at their end.
After(text) == Parsed(text)[Len(text)]

LEMMA AfterTyped ==
  ASSUME NEW text \in Seq(Byte)
  PROVE  After(text) \in Parser
<1>1. Len(text) \in 0..Len(text)
  OBVIOUS
<1> QED  BY <1>1, ParsedStates DEF After

LEMMA AfterNothing == After(<< >>) = NewParser
<1>1. << >> \in Seq(Byte) /\ Len(<< >>) = 0
  OBVIOUS
<1> QED  BY <1>1, ParsedStates DEF After

\* One byte more is one step of the loop more.
LEMMA AfterAppend ==
  ASSUME NEW text \in Seq(Byte), NEW c \in Byte
  PROVE  After(Append(text, c)) = ParseByte(After(text), c)
<1> DEFINE more == Append(text, c)
<1>1. /\ more \in Seq(Byte) /\ Len(more) = Len(text) + 1 /\ Len(text) \in Nat
      /\ more[Len(text) + 1] = c /\ \A i \in 1..Len(text) : more[i] = text[i]
  BY AppendProperties, LenProperties
<1> HIDE DEF more
<1>2. /\ Parsed(text)[0] = NewParser
      /\ \A i \in 1..Len(text) : Parsed(text)[i] = ParseByte(Parsed(text)[i - 1], text[i])
  BY ParsedStates
<1>3. /\ Parsed(more)[0] = NewParser
      /\ \A i \in 1..Len(more) : Parsed(more)[i] = ParseByte(Parsed(more)[i - 1], more[i])
  BY <1>1, ParsedStates
<1> DEFINE S == {i \in Nat : i <= Len(text) => Parsed(more)[i] = Parsed(text)[i]}
<1>4. S = Nat
  <2>1. 0 \in S
    BY <1>2, <1>3
  <2>2. \A n \in S : n + 1 \in S
    <3> SUFFICES ASSUME NEW n \in S, n + 1 <= Len(text)
                 PROVE  Parsed(more)[n + 1] = Parsed(text)[n + 1]
      OBVIOUS
    <3>1. n \in Nat /\ n + 1 \in 1..Len(text) /\ n + 1 \in 1..Len(more) /\ (n + 1) - 1 = n
      BY <1>1
    <3>2. Parsed(more)[n] = Parsed(text)[n]
      BY <3>1
    <3> QED  BY <1>1, <1>2, <1>3, <3>1, <3>2
  <2> QED  BY <2>1, <2>2, Induction
<1>5. Parsed(more)[Len(text)] = Parsed(text)[Len(text)]
  BY <1>1, <1>4
<1>6. Parsed(more)[Len(more)] = ParseByte(Parsed(more)[Len(text)], c)
  BY <1>1, <1>3
<1> QED  BY <1>5, <1>6 DEF After, more

LEMMA ArticleParsed ==
  ASSUME NEW text
  PROVE  LET p == After(text)
             last == IF p.line = << >> THEN << >> ELSE <<p.line>>
         IN  ParseArticle(text) =
              IF p.inHeader THEN [headers |-> p.headers \o last, body |-> << >>]
                   ELSE [headers |-> p.headers, body |-> p.body \o last]
BY DEF ParseArticle, Parsed, NewParser, After

\* ParseArticle returns lines without CR and LF.
LEMMA ArticleTyped ==
  ASSUME NEW text \in Seq(Byte)
  PROVE  ParseArticle(text) \in [headers : Seq(Line), body : Seq(Line)]
<1> DEFINE p == After(text)
           last == IF p.line = << >> THEN << >> ELSE <<p.line>>
<1>1. p \in Parser
  BY AfterTyped
<1>2. last \in Seq(Line)
  BY <1>1 DEF Parser
<1>3. p.headers \o last \in Seq(Line) /\ p.body \o last \in Seq(Line)
      /\ p.headers \in Seq(Line) /\ << >> \in Seq(Line)
  BY <1>1, <1>2, ConcatProperties DEF Parser
<1> HIDE DEF last, p
<1>4. ParseArticle(text) = IF p.inHeader THEN [headers |-> p.headers \o last, body |-> << >>]
                   ELSE [headers |-> p.headers, body |-> p.body \o last]
  BY ArticleParsed DEF p, last
<1> QED  BY <1>3, <1>4

-----------------------------------------------------------------------------
(* Sequences of sequences of bytes, one after the other.                    *)

LEMMA Joined ==
  /\ \A a, b \in Seq(Byte) : a \o b \in Seq(Byte)
  /\ \A a \in Seq(Byte) : a \o << >> = a /\ << >> \o a = a
  /\ << >> \in Seq(Byte)
BY ConcatProperties, ConcatEmptySeq

\* Named, so that the provers need not look for instances among all sequences.
Regroups(a, b, c) == (a \o b) \o c = a \o (b \o c)

LEMMA Associative ==
  \A a, b, c \in Seq(Byte) : Regroups(a, b, c)
BY ConcatAssociative DEF Regroups

Regroups4(a, b, c, d) == ((a \o b) \o c) \o d = a \o (b \o (c \o d))

LEMMA Associative4 ==
  \A a, b, c, d \in Seq(Byte) : Regroups4(a, b, c, d)
<1> TAKE a, b, c, d \in Seq(Byte)
<1>1. a \o b \in Seq(Byte) /\ c \o d \in Seq(Byte)
  BY ConcatProperties
<1>2. Regroups(a \o b, c, d) /\ Regroups(a, b, c \o d)
  BY <1>1, Associative
<1> QED  BY Zenon, <1>2 DEF Regroups, Regroups4

\* The states of the loop of FlattenSeq, and what is still to come of s after
\* its first elements, counted from the end.
Flat(s) ==
  LET flatten[i \in 1..Len(s)] == IF i = 1 THEN s[i] ELSE flatten[i - 1] \o s[i]
  IN  flatten

FromEnd(s) ==
  LET last[i \in 0..Len(s)] == IF i = 0 THEN << >> ELSE s[Len(s) - i + 1] \o last[i - 1]
  IN  last

Rest(s, k) == FromEnd(s)[Len(s) - k]

LEMMA RestSteps ==
  ASSUME NEW s, Len(s) \in Nat, \A i \in 1..Len(s) : s[i] \in Seq(Byte)
  PROVE  /\ Rest(s, Len(s)) = << >>
         /\ \A k \in 0..Len(s) - 1 : Rest(s, k) = s[k + 1] \o Rest(s, k + 1)
         /\ \A k \in 0..Len(s) : Rest(s, k) \in Seq(Byte)
<1> DEFINE B == Seq(Byte)
           step == [x \in B \X (1..Len(s)) |-> s[Len(s) - x[2] + 1] \o x[1]]
<1>1. step \in [B \X (1..Len(s)) -> B]
  <2>1. ASSUME NEW b \in B, NEW i \in 1..Len(s)
        PROVE  s[Len(s) - i + 1] \o b \in B
    <3>1. s[Len(s) - i + 1] \in Seq(Byte)
      OBVIOUS
    <3> QED  BY <3>1
  <2> HIDE DEF B
  <2> QED  BY <2>1
<1>2. << >> \in B
  OBVIOUS
<1>3. PICK g : Values(g, B, << >>, Len(s), step)
  <2> HIDE DEF B
  <2>1. Steps(B, << >>, Len(s), step)
    BY <1>1, <1>2 DEF Steps
  <2> HIDE DEF step
  <2> QED  BY <2>1, ValuesExist
<1>4. \A i \in 1..Len(s) : g[i] = s[Len(s) - i + 1] \o g[i - 1] /\ g[i] \in Seq(Byte)
  <2> TAKE i \in 1..Len(s)
  <2>1. \A b \in B : step[<<b, i>>] = s[Len(s) - i + 1] \o b
    OBVIOUS
  <2> HIDE DEF step
  <2>2. i - 1 \in 0..Len(s) /\ i \in 0..Len(s)
    OBVIOUS
  <2>3. g[i] = step[<<g[i - 1], i>>] /\ g[i - 1] \in B /\ g[i] \in B
    BY <1>3, <2>2 DEF Values
  <2> QED  BY <2>1, <2>3
<1> HIDE DEF step
<1>5. g = [i \in 0..Len(s) |-> IF i = 0 THEN << >> ELSE s[Len(s) - i + 1] \o g[i - 1]]
  BY <1>3, <1>4 DEF Values
<1>6. FromEnd(s) = [i \in 0..Len(s) |->
        IF i = 0 THEN << >> ELSE s[Len(s) - i + 1] \o FromEnd(s)[i - 1]]
  BY <1>5 DEF FromEnd
<1>7. FromEnd(s)[0] = << >>
  BY <1>6
<1>8. \A i \in 1..Len(s) : FromEnd(s)[i] = s[Len(s) - i + 1] \o FromEnd(s)[i - 1]
  BY SMTT(30), <1>6
<1>9. \A i \in 0..Len(s) : FromEnd(s)[i] \in Seq(Byte)
  <2> DEFINE S == {i \in Nat : i <= Len(s) => FromEnd(s)[i] \in Seq(Byte)}
  <2>1. 0 \in S
    BY <1>2, <1>7
  <2>2. \A n \in S : n + 1 \in S
    <3> SUFFICES ASSUME NEW n \in S, n + 1 <= Len(s)
                 PROVE  FromEnd(s)[n + 1] \in Seq(Byte)
      OBVIOUS
    <3>1. n \in Nat /\ n + 1 \in 1..Len(s) /\ (n + 1) - 1 = n /\ FromEnd(s)[n] \in Seq(Byte)
      OBVIOUS
    <3>2. s[Len(s) - (n + 1) + 1] \in Seq(Byte)
      BY <3>1
    <3>3. FromEnd(s)[n + 1] = s[Len(s) - (n + 1) + 1] \o FromEnd(s)[n]
      BY <1>8, <3>1
    <3> HIDE DEF S
    <3> QED  BY <3>1, <3>2, <3>3, ConcatProperties
  <2>3. S = Nat
    BY <2>1, <2>2, Induction
  <2> QED  BY <2>3
<1>10. ASSUME NEW k \in 0..Len(s) - 1
       PROVE  Rest(s, k) = s[k + 1] \o Rest(s, k + 1)
  <2>1. Len(s) - k \in 1..Len(s) /\ Len(s) - (Len(s) - k) + 1 = k + 1
        /\ (Len(s) - k) - 1 = Len(s) - (k + 1)
    OBVIOUS
  <2> QED  BY <1>8, <2>1 DEF Rest
<1>11. \A k \in 0..Len(s) : Rest(s, k) \in Seq(Byte)
  BY <1>9 DEF Rest
<1>12. Rest(s, Len(s)) = << >>
  BY <1>7 DEF Rest
<1> QED  BY <1>10, <1>11, <1>12

LEMMA FlatSteps ==
  ASSUME NEW s, Len(s) \in Nat, Len(s) # 0, \A i \in 1..Len(s) : s[i] \in Seq(Byte)
  PROVE  /\ Flat(s)[1] = s[1]
         /\ \A k \in 1..Len(s) - 1 : Flat(s)[k + 1] = Flat(s)[k] \o s[k + 1]
<1> DEFINE B == Seq(Byte)
           step == [x \in B \X (1..Len(s)) |-> x[1] \o s[x[2]]]
<1>1. step \in [B \X (1..Len(s)) -> B]
  <2>1. ASSUME NEW b \in B, NEW i \in 1..Len(s)
        PROVE  b \o s[i] \in B
    <3>1. s[i] \in Seq(Byte)
      OBVIOUS
    <3> QED  BY <3>1
  <2> HIDE DEF B
  <2> QED  BY <2>1
<1>2. << >> \in B
  OBVIOUS
<1>3. PICK g : Values(g, B, << >>, Len(s), step)
  <2> HIDE DEF B
  <2>1. Steps(B, << >>, Len(s), step)
    BY <1>1, <1>2 DEF Steps
  <2> HIDE DEF step
  <2> QED  BY <2>1, ValuesExist
<1>4. \A i \in 1..Len(s) : g[i] = g[i - 1] \o s[i]
  <2> TAKE i \in 1..Len(s)
  <2>1. \A b \in B : step[<<b, i>>] = b \o s[i]
    OBVIOUS
  <2> HIDE DEF step, B
  <2>2. i - 1 \in 0..Len(s)
    OBVIOUS
  <2>3. g[i] = step[<<g[i - 1], i>>] /\ g[i - 1] \in B
    BY <1>3, <2>2 DEF Values
  <2> QED  BY <2>1, <2>3
<1>5. g[1] = s[1]
  <2>1. g[1] = g[0] \o s[1] /\ g[0] = << >>
    <3>1. 1 \in 1..Len(s) /\ 1 - 1 = 0
      OBVIOUS
    <3> HIDE DEF step, B
    <3> QED  BY <1>3, <1>4, <3>1 DEF Values
  <2>2. s[1] \in Seq(Byte)
    OBVIOUS
  <2> QED  BY <2>1, <2>2, ConcatEmptySeq
<1> DEFINE h == [i \in 1..Len(s) |-> g[i]]
<1>6. h = [i \in 1..Len(s) |-> IF i = 1 THEN s[i] ELSE h[i - 1] \o s[i]]
  <2>1. ASSUME NEW i \in 1..Len(s)
        PROVE  h[i] = IF i = 1 THEN s[i] ELSE h[i - 1] \o s[i]
    <3> HIDE DEF B, step
    <3>1. CASE i = 1
      BY <1>5, <3>1
    <3>2. CASE i # 1
      <4>1. i - 1 \in 1..Len(s)
        BY <3>2
      <4>2. h[i] = g[i] /\ h[i - 1] = g[i - 1]
        BY <4>1
      <4> QED  BY <1>4, <3>2, <4>2
    <3> QED  BY <3>1, <3>2
  <2> QED  BY <2>1
<1> HIDE DEF h, B, step
<1>7. Flat(s) = [i \in 1..Len(s) |-> IF i = 1 THEN s[i] ELSE Flat(s)[i - 1] \o s[i]]
  BY <1>6 DEF Flat
<1>8. Flat(s)[1] = s[1]
  <2>1. 1 \in 1..Len(s)
    OBVIOUS
  <2> QED  BY <1>7, <2>1
<1>9. ASSUME NEW k \in 1..Len(s) - 1
      PROVE  Flat(s)[k + 1] = Flat(s)[k] \o s[k + 1]
  <2>1. k + 1 \in 1..Len(s) /\ k + 1 # 1 /\ (k + 1) - 1 = k
    OBVIOUS
  <2> QED  BY <1>7, <2>1
<1> QED  BY <1>8, <1>9

\* FlattenSeq puts together what there is to come.
LEMMA FlattenRest ==
  ASSUME NEW s \in Seq(Seq(Byte))
  PROVE  FlattenSeq(s) = Rest(s, 0)
<1> DEFINE N == Len(s)
<1>1. N \in Nat /\ \A i \in 1..N : s[i] \in Seq(Byte)
  BY LenProperties
<1>2. /\ Rest(s, N) = << >>
      /\ \A k \in 0..N - 1 : Rest(s, k) = s[k + 1] \o Rest(s, k + 1)
      /\ \A k \in 0..N : Rest(s, k) \in Seq(Byte)
  BY <1>1, RestSteps
<1>3. CASE N = 0
  <2>1. s = << >>
    BY <1>3
  <2>2. FlattenSeq(s) = s
    BY <1>3 DEF FlattenSeq
  <2> QED  BY <1>2, <1>3, <2>1, <2>2
<1>4. CASE N # 0
  <2>1. /\ Flat(s)[1] = s[1]
        /\ \A k \in 1..N - 1 : Flat(s)[k + 1] = Flat(s)[k] \o s[k + 1]
    BY <1>1, <1>4, FlatSteps
  <2>2. FlattenSeq(s) = Flat(s)[N]
    BY <1>4 DEF FlattenSeq, Flat
  <2> HIDE DEF N
  <2> DEFINE Part(k) == Flat(s)[k] \in Seq(Byte) /\ Flat(s)[k] \o Rest(s, k) = Rest(s, 0)
             S == {n \in Nat : n + 1 <= N => Part(n + 1)}
  <2>3. Part(1)
    <3>1. PICK k \in 0..N - 1 : k = 0
      BY <1>1, <1>4
    <3>2. k + 1 = 1 /\ 1 \in 1..N
      BY <1>1, <1>4, <3>1
    <3>3. s[1] \in Seq(Byte) /\ Rest(s, 0) = s[1] \o Rest(s, 1)
      BY <1>1, <1>2, <3>1, <3>2
    <3> QED  BY <2>1, <3>3
  <2>4. ASSUME NEW k \in 1..N - 1, Part(k)
        PROVE  Part(k + 1)
    <3>1. k \in 0..N - 1 /\ k + 1 \in 1..N /\ k + 1 \in 0..N
      BY <1>1
    <3>2. Flat(s)[k + 1] = Flat(s)[k] \o s[k + 1] /\ s[k + 1] \in Seq(Byte)
      BY <1>1, <2>1, <3>1
    <3>3. Rest(s, k) = s[k + 1] \o Rest(s, k + 1) /\ Rest(s, k + 1) \in Seq(Byte)
      BY <1>2, <3>1
    <3> HIDE DEF N
    <3>4. (Flat(s)[k] \o s[k + 1]) \o Rest(s, k + 1)
             = Flat(s)[k] \o (s[k + 1] \o Rest(s, k + 1))
      <4>1. Regroups(Flat(s)[k], s[k + 1], Rest(s, k + 1))
        BY <2>4, <3>2, <3>3, Associative
      <4> QED  BY <4>1 DEF Regroups
    <3>5. Flat(s)[k] \o s[k + 1] \in Seq(Byte)
      BY <2>4, <3>2, ConcatProperties
    <3> QED  BY <2>4, <3>2, <3>3, <3>4, <3>5
  <2> HIDE DEF Part
  <2>5. 0 \in S
    BY <2>3
  <2>6. \A n \in S : n + 1 \in S
    <3> SUFFICES ASSUME NEW n \in S, (n + 1) + 1 <= N PROVE Part((n + 1) + 1)
      OBVIOUS
    <3>1. n \in Nat /\ n + 1 \in 1..N - 1 /\ Part(n + 1)
      BY <1>1
    <3> QED  BY <2>4, <3>1
  <2>7. S = Nat
    BY <2>5, <2>6, Induction
  <2>8. Part(N)
    <3>1. N - 1 \in Nat /\ (N - 1) + 1 = N
      BY <1>1, <1>4
    <3>2. N - 1 \in S
      <4> HIDE DEF S
      <4> QED  BY <2>7, <3>1
    <3> QED  BY <1>1, <3>1, <3>2
  <2> QED  BY <1>2, <2>2, <2>8, ConcatEmptySeq DEF Part
<1> QED  BY <1>1, <1>3, <1>4

-----------------------------------------------------------------------------
(* Types.                                                                  *)

Item == [command : {POST, GROUP}, text : Seq(Line)]
Code == {"211", "500", "441", "411", "441 no Newsgroups", "refused", "240",
         "441 index failed", "441 failed", "too long", "failed", "index failed", "posted"}

\* A command line can only be full when it is about to be dispatched.
Typed ==
  /\ TypeOK
  /\ sent \in Seq(Item) /\ answer \in Seq(Code)
  /\ at \in {"command", "body", "post"} => Len(line) < MaxLine

Eol == {Crlf, <<LF>>}

LEMMA BytesAreBytes ==
  /\ Line \subseteq Seq(Byte)
  /\ Eol \subseteq Seq(Byte) /\ <<Dot>> \in Seq(Byte) /\ <<LF>> \in Seq(Byte)
  /\ <<POST>> \in Seq(Byte) /\ <<GROUP>> \in Seq(Byte)
  /\ << >> \in Line /\ <<Xref>> \in Line /\ <<Newsgroups>> \in Line /\ <<Gateway>> \in Line
<1>1. Line \subseteq Seq(Byte)
  BY DEF Line
<1>2. Crlf \in Seq(Byte) /\ <<LF>> \in Seq(Byte)
  BY DEF Crlf, Byte
<1>3. <<Dot>> \in Seq(Byte) /\ <<POST>> \in Seq(Byte) /\ <<GROUP>> \in Seq(Byte)
  BY DEF Byte
<1>4. \A b \in Byte \ {CR, LF} : <<b>> \in Line
  BY DEF Line
<1>5. {Xref, Newsgroups, Gateway} \subseteq Byte \ {CR, LF}
  BY DEF Byte, Xref, Newsgroups, Gateway, CR, LF
<1>6. << >> \in Line
  BY DEF Line
<1> QED  BY <1>1, <1>2, <1>3, <1>4, <1>5, <1>6 DEF Eol

LEMMA WireRest ==
  ASSUME NEW lines \in Seq(Line), NEW eol \in Eol
  PROVE  LET wires == [i \in 1..Len(lines) |-> lines[i] \o eol] IN
         /\ wires \in Seq(Seq(Byte)) /\ Len(wires) = Len(lines)
         /\ Wire(lines, eol) = Rest(wires, 0)
         /\ Wire(lines, eol) \in Seq(Byte)
<1> DEFINE wires == [i \in 1..Len(lines) |-> lines[i] \o eol]
<1>1. Len(lines) \in Nat /\ \A i \in 1..Len(lines) : lines[i] \in Line
  BY LenProperties
<1>2. \A i \in 1..Len(lines) : lines[i] \o eol \in Seq(Byte)
  <2> TAKE i \in 1..Len(lines)
  <2>1. lines[i] \in Seq(Byte) /\ eol \in Seq(Byte)
    BY <1>1, BytesAreBytes
  <2> QED  BY <2>1
<1>3. wires \in Seq(Seq(Byte)) /\ Len(wires) = Len(lines)
  BY <1>1, <1>2
<1>4. Wire(lines, eol) = Rest(wires, 0)
  <2>1. Wire(lines, eol) = FlattenSeq(wires)
    BY DEF Wire
  <2> HIDE DEF wires
  <2> QED  BY <1>3, <2>1, FlattenRest
<1>5. Rest(wires, 0) \in Seq(Byte)
  <2> HIDE DEF wires
  <2>1. Len(wires) \in Nat /\ 0 \in 0..Len(wires) /\ \A i \in 1..Len(wires) : wires[i] \in Seq(Byte)
    BY <1>3, LenProperties
  <2> QED  BY <2>1, RestSteps
<1> QED  BY <1>3, <1>4, <1>5

LEMMA EscapedTyped ==
  ASSUME NEW text \in Seq(Line)
  PROVE  [i \in 1..Len(text) |-> Escaped(text[i])] \in Seq(Line)
<1>1. \A l \in Line : Escaped(l) \in Line
  <2>1. <<Dot>> \in Line
    BY DEF Line, Byte, Dot, CR, LF
  <2> QED  BY <2>1, ConcatProperties DEF Escaped, Line
<1> QED  BY <1>1

LEMMA ItemWireTyped ==
  ASSUME NEW item \in Item, NEW eol \in Eol
  PROVE  ItemWire(item, eol) \in Seq(Byte)
<1> DEFINE escaped == [i \in 1..Len(item.text) |-> Escaped(item.text[i])]
<1>1. Wire(escaped, eol) \in Seq(Byte)
  <2>1. escaped \in Seq(Line)
    BY EscapedTyped DEF Item
  <2> HIDE DEF escaped
  <2> QED  BY <2>1, WireRest
<1> HIDE DEF escaped
<1>2. /\ eol \in Seq(Byte) /\ <<item.command>> \in Seq(Byte) /\ <<Dot>> \in Seq(Byte)
      /\ << >> \in Seq(Byte)
  BY BytesAreBytes DEF Item
<1>3. Wire(escaped, eol) \o <<Dot>> \o eol \in Seq(Byte)
  BY <1>1, <1>2, ConcatProperties
<1>4. ItemWire(item, eol) = <<item.command>> \o eol \o
        IF item.command = POST THEN Wire(escaped, eol) \o <<Dot>> \o eol ELSE << >>
  BY DEF ItemWire, escaped
<1> QED  BY <1>2, <1>3, <1>4, ConcatProperties

LEMMA TalkWireRest ==
  ASSUME NEW talk \in Seq(Item), NEW eol \in Eol
  PROVE  LET wires == [i \in 1..Len(talk) |-> ItemWire(talk[i], eol)] IN
         /\ wires \in Seq(Seq(Byte)) /\ Len(wires) = Len(talk)
         /\ TalkWire(talk, eol) = Rest(wires, 0)
         /\ TalkWire(talk, eol) \in Seq(Byte)
<1> DEFINE wires == [i \in 1..Len(talk) |-> ItemWire(talk[i], eol)]
<1>1. Len(talk) \in Nat /\ \A i \in 1..Len(talk) : talk[i] \in Item
  BY LenProperties
<1>2. \A i \in 1..Len(talk) : ItemWire(talk[i], eol) \in Seq(Byte)
  BY <1>1, ItemWireTyped
<1>3. wires \in Seq(Seq(Byte)) /\ Len(wires) = Len(talk)
  BY <1>1, <1>2
<1>4. TalkWire(talk, eol) = Rest(wires, 0)
  <2>1. TalkWire(talk, eol) = FlattenSeq(wires)
    BY DEF TalkWire
  <2> HIDE DEF wires
  <2> QED  BY <1>3, <2>1, FlattenRest
<1>5. Rest(wires, 0) \in Seq(Byte)
  <2> HIDE DEF wires
  <2>1. Len(wires) \in Nat /\ 0 \in 0..Len(wires) /\ \A i \in 1..Len(wires) : wires[i] \in Seq(Byte)
    BY <1>3, LenProperties
  <2> QED  BY <2>1, RestSteps
<1> QED  BY <1>3, <1>4, <1>5

LEMMA MailWiresTyped ==
  ASSUME NEW text \in Seq(Line), NEW eol \in Eol
  PROVE  MailWires(text, eol) \subseteq Seq(Byte)
<1>1. Wire(text, eol) \in Seq(Byte)
  BY WireRest
<1>2. ASSUME text # << >>
      PROVE  Wire(SubSeq(text, 1, Len(text) - 1), eol) \o text[Len(text)] \in Seq(Byte)
  <2>1. SubSeq(text, 1, Len(text) - 1) \in Seq(Line) /\ text[Len(text)] \in Line
    BY <1>2
  <2>2. Wire(SubSeq(text, 1, Len(text) - 1), eol) \in Seq(Byte)
    BY <2>1, WireRest
  <2> QED  BY <2>1, <2>2, BytesAreBytes, ConcatProperties
<1> QED  BY <1>1, <1>2 DEF MailWires

LEMMA CountTyped ==
  LET Counter == [linechars : 0..MaxChars, linecount : Nat] IN
  NoLines \in Counter /\ \A n \in Counter : \A c \in Byte : CountByte(n, c) \in Counter
BY TextAssumption DEF NoLines, CountByte

LEMMA WrittenTyped ==
  ASSUME NEW headers \in Seq(Line), NEW body \in Seq(Line)
  PROVE  Written(headers, << <<Xref>> >>, body) \in Seq(Line)
<1>1. << <<Xref>> >> \in Seq(Line) /\ << << >> >> \in Seq(Line)
  BY BytesAreBytes
<1> QED  BY <1>1, ConcatProperties DEF Written

LEMMA MailItem ==
  ASSUME NEW text \in Mails
  PROVE  text \in Seq(Line) /\ <<[command |-> POST, text |-> text]>> \in Seq(Item)
<1>1. text \in Seq(Line)
  BY SubmissionAssumption DEF Line
<1>2. [command |-> POST, text |-> text] \in Item
  BY <1>1 DEF Item
<1> QED  BY <1>1, <1>2

LEMMA InitTyped == Init => Typed
<1> SUFFICES ASSUME Init PROVE Typed
  OBVIOUS
<1>1. \E eol \in Eol : \/ /\ sent \in Talks
                          /\ rest = TalkWire(sent, eol)
                          /\ at = "command"
                          /\ msg = << >>
                       \/ \E text \in Mails :
                            /\ sent = <<[command |-> POST, text |-> text]>>
                            /\ rest \in MailWires(text, eol)
                            /\ at = "mail"
                            /\ msg = <<Newsgroups, CR, LF, Gateway, CR, LF>>
  BY DEF Init, Eol
<1>2. /\ sent \in Seq(Item) /\ rest \in Seq(Byte) /\ at \in {"command", "mail"}
      /\ msg \in Seq(Byte)
  <2>1. PICK eol \in Eol : \/ /\ sent \in Talks
                              /\ rest = TalkWire(sent, eol)
                              /\ at = "command"
                              /\ msg = << >>
                           \/ \E text \in Mails :
                                /\ sent = <<[command |-> POST, text |-> text]>>
                                /\ rest \in MailWires(text, eol)
                                /\ at = "mail"
                                /\ msg = <<Newsgroups, CR, LF, Gateway, CR, LF>>
    BY <1>1
  <2>2. CASE sent \in Talks /\ rest = TalkWire(sent, eol) /\ at = "command" /\ msg = << >>
    <3>1. sent \in Seq(Item)
      BY <2>2, SubmissionAssumption DEF Item, Line
    <3>2. TalkWire(sent, eol) \in Seq(Byte)
      BY <3>1, TalkWireRest, Zenon
    <3>3. msg \in Seq(Byte)
      BY <2>2
    <3> QED  BY <2>2, <3>1, <3>2, <3>3
  <2>3. ASSUME NEW text \in Mails,
               sent = <<[command |-> POST, text |-> text]>>,
               rest \in MailWires(text, eol), at = "mail",
               msg = <<Newsgroups, CR, LF, Gateway, CR, LF>>
        PROVE  /\ sent \in Seq(Item) /\ rest \in Seq(Byte) /\ at \in {"command", "mail"}
               /\ msg \in Seq(Byte)
    <3>1. msg \in Seq(Byte)
      BY <2>3 DEF Byte
    <3> QED  BY <2>3, <3>1, MailItem, MailWiresTyped
  <2> QED  BY <2>1, <2>2, <2>3
<1>3. /\ link = "open" /\ line = << >> /\ skip = FALSE /\ mode = "normal" /\ selected = FALSE
      /\ count = NoLines /\ toolong = FALSE /\ exit = "none"
      /\ heard = << >> /\ answer = << >> /\ files = << >> /\ failed = FALSE
  BY DEF Init
<1> HIDE DEF Init
<1>4. TypeOK
  <2>1. count \in [linechars : 0..MaxChars, linecount : Nat]
    BY <1>3, CountTyped
  <2>2. line \in Line /\ Len(line) <= MaxLine
    BY <1>3, BytesAreBytes, SubmissionAssumption
  <2>3. /\ heard \in Seq([command : {POST, GROUP, "unknown"}, headers : Seq(Line), body : Seq(Line)])
        /\ Len(answer) = Len(heard) /\ files \in Seq([of : Nat, lines : Seq(Line)])
    BY <1>3
  <2> QED  BY <1>2, <1>3, <2>1, <2>2, <2>3 DEF TypeOK
<1> QED  BY <1>2, <1>3, <1>4, SubmissionAssumption DEF Typed

-----------------------------------------------------------------------------
(* Every step keeps the types; first those that read bytes.                *)

LEMMA NextByte ==
  ASSUME Typed, rest # << >>
  PROVE  Head(rest) \in Byte /\ Tail(rest) \in Seq(Byte)
BY HeadTailProperties DEF Typed, TypeOK

LEMMA ReadLineTyped ==
  ASSUME Typed, ReadLine
  PROVE  Typed'
<1>1. Head(rest) \in Byte /\ Tail(rest) \in Seq(Byte)
  BY NextByte DEF ReadLine, Arrives
<1>2. line \in Line /\ Len(line) < MaxLine /\ Len(line) \in Nat
  BY DEF Typed, TypeOK, ReadLine, Line
<1>3. \A c \in Byte \ {CR, LF} : Append(line, c) \in Line /\ Len(Append(line, c)) = Len(line) + 1
  BY <1>2 DEF Line
<1> DEFINE c == Head(rest)
<1>4. /\ line' \in Line /\ Len(line') <= MaxLine /\ (at' = "command" => Len(line') < MaxLine)
      /\ at' \in {"command", "dispatch"} /\ skip' \in BOOLEAN
  <2>1. CASE at' = "dispatch" /\ skip' = FALSE /\ line' = line
    <3>1. Len(line') <= MaxLine /\ line' \in Line
      BY <1>2, <2>1, SubmissionAssumption
    <3> QED  BY <2>1, <3>1
  <2>2. CASE /\ ~ EndOfLine(c) /\ skip' = (c = CR) /\ c = CR
             /\ line' = line /\ at' = at
    BY <1>2, <2>2, SubmissionAssumption DEF ReadLine
  <2>3. CASE /\ ~ EndOfLine(c) /\ skip' = (c = CR) /\ c # CR
             /\ line' = Append(line, c)
             /\ at' = IF Len(line) + 1 = MaxLine THEN "dispatch" ELSE at
    <3>1. line' \in Line /\ Len(line') = Len(line) + 1
      BY <1>1, <1>3, <2>3 DEF EndOfLine
    <3>2. at = "command"
      BY DEF ReadLine
    <3> QED  BY <1>2, <2>3, <3>1, <3>2, SubmissionAssumption
  <2> QED  BY <2>1, <2>2, <2>3 DEF ReadLine
<1>5. /\ rest' \in Seq(Byte)
      /\ UNCHANGED <<sent, link, mode, msg, selected, gateway, history>>
  BY <1>1 DEF ReadLine
<1> QED  BY <1>4, <1>5 DEF Typed, TypeOK, gateway, history

LEMMA ReadBodyTyped ==
  ASSUME Typed, ReadBody
  PROVE  Typed'
<1>1. Head(rest) \in Byte /\ Tail(rest) \in Seq(Byte)
  BY NextByte DEF ReadBody, Arrives
<1>2. msg \in Seq(Byte) /\ Len(msg) <= MaxPostSize /\ Len(msg) \in Nat
  BY SubmissionAssumption DEF Typed, TypeOK, ReadBody, TooBig
<1>3. \A c \in Byte : Append(msg, c) \in Seq(Byte) /\ Len(Append(msg, c)) = Len(msg) + 1
  BY <1>2
<1> DEFINE c == Head(rest)
<1>4. /\ msg' \in Seq(Byte) /\ Len(msg') <= MaxPostSize + 1
      /\ at' \in {"body", "post"} /\ mode' \in {"normal", "crlf", "crlfdot"}
  <2>1. CASE UNCHANGED <<mode, msg>> /\ at' \in {at, "post"}
    BY <1>2, <2>1, SubmissionAssumption DEF ReadBody, Typed, TypeOK
  <2>2. CASE /\ mode' = NextMode(c) /\ msg' = IF DotDropped(c) THEN msg ELSE Append(msg, c)
             /\ UNCHANGED at
    <3>1. mode' \in {"normal", "crlf", "crlfdot"}
      BY <2>2 DEF NextMode
    <3>2. msg' \in Seq(Byte) /\ Len(msg') <= MaxPostSize + 1
      BY <1>1, <1>2, <1>3, <2>2, SubmissionAssumption
    <3> QED  BY <2>2, <3>1, <3>2 DEF ReadBody
  <2> QED  BY <2>1, <2>2 DEF ReadBody
<1>5. /\ rest' \in Seq(Byte) /\ at = "body"
      /\ UNCHANGED <<sent, link, line, skip, selected, gateway, history>>
  BY <1>1 DEF ReadBody
<1> QED  BY <1>4, <1>5 DEF Typed, TypeOK, gateway, history

LEMMA ReadMailTyped ==
  ASSUME Typed, ReadMail
  PROVE  Typed'
<1> DEFINE c == Head(rest)
<1>1. c \in Byte /\ Tail(rest) \in Seq(Byte)
  BY NextByte DEF ReadMail
<1>2. msg \in Seq(Byte)
  BY DEF Typed, TypeOK
<1>3. msg \o <<CR, LF>> \in Seq(Byte) /\ msg \o <<c>> \in Seq(Byte)
  BY <1>1, <1>2 DEF Byte
<1>4. CountByte(count, c) \in [linechars : 0..MaxChars, linecount : Nat]
  BY <1>1, CountTyped DEF Typed, TypeOK
<1>5. /\ msg' \in Seq(Byte) /\ count' \in [linechars : 0..MaxChars, linecount : Nat]
      /\ toolong' \in BOOLEAN
  BY <1>2, <1>3, <1>4 DEF ReadMail, Typed, TypeOK
<1>6. /\ rest' \in Seq(Byte) /\ at = "mail"
      /\ UNCHANGED <<sent, link, at, line, skip, mode, selected, exit, history>>
  BY <1>1 DEF ReadMail
<1> QED  BY <1>5, <1>6 DEF Typed, TypeOK, history

\* What the program takes of a command or a text, it adds with its answer.
LEMMA HeardTyped ==
  ASSUME Typed, NEW command \in {POST, GROUP, "unknown"}, NEW code \in Code,
         NEW text \in [headers : Seq(Line), body : Seq(Line)], Heard(command, text, code)
  PROVE  /\ heard' \in Seq([command : {POST, GROUP, "unknown"}, headers : Seq(Line),
                            body : Seq(Line)])
         /\ answer' \in Seq(Code) /\ Len(answer') = Len(heard')
<1> DEFINE Taken == [command : {POST, GROUP, "unknown"}, headers : Seq(Line), body : Seq(Line)]
           taken == [command |-> command, headers |-> text.headers, body |-> text.body]
<1>1. taken \in Taken
  OBVIOUS
<1>2. heard \in Seq(Taken) /\ answer \in Seq(Code) /\ Len(answer) = Len(heard)
  BY DEF Typed, TypeOK
<1>3. heard' = Append(heard, taken) /\ answer' = Append(answer, code)
  BY DEF Heard
<1> HIDE DEF Taken, taken
<1>4. heard' \in Seq(Taken) /\ answer' \in Seq(Code) /\ Len(answer') = Len(heard')
  BY <1>1, <1>2, <1>3, AppendProperties
<1> QED  BY <1>4 DEF Taken

LEMMA NoTextTyped == NoText \in [headers : Seq(Line), body : Seq(Line)]
BY DEF NoText

LEMMA DispatchTyped ==
  ASSUME Typed, ReadLineFails \/ Blank \/ SelectGroup \/ Unknown \/ BeginPost
  PROVE  Typed'
<1> USE SubmissionAssumption
<1>1. CASE ReadLineFails
  BY <1>1 DEF ReadLineFails, Typed, TypeOK, input, reader, gateway, history
<1>2. CASE Blank
  <2>1. Len(line) < MaxLine
    BY <1>2 DEF Blank
  <2> QED  BY <1>2, <2>1 DEF Blank, Typed, TypeOK, input, reader, gateway, history
<1>3. ASSUME line' = << >>
      PROVE  line' \in Line /\ Len(line') < MaxLine /\ Len(line') <= MaxLine
  BY <1>3, BytesAreBytes
<1>4. CASE SelectGroup
  <2>1. Heard(GROUP, NoText, "211") /\ line' = << >>
    BY <1>4 DEF SelectGroup
  <2>2. /\ heard' \in Seq([command : {POST, GROUP, "unknown"}, headers : Seq(Line),
                            body : Seq(Line)])
        /\ answer' \in Seq(Code) /\ Len(answer') = Len(heard')
    BY <2>1, HeardTyped, NoTextTyped DEF Code
  <2> QED  BY <1>3, <1>4, <2>1, <2>2 DEF SelectGroup, Typed, TypeOK, input, gateway
<1>5. CASE Unknown
  <2>1. Heard("unknown", NoText, "500") /\ line' = << >>
    BY <1>5 DEF Unknown
  <2>2. /\ heard' \in Seq([command : {POST, GROUP, "unknown"}, headers : Seq(Line),
                            body : Seq(Line)])
        /\ answer' \in Seq(Code) /\ Len(answer') = Len(heard')
    BY <2>1, HeardTyped, NoTextTyped DEF Code
  <2> QED  BY <1>3, <1>5, <2>1, <2>2 DEF Unknown, Typed, TypeOK, input, gateway
<1>6. CASE BeginPost
  <2>1. line' = << >> /\ msg' = << >> /\ mode' = "normal"
    BY <1>6 DEF BeginPost
  <2>2. msg' \in Seq(Byte) /\ Len(msg') <= MaxPostSize + 1
    BY <2>1
  <2> QED  BY <1>3, <1>6, <2>1, <2>2 DEF BeginPost, Typed, TypeOK, input, gateway, history
<1> QED  BY <1>1, <1>2, <1>4, <1>5, <1>6

LEMMA BodyFailsTyped ==
  ASSUME Typed, at = "body", BodyFails, rest' \in Seq(Byte)
  PROVE  Typed'
<1>1. Heard(POST, NoText, "441")
  BY DEF BodyFails
<1>2. /\ heard' \in Seq([command : {POST, GROUP, "unknown"}, headers : Seq(Line),
                          body : Seq(Line)])
      /\ answer' \in Seq(Code) /\ Len(answer') = Len(heard')
  BY <1>1, HeardTyped, NoTextTyped DEF Code
<1> QED  BY <1>2 DEF BodyFails, Typed, TypeOK, reader, gateway

LEMMA BodyStepTyped ==
  ASSUME Typed, BodyStep
  PROVE  Typed'
<1>1. CASE ReadBody
  BY <1>1, ReadBodyTyped
<1>2. CASE ReadBodyTooBig
  BY <1>2, NextByte, BodyFailsTyped DEF ReadBodyTooBig, Arrives
<1>3. CASE Expire \/ ReadBodyEof
  BY <1>3, BodyFailsTyped DEF Expire, ReadBodyEof, Typed, TypeOK
<1> QED  BY <1>1, <1>2, <1>3 DEF BodyStep

File == [of : Nat, lines : Seq(Line)]

\* The file that is written of the text that is taken as number i.
FileOf(i, article) ==
  [of |-> i, lines |-> Written(article.headers, << <<Xref>> >>, article.body)]

LEMMA FileTyped ==
  ASSUME NEW article \in [headers : Seq(Line), body : Seq(Line)], NEW i \in Nat
  PROVE  FileOf(i, article) \in File
<1>1. Written(article.headers, << <<Xref>> >>, article.body) \in Seq(Line)
  BY WrittenTyped
<1> QED  BY <1>1 DEF FileOf, File

LEMMA PostTyped ==
  ASSUME Typed, Post
  PROVE  Typed'
<1> DEFINE article == ParseArticle(msg)
<1>1. article \in [headers : Seq(Line), body : Seq(Line)]
  BY ArticleTyped DEF Typed, TypeOK
<1> HIDE DEF article
<1>2. PICK code \in Code : /\ Heard(POST, article, code)
                           /\ \/ UNCHANGED files
                              \/ files' = Append(files, FileOf(Len(heard) + 1, article))
  BY DEF Post, Refuse, Store, Code, FileOf, article
<1>3. /\ heard' \in Seq([command : {POST, GROUP, "unknown"}, headers : Seq(Line),
                          body : Seq(Line)])
      /\ answer' \in Seq(Code) /\ Len(answer') = Len(heard')
  BY <1>1, <1>2, HeardTyped
<1>4. files' \in Seq(File)
  <2>1. files \in Seq(File) /\ Len(heard) + 1 \in Nat
    BY LenProperties DEF Typed, TypeOK, File
  <2>2. FileOf(Len(heard) + 1, article) \in File
    BY <1>1, <2>1, FileTyped
  <2>3. Append(files, FileOf(Len(heard) + 1, article)) \in Seq(File)
    <3> HIDE DEF File, FileOf
    <3> QED  BY <2>1, <2>2, AppendProperties
  <2> QED  BY <1>2, <2>1, <2>3
<1>5. /\ at = "post" /\ at' = "command"
      /\ UNCHANGED <<sent, input, reader, selected, gateway, failed>>
  BY DEF Post
<1> QED  BY <1>3, <1>4, <1>5 DEF Typed, TypeOK, File, input, reader, gateway

LEMMA MailPostTyped ==
  ASSUME Typed, MailPost
  PROVE  Typed'
<1> DEFINE article == ParseArticle(msg)
           taken == [command |-> POST,
                     headers |-> SubSeq(article.headers, 3, Len(article.headers)),
                     body    |-> article.body]
<1>1. article \in [headers : Seq(Line), body : Seq(Line)]
  BY ArticleTyped DEF Typed, TypeOK
<1>2. SubSeq(article.headers, 3, Len(article.headers)) \in Seq(Line)
  <2>1. article.headers \in Seq(Line) /\ Len(article.headers) \in Nat
    BY <1>1
  <2>2. \A i \in 3..Len(article.headers) : article.headers[i] \in Line
    BY <2>1
  <2> QED  BY <2>1, <2>2, SubSeqProperties
<1>3. taken \in [command : {POST, GROUP, "unknown"}, headers : Seq(Line), body : Seq(Line)]
  BY <1>1, <1>2
<1>4. PICK code \in Code : /\ heard' = <<taken>> /\ answer' = <<code>>
                           /\ \/ UNCHANGED files
                              \/ files' = <<FileOf(1, article)>>
  BY DEF MailPost, MailRefused, MailStored, MailHeard, Code, FileOf
<1>5. /\ at' \in {"gone", "cc"} /\ exit' \in {"none", "0", "1", "panic"}
      /\ UNCHANGED <<sent, input, reader, selected, count, toolong, failed>>
  <2> HIDE DEF article
  <2> QED  BY DEF MailPost, MailRefused, MailStored
<1> HIDE DEF article, taken
<1>6. /\ heard' \in Seq([command : {POST, GROUP, "unknown"}, headers : Seq(Line),
                          body : Seq(Line)])
      /\ answer' \in Seq(Code) /\ Len(answer') = Len(heard')
  BY <1>3, <1>4
<1>7. files' \in Seq(File)
  <2>1. files \in Seq(File)
    BY DEF Typed, TypeOK, File
  <2>2. <<FileOf(1, article)>> \in Seq(File)
    <3>1. FileOf(1, article) \in File
      BY <1>1, FileTyped
    <3> HIDE DEF FileOf, File
    <3> QED  BY <3>1
  <2> QED  BY <1>4, <2>1, <2>2
<1> QED  BY <1>5, <1>6, <1>7 DEF Typed, TypeOK, File, input, reader

LEMMA OtherTyped ==
  ASSUME Typed,
         Pause \/ Resume \/ HangUp \/ ReadMailFails \/ CcPostToMail \/ UNCHANGED vars
  PROVE  Typed'
<1>1. CASE Pause \/ Resume
  BY <1>1 DEF Pause, Resume, Typed, TypeOK, reader, gateway, history
<1>2. CASE HangUp
  <2>1. rest' \in Seq(Byte)
    BY <1>2 DEF HangUp
  <2> QED  BY <1>2, <2>1 DEF HangUp, Typed, TypeOK, reader, gateway, history
<1>3. CASE ReadMailFails
  BY <1>3 DEF ReadMailFails, Typed, TypeOK, input, reader, history
<1>4. CASE CcPostToMail
  BY <1>4 DEF CcPostToMail, Typed, TypeOK, input, reader, history
<1>5. CASE UNCHANGED vars
  BY <1>5 DEF vars, Typed, TypeOK, input, reader, gateway, history
<1> QED  BY <1>1, <1>2, <1>3, <1>4, <1>5

LEMMA NextTyped == Typed /\ [Next]_vars => Typed'
BY ReadLineTyped, DispatchTyped, BodyStepTyped, PostTyped, ReadMailTyped, MailPostTyped, OtherTyped
   DEF Next, Server, MailGateway, Gone

LEMMA AlwaysTyped == Spec => []Typed
<1>1. Init => Typed
  BY InitTyped
<1>2. Typed /\ [Next]_vars => Typed'
  BY NextTyped
<1> QED  BY <1>1, <1>2, PTL DEF Spec

\* However much a client or a mailer sends, a command line and the body of a POST
\* stay within their bounds, and what is written are lines (readLineRaw,
\* readPostBodyRaw, ParseArticle).
THEOREM TypeCorrect == Spec => []TypeOK
<1>1. Typed => TypeOK
  BY DEF Typed
<1> QED  BY <1>1, AlwaysTyped, PTL

-----------------------------------------------------------------------------
(* What ParseArticle makes of lines.                                       *)

Blanks(text) == {i \in 1..Len(text) : text[i] = << >>}

\* The first empty line, as in Meant.
HeadEnd(text) == IF Blanks(text) = {} THEN Len(text) + 1 ELSE Min(Blanks(text))

LEMMA HeadEndFirst ==
  ASSUME NEW text \in Seq(Line)
  PROVE  /\ HeadEnd(text) \in 1..Len(text) + 1
         /\ \A i \in 1..Len(text) : i < HeadEnd(text) => text[i] # << >>
         /\ HeadEnd(text) <= Len(text) => text[HeadEnd(text)] = << >>
         /\ Meant(text) = [headers |-> SubSeq(text, 1, HeadEnd(text) - 1),
                           body    |-> SubSeq(text, HeadEnd(text) + 1, Len(text))]
<1>1. Len(text) \in Nat
  BY LenProperties
<1>2. Meant(text) = [headers |-> SubSeq(text, 1, HeadEnd(text) - 1),
                     body    |-> SubSeq(text, HeadEnd(text) + 1, Len(text))]
  BY DEF Meant, HeadEnd, Blanks
<1>3. CASE Blanks(text) = {}
  <2>1. HeadEnd(text) = Len(text) + 1
    BY <1>3 DEF HeadEnd
  <2>2. \A i \in 1..Len(text) : text[i] # << >>
    BY <1>3 DEF Blanks
  <2> QED  BY <1>1, <1>2, <2>1, <2>2
<1>4. CASE Blanks(text) # {}
  <2>1. Blanks(text) \in SUBSET Nat
    BY <1>1 DEF Blanks
  <2>2. PICK x \in Blanks(text) : \A y \in Blanks(text) : x <= y
    BY <1>4, <2>1, LeastElement
  <2>3. HeadEnd(text) \in Blanks(text) /\ \A y \in Blanks(text) : HeadEnd(text) <= y
    <3>1. HeadEnd(text) = Min(Blanks(text))
      BY <1>4 DEF HeadEnd
    <3> QED  BY <2>2, <3>1 DEF Min
  <2>4. \A i \in 1..Len(text) : i < HeadEnd(text) => i \notin Blanks(text)
    BY <1>1, <2>1, <2>3
  <2> QED  BY <1>1, <1>2, <2>3, <2>4 DEF Blanks
<1> QED  BY <1>3, <1>4

\* The loop after the first lines of a text, and part of the next, when there were
\* headers before.
TextRead(before, text, j, part) ==
  IF j < HeadEnd(text)
    THEN [headers  |-> before \o SubSeq(text, 1, j), body |-> << >>,
          line     |-> part, inHeader |-> TRUE]
    ELSE [headers  |-> before \o SubSeq(text, 1, HeadEnd(text) - 1),
          body     |-> SubSeq(text, HeadEnd(text) + 1, j),
          line     |-> part, inHeader |-> FALSE]

LEMMA NothingRead ==
  ASSUME NEW text \in Seq(Line)
  PROVE  TextRead(<< >>, text, 0, << >>) = NewParser
<1>1. HeadEnd(text) \in 1..Len(text) + 1 /\ Len(text) \in Nat
  BY HeadEndFirst, LenProperties
<1>2. SubSeq(text, 1, 0) = << >>
  BY SubSeqEmpty
<1>3. << >> \o SubSeq(text, 1, 0) = << >>
  BY <1>2
<1>4. TextRead(<< >>, text, 0, << >>) =
        [headers |-> << >> \o SubSeq(text, 1, 0), body |-> << >>, line |-> << >>, inHeader |-> TRUE]
  BY <1>1 DEF TextRead
<1> QED  BY <1>3, <1>4 DEF NewParser

LEMMA ParseByteSteps ==
  ASSUME NEW p \in Parser
  PROVE  /\ ParseByte(p, CR) = p
         /\ \A c \in Byte \ {CR, LF} : ParseByte(p, c) =
              [headers |-> p.headers, body |-> p.body, line |-> Append(p.line, c),
               inHeader |-> p.inHeader]
         /\ ParseByte(p, LF) =
              IF p.inHeader /\ p.line = << >>
                THEN [headers |-> p.headers, body |-> p.body, line |-> << >>, inHeader |-> FALSE]
              ELSE IF p.inHeader
                THEN [headers |-> Append(p.headers, p.line), body |-> p.body, line |-> << >>,
                      inHeader |-> TRUE]
              ELSE [headers |-> p.headers, body |-> Append(p.body, p.line), line |-> << >>,
                    inHeader |-> FALSE]
<1>1. ParseByte(p, CR) = p
  BY DEF ParseByte, CR, LF
<1>2. ASSUME NEW c \in Byte \ {CR, LF}
      PROVE  ParseByte(p, c) = [headers |-> p.headers, body |-> p.body,
                                line |-> Append(p.line, c), inHeader |-> p.inHeader]
  BY DEF ParseByte, Parser
<1>3. ASSUME p.inHeader, p.line = << >>
      PROVE  ParseByte(p, LF) =
               [headers |-> p.headers, body |-> p.body, line |-> << >>, inHeader |-> FALSE]
  BY <1>3 DEF ParseByte, Parser, CR, LF
<1>4. ASSUME p.inHeader, p.line # << >>
      PROVE  ParseByte(p, LF) =
               [headers |-> Append(p.headers, p.line), body |-> p.body, line |-> << >>,
                inHeader |-> TRUE]
  <2>1. p.inHeader = TRUE
    BY <1>4 DEF Parser
  <2>2. ParseByte(p, LF) = [[p EXCEPT !.headers = Append(@, p.line)] EXCEPT !.line = << >>]
    BY <1>4 DEF ParseByte, CR, LF
  <2> QED  BY <2>1, <2>2 DEF Parser
<1>5. ASSUME ~ p.inHeader
      PROVE  ParseByte(p, LF) =
               [headers |-> p.headers, body |-> Append(p.body, p.line), line |-> << >>,
                inHeader |-> FALSE]
  <2>1. p.inHeader = FALSE
    BY <1>5 DEF Parser
  <2>2. ParseByte(p, LF) = [[p EXCEPT !.body = Append(@, p.line)] EXCEPT !.line = << >>]
    BY <1>5 DEF ParseByte, CR, LF
  <2> QED  BY <2>1, <2>2 DEF Parser
<1> QED  BY <1>1, <1>2, <1>3, <1>4, <1>5

LEMMA TextReadTyped ==
  ASSUME NEW before \in Seq(Line), NEW text \in Seq(Line), NEW j \in 0..Len(text),
         NEW part \in Line
  PROVE  TextRead(before, text, j, part) \in Parser
<1> DEFINE end == HeadEnd(text)
<1>1. Len(text) \in Nat /\ \A i \in 1..Len(text) : text[i] \in Line
  BY LenProperties, ElementOfSeq
<1>2. end \in 1..Len(text) + 1
  BY HeadEndFirst
<1> HIDE DEF end
<1>3. \A m \in 1..Len(text) + 1, n \in 0..Len(text) : SubSeq(text, m, n) \in Seq(Line)
  <2> TAKE m \in 1..Len(text) + 1, n \in 0..Len(text)
  <2>1. \A i \in m..n : text[i] \in Line
    BY <1>1
  <2> QED  BY <1>1, <2>1, SubSeqProperties
<1>4. CASE j < end
  <2>1. before \o SubSeq(text, 1, j) \in Seq(Line)
    BY <1>1, <1>3, ConcatProperties
  <2> QED  BY <1>4, <2>1 DEF TextRead, Parser, end
<1>5. CASE end <= j
  <2>1. before \o SubSeq(text, 1, end - 1) \in Seq(Line) /\ SubSeq(text, end + 1, j) \in Seq(Line)
    BY <1>1, <1>2, <1>3, <1>5, ConcatProperties
  <2>2. ~ (j < end)
    BY <1>1, <1>2, <1>5
  <2> QED  BY <2>1, <2>2 DEF TextRead, Parser, end
<1> QED  BY <1>1, <1>2, <1>4, <1>5

LEMMA TextReadByte ==
  ASSUME NEW before \in Seq(Line), NEW text \in Seq(Line), NEW j \in 0..Len(text),
         NEW part \in Line
  PROVE  /\ ParseByte(TextRead(before, text, j, part), CR) = TextRead(before, text, j, part)
         /\ \A c \in Byte \ {CR, LF} : ParseByte(TextRead(before, text, j, part), c)
                                         = TextRead(before, text, j, Append(part, c))
<1> DEFINE p == TextRead(before, text, j, part)
<1>1. p \in Parser
  BY TextReadTyped
<1>2. \A c : TextRead(before, text, j, Append(part, c)) =
        [headers |-> p.headers, body |-> p.body, line |-> Append(p.line, c),
         inHeader |-> p.inHeader]
  BY DEF TextRead
<1> HIDE DEF p
<1>3. ParseByte(p, CR) = p /\ \A c \in Byte \ {CR, LF} : ParseByte(p, c) =
              [headers |-> p.headers, body |-> p.body, line |-> Append(p.line, c),
               inHeader |-> p.inHeader]
  BY <1>1, ParseByteSteps
<1> QED  BY <1>2, <1>3 DEF p

\* The end of a line makes it a header, the separator or a line of the body.
LEMMA TextReadLF ==
  ASSUME NEW before \in Seq(Line), NEW text \in Seq(Line), NEW j \in 0..Len(text) - 1
  PROVE  ParseByte(TextRead(before, text, j, text[j + 1]), LF)
           = TextRead(before, text, j + 1, << >>)
<1> DEFINE end == HeadEnd(text)
<1>1. Len(text) \in Nat /\ text[j + 1] \in Line /\ j + 1 \in 1..Len(text)
  BY LenProperties, ElementOfSeq
<1>2. /\ end \in 1..Len(text) + 1
      /\ \A i \in 1..Len(text) : i < end => text[i] # << >>
      /\ end <= Len(text) => text[end] = << >>
  BY HeadEndFirst
<1> HIDE DEF end
<1> DEFINE p == TextRead(before, text, j, text[j + 1])
<1>p. p \in Parser
  BY <1>1, TextReadTyped
<1>q. ParseByte(p, LF) =
        IF p.inHeader /\ p.line = << >>
          THEN [headers |-> p.headers, body |-> p.body, line |-> << >>, inHeader |-> FALSE]
        ELSE IF p.inHeader
          THEN [headers |-> Append(p.headers, p.line), body |-> p.body, line |-> << >>,
                inHeader |-> TRUE]
        ELSE [headers |-> p.headers, body |-> Append(p.body, p.line), line |-> << >>,
              inHeader |-> FALSE]
  <2> HIDE DEF p
  <2> QED  BY <1>p, ParseByteSteps
<1>3. CASE j + 1 < end
  <2>1. text[j + 1] # << >>
    BY <1>1, <1>2, <1>3
  <2>2. TextRead(before, text, j, text[j + 1]) =
          [headers |-> before \o SubSeq(text, 1, j), body |-> << >>,
           line    |-> text[j + 1], inHeader |-> TRUE]
    BY <1>1, <1>2, <1>3 DEF TextRead, end
  <2>3. ParseByte(TextRead(before, text, j, text[j + 1]), LF) =
          [headers |-> Append(before \o SubSeq(text, 1, j), text[j + 1]), body |-> << >>,
           line    |-> << >>, inHeader |-> TRUE]
    BY <1>q, <2>1, <2>2
  <2>4. Append(before \o SubSeq(text, 1, j), text[j + 1]) = before \o SubSeq(text, 1, j + 1)
    <3>1. SubSeq(text, 1, j) \in Seq(Line) /\ <<text[j + 1]>> \in Seq(Line)
      BY <1>1, SubSeqProperties
    <3>2. SubSeq(text, 1, j + 1) = SubSeq(text, 1, j) \o <<text[j + 1]>>
      <4>1. 1 \in 1..Len(text) /\ j + 1 \in 1..Len(text) /\ (j + 1) - 1 = j
        BY <1>1
      <4> QED  BY <4>1, SubSeqRecursiveSecond
    <3>3. Append(before \o SubSeq(text, 1, j), text[j + 1])
            = (before \o SubSeq(text, 1, j)) \o <<text[j + 1]>>
      <4>1. before \o SubSeq(text, 1, j) \in Seq(Line)
        BY <3>1, ConcatProperties
      <4> QED  BY <1>1, <4>1, AppendIsConcat
    <3>4. (before \o SubSeq(text, 1, j)) \o <<text[j + 1]>>
            = before \o (SubSeq(text, 1, j) \o <<text[j + 1]>>)
      <4> DEFINE b == SubSeq(text, 1, j)
                 c == <<text[j + 1]>>
      <4>1. b \in Seq(Line) /\ c \in Seq(Line)
        BY <3>1
      <4> HIDE DEF b, c
      <4>2. (before \o b) \o c = before \o (b \o c)
        BY SMTT(30), <4>1, ConcatAssociative
      <4> QED  BY <4>2 DEF b, c
    <3> QED  BY <3>2, <3>3, <3>4
  <2>5. TextRead(before, text, j + 1, << >>) =
          [headers |-> before \o SubSeq(text, 1, j + 1), body |-> << >>,
           line    |-> << >>, inHeader |-> TRUE]
    BY <1>3 DEF TextRead, end
  <2> QED  BY <2>3, <2>4, <2>5
<1>4. CASE j + 1 = end
  <2>1. text[j + 1] = << >>
    BY <1>1, <1>2, <1>4
  <2>2. TextRead(before, text, j, text[j + 1]) =
          [headers |-> before \o SubSeq(text, 1, j), body |-> << >>,
           line    |-> << >>, inHeader |-> TRUE]
    BY <1>1, <1>2, <1>4, <2>1 DEF TextRead, end
  <2>3. ParseByte(TextRead(before, text, j, text[j + 1]), LF) =
          [headers |-> before \o SubSeq(text, 1, j), body |-> << >>,
           line    |-> << >>, inHeader |-> FALSE]
    BY <1>q, <2>2
  <2>4. end - 1 = j /\ SubSeq(text, end + 1, j + 1) = << >>
    BY <1>1, <1>2, <1>4, SubSeqEmpty
  <2>5. TextRead(before, text, j + 1, << >>) =
          [headers |-> before \o SubSeq(text, 1, j), body |-> << >>,
           line    |-> << >>, inHeader |-> FALSE]
    <3>1. ~ (j + 1 < end)
      BY <1>1, <1>2, <1>4
    <3>2. TextRead(before, text, j + 1, << >>) =
          [headers |-> before \o SubSeq(text, 1, end - 1), body |-> SubSeq(text, end + 1, j + 1),
           line    |-> << >>, inHeader |-> FALSE]
      BY <3>1 DEF TextRead, end
    <3> QED  BY <2>4, <3>2
  <2> QED  BY <2>3, <2>5
<1>5. CASE end <= j
  <2>1. TextRead(before, text, j, text[j + 1]) =
          [headers |-> before \o SubSeq(text, 1, end - 1), body |-> SubSeq(text, end + 1, j),
           line    |-> text[j + 1], inHeader |-> FALSE]
    BY <1>1, <1>2, <1>5 DEF TextRead, end
  <2>2. ParseByte(TextRead(before, text, j, text[j + 1]), LF) =
          [headers |-> before \o SubSeq(text, 1, end - 1),
           body    |-> Append(SubSeq(text, end + 1, j), text[j + 1]),
           line    |-> << >>, inHeader |-> FALSE]
    BY <1>q, <2>1
  <2>3. Append(SubSeq(text, end + 1, j), text[j + 1]) = SubSeq(text, end + 1, j + 1)
    <3>1. SubSeq(text, end + 1, j) \in Seq(Line)
      <4>1. \A i \in end + 1..j : text[i] \in Line
        BY <1>1, <1>2
      <4> QED  BY <1>1, <1>2, <4>1, SubSeqProperties
    <3>2. SubSeq(text, end + 1, j + 1) = SubSeq(text, end + 1, j) \o <<text[j + 1]>>
      <4>1. end + 1 \in 1..Len(text) /\ j + 1 \in end + 1..Len(text) /\ (j + 1) - 1 = j
        BY <1>1, <1>2, <1>5
      <4> QED  BY <4>1, SubSeqRecursiveSecond
    <3> QED  BY <1>1, <3>1, <3>2, AppendIsConcat
  <2>4. TextRead(before, text, j + 1, << >>) =
          [headers |-> before \o SubSeq(text, 1, end - 1), body |-> SubSeq(text, end + 1, j + 1),
           line    |-> << >>, inHeader |-> FALSE]
    BY <1>1, <1>2, <1>5 DEF TextRead, end
  <2> QED  BY <2>2, <2>3, <2>4
<1> QED  BY <1>1, <1>2, <1>3, <1>4, <1>5

\* A last line needs no end.
LEMMA ArticleEnds ==
  ASSUME NEW text \in Seq(Byte), After(text).line # << >>
  PROVE  ParseArticle(text) = ParseArticle(Append(text, LF))
<1> DEFINE p == After(text)
           q == After(Append(text, LF))
<1>1. p \in Parser
  BY AfterTyped
<1>2. q = ParseByte(p, LF)
  BY AfterAppend DEF Byte
<1>3. ParseArticle(text) =
        IF p.inHeader THEN [headers |-> p.headers \o <<p.line>>, body |-> << >>]
                      ELSE [headers |-> p.headers, body |-> p.body \o <<p.line>>]
  BY ArticleParsed
<1>4. ParseArticle(Append(text, LF)) =
        LET last == IF q.line = << >> THEN << >> ELSE <<q.line>> IN
        IF q.inHeader THEN [headers |-> q.headers \o last, body |-> << >>]
                      ELSE [headers |-> q.headers, body |-> q.body \o last]
  BY ArticleParsed
<1> HIDE DEF q
<1>5. p.line # << >>
  OBVIOUS
<1> HIDE DEF p
<1>6. p.headers \in Seq(Line) /\ p.body \in Seq(Line) /\ p.line \in Line
  BY <1>1 DEF Parser
<1>7. CASE p.inHeader
  <2>1. q = [headers |-> Append(p.headers, p.line), body |-> p.body, line |-> << >>,
             inHeader |-> TRUE]
    BY <1>1, <1>2, <1>5, <1>7, ParseByteSteps
  <2>2. Append(p.headers, p.line) = p.headers \o <<p.line>>
    BY <1>6, AppendIsConcat
  <2>3. Append(p.headers, p.line) \o << >> = Append(p.headers, p.line)
    BY <1>6, AppendProperties, ConcatEmptySeq
  <2> QED  BY <1>3, <1>4, <1>7, <2>1, <2>2, <2>3
<1>8. CASE ~ p.inHeader
  <2>1. q = [headers |-> p.headers, body |-> Append(p.body, p.line), line |-> << >>,
             inHeader |-> FALSE]
    BY <1>1, <1>2, <1>5, <1>8, ParseByteSteps
  <2>2. Append(p.body, p.line) = p.body \o <<p.line>>
    BY <1>6, AppendIsConcat
  <2>3. Append(p.body, p.line) \o << >> = Append(p.body, p.line)
    BY <1>6, AppendProperties, ConcatEmptySeq
  <2> QED  BY <1>3, <1>4, <1>8, <2>1, <2>2, <2>3
<1> QED  BY <1>7, <1>8

\* When the loop has gone through all lines of a text, the article is what the text
\* means.
LEMMA ArticleMeant ==
  ASSUME NEW before \in Seq(Line), NEW text \in Seq(Line), NEW bytes \in Seq(Byte),
         After(bytes) = TextRead(before, text, Len(text), << >>)
  PROVE  ParseArticle(bytes) = [headers |-> before \o Meant(text).headers,
                                body    |-> Meant(text).body]
<1> DEFINE end == HeadEnd(text)
           p == After(bytes)
<1>1. Len(text) \in Nat /\ \A i \in 1..Len(text) : text[i] \in Line
  BY LenProperties, ElementOfSeq
<1>2. /\ end \in 1..Len(text) + 1
      /\ Meant(text) = [headers |-> SubSeq(text, 1, end - 1), body |-> SubSeq(text, end + 1, Len(text))]
  BY HeadEndFirst
<1>3. p = TextRead(before, text, Len(text), << >>)
  OBVIOUS
<1>4. p \in Parser
  BY AfterTyped
<1>5. p.line = << >>
  BY <1>3 DEF TextRead
<1>6. ParseArticle(bytes) =
        IF p.inHeader THEN [headers |-> p.headers \o << >>, body |-> << >>]
                      ELSE [headers |-> p.headers, body |-> p.body \o << >>]
  BY <1>5, ArticleParsed
<1> HIDE DEF p
<1>7. p.headers \o << >> = p.headers /\ p.body \o << >> = p.body
  BY <1>4, ConcatEmptySeq DEF Parser
<1> HIDE DEF end
<1>8. CASE Len(text) < end
  <2>1. p = [headers |-> before \o SubSeq(text, 1, Len(text)), body |-> << >>,
             line |-> << >>, inHeader |-> TRUE]
    BY <1>3, <1>8 DEF TextRead, end
  <2>2. end - 1 = Len(text) /\ SubSeq(text, end + 1, Len(text)) = << >>
    BY <1>1, <1>2, <1>8, SubSeqEmpty
  <2>3. Meant(text).headers = SubSeq(text, 1, Len(text)) /\ Meant(text).body = << >>
    BY <1>2, <2>2
  <2>4. ParseArticle(bytes) = [headers |-> p.headers, body |-> << >>]
    BY <1>6, <1>7, <2>1
  <2> QED  BY <2>1, <2>3, <2>4
<1>9. CASE ~ (Len(text) < end)
  <2>1. p = [headers |-> before \o SubSeq(text, 1, end - 1),
             body |-> SubSeq(text, end + 1, Len(text)), line |-> << >>, inHeader |-> FALSE]
    BY <1>3, <1>9 DEF TextRead, end
  <2> QED  BY <1>2, <1>6, <1>7, <2>1
<1> QED  BY <1>8, <1>9

-----------------------------------------------------------------------------
(* What CountPostLines and the gateway count.                              *)

Period == MaxChars + 1

\* The lines that the first lines of a text are, as in LinesOf.
Lines(text) ==
  LET upto[i \in 0..Len(text)] ==
        IF i = 0 THEN 0 ELSE upto[i - 1] + 1 + Len(text[i]) \div (MaxChars + 1)
  IN  upto

LEMMA Periods ==
  /\ Period \in Nat \ {0}
  /\ \A m \in Nat : m \div Period \in Nat /\ m % Period \in 0..MaxChars
  /\ 0 \div Period = 0 /\ 0 % Period = 0
  /\ \A m \in Nat : IF (m % Period) + 1 > MaxChars
                      THEN (m + 1) \div Period = m \div Period + 1 /\ (m + 1) % Period = 0
                      ELSE (m + 1) \div Period = m \div Period /\ (m + 1) % Period = (m % Period) + 1
<1>1. MaxChars \in Nat
  BY TextAssumption
<1>2. Period \in Nat \ {0} /\ MaxChars = Period - 1
  BY <1>1 DEF Period
<1> HIDE DEF Period
<1>3. ASSUME NEW m \in Nat
      PROVE  /\ m \div Period \in Nat /\ m % Period \in 0..MaxChars
             /\ IF (m % Period) + 1 > MaxChars
                  THEN (m + 1) \div Period = m \div Period + 1 /\ (m + 1) % Period = 0
                  ELSE (m + 1) \div Period = m \div Period /\ (m + 1) % Period = (m % Period) + 1
  BY <1>1, <1>2
<1>4. 0 \div Period = 0 /\ 0 % Period = 0
  BY <1>2
<1> QED  BY <1>2, <1>3, <1>4

LEMMA LinesStates ==
  ASSUME NEW text \in Seq(Line)
  PROVE  /\ Lines(text) \in [0..Len(text) -> Nat]
         /\ Lines(text)[0] = 0
         /\ \A i \in 1..Len(text) :
              Lines(text)[i] = Lines(text)[i - 1] + 1 + Len(text[i]) \div Period
         /\ LinesOf(text) = Lines(text)[Len(text)]
<1> DEFINE step == [x \in Nat \X (1..Len(text)) |-> x[1] + 1 + Len(text[x[2]]) \div Period]
<1>1. \A i \in 1..Len(text) : Len(text[i]) \div Period \in Nat
  <2> TAKE i \in 1..Len(text)
  <2>1. text[i] \in Line
    BY ElementOfSeq
  <2>2. Len(text[i]) \in Nat
    BY <2>1, LenProperties DEF Line
  <2> QED  BY <2>2, Periods
<1>2. step \in [Nat \X (1..Len(text)) -> Nat]
  BY <1>1
<1>3. PICK g : Values(g, Nat, 0, Len(text), step)
  <2>1. Steps(Nat, 0, Len(text), step)
    BY <1>2, LenProperties DEF Steps
  <2> HIDE DEF step
  <2> QED  BY <2>1, ValuesExist
<1>4. \A i \in 1..Len(text) : g[i] = g[i - 1] + 1 + Len(text[i]) \div Period
  <2> TAKE i \in 1..Len(text)
  <2>1. \A n \in Nat : step[<<n, i>>] = n + 1 + Len(text[i]) \div Period
    OBVIOUS
  <2> HIDE DEF step
  <2>2. i - 1 \in 0..Len(text)
    OBVIOUS
  <2>3. g[i] = step[<<g[i - 1], i>>] /\ g[i - 1] \in Nat
    BY <1>3, <2>2 DEF Values
  <2> QED  BY <2>1, <2>3
<1> HIDE DEF step
<1>5. g = [i \in 0..Len(text) |-> IF i = 0 THEN 0 ELSE g[i - 1] + 1 + Len(text[i]) \div Period]
  BY <1>3, <1>4 DEF Values
<1>6. Lines(text) = [i \in 0..Len(text) |->
        IF i = 0 THEN 0 ELSE Lines(text)[i - 1] + 1 + Len(text[i]) \div Period]
  BY <1>5 DEF Lines, Period
<1>7. /\ Lines(text)[0] = 0
      /\ \A i \in 1..Len(text) :
           Lines(text)[i] = Lines(text)[i - 1] + 1 + Len(text[i]) \div Period
  BY <1>6
<1> DEFINE S == {i \in Nat : i <= Len(text) => Lines(text)[i] \in Nat}
<1>8. S = Nat
  <2>1. 0 \in S
    BY <1>7
  <2>2. \A n \in S : n + 1 \in S
    BY <1>1, <1>7
  <2> QED  BY <2>1, <2>2, Induction
<1>9. Lines(text) \in [0..Len(text) -> Nat]
  <2>1. \A i \in 0..Len(text) : i \in S
    BY <1>8
  <2>2. \A i \in 0..Len(text) : Lines(text)[i] \in Nat
    BY <2>1
  <2> QED  BY <1>6, <2>2
<1>10. LinesOf(text) = Lines(text)[Len(text)]
  BY DEF LinesOf, Lines
<1> QED  BY <1>7, <1>9, <1>10

LEMMA LinesAppend ==
  /\ LinesOf(<< >>) = 0
  /\ \A text \in Seq(Line) : LinesOf(text) \in Nat
  /\ \A text \in Seq(Line), l \in Line :
       LinesOf(Append(text, l)) = LinesOf(text) + 1 + Len(l) \div Period
<1>1. << >> \in Seq(Line) /\ Len(<< >>) = 0
  OBVIOUS
<1>2. LinesOf(<< >>) = 0
  BY <1>1, LinesStates
<1>3. \A text \in Seq(Line) : LinesOf(text) \in Nat
  <2> TAKE text \in Seq(Line)
  <2>1. Len(text) \in 0..Len(text)
    BY LenProperties
  <2> QED  BY <2>1, LinesStates
<1>4. ASSUME NEW text \in Seq(Line), NEW l \in Line
      PROVE  LinesOf(Append(text, l)) = LinesOf(text) + 1 + Len(l) \div Period
  <2> DEFINE more == Append(text, l)
  <2>1. /\ more \in Seq(Line) /\ Len(more) = Len(text) + 1 /\ Len(text) \in Nat
        /\ more[Len(text) + 1] = l /\ \A i \in 1..Len(text) : more[i] = text[i]
    BY AppendProperties, LenProperties
  <2> HIDE DEF more
  <2>2. /\ Lines(text)[0] = 0
        /\ \A i \in 1..Len(text) :
             Lines(text)[i] = Lines(text)[i - 1] + 1 + Len(text[i]) \div Period
        /\ LinesOf(text) = Lines(text)[Len(text)]
    BY LinesStates
  <2>3. /\ Lines(more)[0] = 0
        /\ \A i \in 1..Len(more) :
             Lines(more)[i] = Lines(more)[i - 1] + 1 + Len(more[i]) \div Period
        /\ LinesOf(more) = Lines(more)[Len(more)]
    BY <2>1, LinesStates
  <2> DEFINE S == {i \in Nat : i <= Len(text) => Lines(more)[i] = Lines(text)[i]}
  <2>4. S = Nat
    <3>1. 0 \in S
      BY <2>2, <2>3
    <3>2. \A n \in S : n + 1 \in S
      <4> SUFFICES ASSUME NEW n \in S, n + 1 <= Len(text)
                   PROVE  Lines(more)[n + 1] = Lines(text)[n + 1]
        OBVIOUS
      <4>1. n \in Nat /\ n + 1 \in 1..Len(text) /\ n + 1 \in 1..Len(more) /\ (n + 1) - 1 = n
        BY <2>1
      <4>2. Lines(more)[n] = Lines(text)[n]
        BY <4>1
      <4> QED  BY <2>1, <2>2, <2>3, <4>1, <4>2
    <3> QED  BY <3>1, <3>2, Induction
  <2>5. Lines(more)[Len(text)] = Lines(text)[Len(text)]
    BY <2>1, <2>4
  <2>6. Lines(more)[Len(more)] = Lines(more)[Len(text)] + 1 + Len(l) \div Period
    BY <2>1, <2>3
  <2> QED  BY <2>2, <2>3, <2>5, <2>6 DEF more
<1> QED  BY <1>2, <1>3, <1>4

\* What has been counted when the loop of ParseArticle is where it is.
Tally(p) ==
  [linechars |-> Len(p.line) % Period,
   linecount |-> LinesOf(p.headers) + (IF p.inHeader THEN 0 ELSE 1) + LinesOf(p.body)
                   + Len(p.line) \div Period]

LEMMA TallyTyped ==
  ASSUME NEW p \in Parser
  PROVE  Tally(p) \in [linechars : 0..MaxChars, linecount : Nat]
<1>1. LinesOf(p.headers) \in Nat /\ LinesOf(p.body) \in Nat
  BY LinesAppend DEF Parser
<1>2. Len(p.line) \in Nat
  BY LenProperties DEF Parser, Line
<1>3. Len(p.line) % Period \in 0..MaxChars /\ Len(p.line) \div Period \in Nat
  BY <1>2, Periods
<1> QED  BY <1>1, <1>3 DEF Tally

LEMMA TallyNew == Tally(NewParser) = NoLines
BY LinesAppend, Periods DEF Tally, NewParser, NoLines

\* Counting goes along with parsing: one counts what the other takes for lines.
LEMMA TallyByte ==
  ASSUME NEW p \in Parser, NEW c \in Byte \ {CR}
  PROVE  Tally(ParseByte(p, c)) = CountByte(Tally(p), c)
<1> DEFINE h == LinesOf(p.headers)
           b == LinesOf(p.body)
           m == Len(p.line)
           q == ParseByte(p, c)
<1> SUFFICES Tally(q) = CountByte(Tally(p), c)
  OBVIOUS
<1>1. h \in Nat /\ b \in Nat /\ p.line \in Line /\ p.inHeader \in BOOLEAN
      /\ p.headers \in Seq(Line) /\ p.body \in Seq(Line)
  BY LinesAppend DEF Parser
<1>2. m \in Nat
  BY LenProperties DEF Parser, Line
<1>3. m % Period \in 0..MaxChars /\ m \div Period \in Nat
  BY <1>2, Periods
<1>4. MaxChars \in Nat
  BY TextAssumption
<1>5. /\ Tally(p).linechars = m % Period
      /\ Tally(p).linecount = h + (IF p.inHeader THEN 0 ELSE 1) + b + m \div Period
  BY DEF Tally
<1>6. CASE c = LF
  <2>1. CountByte(Tally(p), c) = [linechars |-> 0, linecount |-> Tally(p).linecount + 1]
    BY <1>6 DEF CountByte
  <2>2. q.line = << >>
    BY <1>6, ParseByteSteps
  <2>3. Len(<< >>) % Period = 0 /\ Len(<< >>) \div Period = 0
    BY Periods
  <2>4. CASE p.inHeader /\ p.line = << >>
    <3>1. q = [headers |-> p.headers, body |-> p.body, line |-> << >>, inHeader |-> FALSE]
      BY <1>6, <2>4, ParseByteSteps
    <3>2. m \div Period = 0
      BY <2>4, Periods
    <3>3. Tally(q) = [linechars |-> 0, linecount |-> h + 1 + b + 0]
      BY <2>3, <3>1 DEF Tally
    <3> HIDE DEF q, h, b, m
    <3> QED  BY <1>1, <1>5, <2>1, <2>4, <3>2, <3>3
  <2>5. CASE p.inHeader /\ p.line # << >>
    <3>1. q = [headers |-> Append(p.headers, p.line), body |-> p.body, line |-> << >>,
               inHeader |-> TRUE]
      BY <1>6, <2>5, ParseByteSteps
    <3>2. LinesOf(Append(p.headers, p.line)) = h + 1 + m \div Period
      BY <1>1, LinesAppend
    <3>3. Tally(q) = [linechars |-> 0, linecount |-> (h + 1 + m \div Period) + 0 + b + 0]
      BY <2>3, <3>1, <3>2 DEF Tally
    <3> HIDE DEF q, h, b, m
    <3> QED  BY <1>1, <1>3, <1>5, <2>1, <2>5, <3>3
  <2>6. CASE ~ p.inHeader
    <3>1. q = [headers |-> p.headers, body |-> Append(p.body, p.line), line |-> << >>,
               inHeader |-> FALSE]
      BY <1>6, <2>6, ParseByteSteps
    <3>2. LinesOf(Append(p.body, p.line)) = b + 1 + m \div Period
      BY <1>1, LinesAppend
    <3>3. Tally(q) = [linechars |-> 0, linecount |-> h + 1 + (b + 1 + m \div Period) + 0]
      BY <2>3, <3>1, <3>2 DEF Tally
    <3> HIDE DEF q, h, b, m
    <3> QED  BY <1>1, <1>3, <1>5, <2>1, <2>6, <3>3
  <2> QED  BY <2>4, <2>5, <2>6
<1>7. CASE c # LF
  <2>1. q = [headers |-> p.headers, body |-> p.body, line |-> Append(p.line, c),
             inHeader |-> p.inHeader]
    BY <1>7, ParseByteSteps
  <2>2. Len(Append(p.line, c)) = m + 1
    BY <1>1, AppendProperties DEF Line
  <2>3. Tally(q) = [linechars |-> (m + 1) % Period,
                    linecount |-> h + (IF p.inHeader THEN 0 ELSE 1) + b + (m + 1) \div Period]
    BY <2>1, <2>2 DEF Tally
  <2> HIDE DEF q, h, b, m
  <2>4. CASE (m % Period) + 1 > MaxChars
    <3>1. (m + 1) \div Period = m \div Period + 1 /\ (m + 1) % Period = 0
      BY <1>2, <2>4, Periods
    <3>2. CountByte(Tally(p), c) = [linechars |-> 0, linecount |-> Tally(p).linecount + 1]
      BY <1>5, <2>4 DEF CountByte
    <3> QED  BY <1>1, <1>3, <1>5, <2>3, <3>1, <3>2
  <2>5. CASE ~ ((m % Period) + 1 > MaxChars)
    <3>1. (m + 1) \div Period = m \div Period /\ (m + 1) % Period = (m % Period) + 1
      BY <1>2, <2>5, Periods
    <3>2. CountByte(Tally(p), c) = [Tally(p) EXCEPT !.linechars = @ + 1]
      BY <1>5, <1>7, <2>5 DEF CountByte
    <3>3. CountByte(Tally(p), c) =
            [linechars |-> (m % Period) + 1, linecount |-> Tally(p).linecount]
      BY <1>5, <3>2 DEF Tally
    <3> QED  BY <1>5, <2>3, <3>1, <3>3
  <2> QED  BY <2>4, <2>5
<1> QED  BY <1>6, <1>7

\* After the first lines of a text, and part of the next.
LEMMA TallyText ==
  ASSUME NEW text \in Seq(Line), NEW j \in 0..Len(text), NEW part \in Line
  PROVE  Tally(TextRead(<< >>, text, j, part)) =
           [linechars |-> Len(part) % Period,
            linecount |-> Lines(text)[j] + Len(part) \div Period]
<1>1. /\ Len(text) \in Nat /\ << >> \in Seq(Line) /\ << >> \in Line
      /\ \A i \in 1..Len(text) : text[i] \in Line
  BY LenProperties, ElementOfSeq DEF Line
<1>2. /\ Lines(text) \in [0..Len(text) -> Nat] /\ Lines(text)[0] = 0
      /\ \A i \in 1..Len(text) :
           Lines(text)[i] = Lines(text)[i - 1] + 1 + Len(text[i]) \div Period
  BY LinesStates
<1> DEFINE Count(i) == LET p == TextRead(<< >>, text, i, << >>) IN
                       LinesOf(p.headers) + (IF p.inHeader THEN 0 ELSE 1) + LinesOf(p.body)
<1>3. ASSUME NEW i \in 0..Len(text), NEW l \in Line
      PROVE  Tally(TextRead(<< >>, text, i, l)) =
               [linechars |-> Len(l) % Period, linecount |-> Count(i) + Len(l) \div Period]
  BY DEF TextRead, Tally
<1>4. \A i \in 0..Len(text) : Count(i) \in Nat
  <2> TAKE i \in 0..Len(text)
  <2> DEFINE p == TextRead(<< >>, text, i, << >>)
  <2>1. p \in Parser
    BY <1>1, TextReadTyped
  <2> HIDE DEF p
  <2>2. LinesOf(p.headers) \in Nat /\ LinesOf(p.body) \in Nat
    BY <2>1, LinesAppend DEF Parser
  <2> QED  BY <2>2 DEF p
<1> DEFINE S == {i \in Nat : i <= Len(text) => Count(i) = Lines(text)[i]}
<1> HIDE DEF Count
<1>5. Count(0) = 0
  <2>1. TextRead(<< >>, text, 0, << >>) =
          [headers |-> << >>, body |-> << >>, line |-> << >>, inHeader |-> TRUE]
    BY NothingRead DEF NewParser
  <2> QED  BY <2>1, LinesAppend DEF Count
<1>6. ASSUME NEW i \in 0..Len(text) - 1
      PROVE  Count(i + 1) = Count(i) + 1 + Len(text[i + 1]) \div Period
  <2> DEFINE p == TextRead(<< >>, text, i, text[i + 1])
             q == TextRead(<< >>, text, i + 1, << >>)
  <2>1. i \in 0..Len(text) /\ i + 1 \in 0..Len(text) /\ text[i + 1] \in Line
    BY <1>1
  <2>2. ParseByte(p, LF) = q
    BY <1>1, TextReadLF
  <2>3. p \in Parser /\ LF \in Byte \ {CR}
    BY <1>1, <2>1, TextReadTyped DEF Byte, CR, LF
  <2>4. /\ Tally(p).linecount = Count(i) + Len(text[i + 1]) \div Period
        /\ Tally(q).linecount = Count(i + 1) + Len(<< >>) \div Period
    BY <1>1, <1>3, <2>1
  <2> HIDE DEF p, q
  <2>5. Tally(q) = CountByte(Tally(p), LF)
    BY <2>2, <2>3, TallyByte
  <2>6. Tally(q).linecount = Tally(p).linecount + 1
    BY <2>5 DEF CountByte
  <2>7. Len(text[i + 1]) \div Period \in Nat /\ Len(<< >>) \div Period = 0
    <3>1. Len(text[i + 1]) \in Nat
      BY <2>1, LenProperties DEF Line
    <3> QED  BY <3>1, Periods
  <2> QED  BY <1>4, <2>1, <2>4, <2>6, <2>7
<1>7. S = Nat
  <2>1. 0 \in S
    BY <1>2, <1>5
  <2>2. \A n \in S : n + 1 \in S
    <3> SUFFICES ASSUME NEW n \in S, n + 1 <= Len(text)
                 PROVE  Count(n + 1) = Lines(text)[n + 1]
      OBVIOUS
    <3>1. n \in Nat /\ n \in 0..Len(text) - 1 /\ n + 1 \in 1..Len(text) /\ (n + 1) - 1 = n
      BY <1>1
    <3>2. Count(n) = Lines(text)[n]
      BY <3>1
    <3>3. Count(n + 1) = Count(n) + 1 + Len(text[n + 1]) \div Period
      BY <1>6, <3>1
    <3> QED  BY <1>2, <3>1, <3>2, <3>3
  <2> QED  BY <2>1, <2>2, Induction
<1>8. Count(j) = Lines(text)[j]
  <2>1. j \in S
    BY <1>7
  <2> QED  BY <2>1
<1> QED  BY <1>3, <1>8

\* The states of the loop of CountPostLines.
Counts(msg_) ==
  LET after[i \in 0..Len(msg_)] == IF i = 0 THEN NoLines ELSE CountByte(after[i - 1], msg_[i])
  IN  after

\* CountPostLines counts the lines that ParseArticle finds, when there is no CR.
LEMMA CountsTally ==
  ASSUME NEW bytes \in Seq(Byte \ {CR})
  PROVE  CountPostLines(bytes) =
           LET n == Tally(After(bytes)) IN n.linecount + IF n.linechars > 0 THEN 1 ELSE 0
<1> DEFINE g == [i \in 0..Len(bytes) |-> Tally(Parsed(bytes)[i])]
<1>1. bytes \in Seq(Byte) /\ Len(bytes) \in Nat /\ \A i \in 1..Len(bytes) : bytes[i] \in Byte \ {CR}
  BY LenProperties, ElementOfSeq
<1>2. /\ Parsed(bytes) \in [0..Len(bytes) -> Parser]
      /\ Parsed(bytes)[0] = NewParser
      /\ \A i \in 1..Len(bytes) : Parsed(bytes)[i] = ParseByte(Parsed(bytes)[i - 1], bytes[i])
  BY <1>1, ParsedStates
<1>3. g[0] = NoLines
  BY <1>1, <1>2, TallyNew
<1>4. \A i \in 1..Len(bytes) : g[i] = CountByte(g[i - 1], bytes[i])
  <2> TAKE i \in 1..Len(bytes)
  <2>1. i \in 0..Len(bytes) /\ i - 1 \in 0..Len(bytes)
    BY <1>1
  <2>2. g[i] = Tally(ParseByte(Parsed(bytes)[i - 1], bytes[i]))
        /\ g[i - 1] = Tally(Parsed(bytes)[i - 1])
    BY <1>2, <2>1
  <2>3. Parsed(bytes)[i - 1] \in Parser
    BY <1>2, <2>1
  <2> HIDE DEF g
  <2> QED  BY <1>1, <2>2, <2>3, TallyByte
<1>5. g = [i \in 0..Len(bytes) |-> IF i = 0 THEN NoLines ELSE CountByte(g[i - 1], bytes[i])]
  <2>1. \A i \in 0..Len(bytes) :
          g[i] = IF i = 0 THEN NoLines ELSE CountByte(g[i - 1], bytes[i])
    BY <1>1, <1>3, <1>4
  <2>2. g = [i \in 0..Len(bytes) |-> g[i]]
    OBVIOUS
  <2> HIDE DEF g
  <2> QED  BY <2>1, <2>2
<1> DEFINE f == Counts(bytes)
<1>6. f = [i \in 0..Len(bytes) |-> IF i = 0 THEN NoLines ELSE CountByte(f[i - 1], bytes[i])]
  <2> HIDE DEF g
  <2> QED  BY <1>5 DEF Counts
<1>7. \A i \in 0..Len(bytes) : f[i] = IF i = 0 THEN NoLines ELSE CountByte(f[i - 1], bytes[i])
  <2> HIDE DEF f
  <2> QED  BY <1>6
<1> DEFINE S == {i \in Nat : i <= Len(bytes) => f[i] = g[i]}
<1>8. S = Nat
  <2> HIDE DEF f, g
  <2>1. 0 \in S
    BY <1>1, <1>3, <1>7
  <2>2. \A n \in S : n + 1 \in S
    <3> SUFFICES ASSUME NEW n \in S, n + 1 <= Len(bytes) PROVE f[n + 1] = g[n + 1]
      OBVIOUS
    <3>1. n \in Nat /\ n + 1 \in 1..Len(bytes) /\ n + 1 \in 0..Len(bytes) /\ (n + 1) - 1 = n
          /\ n + 1 # 0
      BY <1>1
    <3>2. f[n] = g[n]
      BY <3>1
    <3> QED  BY <1>4, <1>7, <3>1, <3>2
  <2> QED  BY <2>1, <2>2, Induction
<1>9. f[Len(bytes)] = Tally(After(bytes))
  <2>1. Len(bytes) \in 0..Len(bytes)
    BY <1>1
  <2>2. f[Len(bytes)] = g[Len(bytes)]
    <3> HIDE DEF f, g
    <3>1. Len(bytes) \in S
      BY <1>1, <1>8
    <3> QED  BY <1>1, <3>1
  <2> QED  BY <2>1, <2>2 DEF After
<1>10. CountPostLines(bytes) =
         f[Len(bytes)].linecount + IF f[Len(bytes)].linechars > 0 THEN 1 ELSE 0
  BY DEF CountPostLines, Counts
<1> HIDE DEF f
<1> QED  BY <1>9, <1>10

-----------------------------------------------------------------------------
(* Where the bytes that are still to come stand in what the sender means.  *)

PostWires(text, eol) == [i \in 1..Len(text) |-> Escaped(text[i]) \o eol]
TalkWires(eol) == [i \in 1..Len(sent) |-> ItemWire(sent[i], eol)]

\* After k items of a talk.
TalkToCome(eol, k) == Rest(TalkWires(eol), k)

\* After j lines of the text of item k.
TextToCome(eol, k, j) ==
  Rest(PostWires(sent[k].text, eol), j) \o (<<Dot>> \o (eol \o TalkToCome(eol, k)))

\* After the command of item k.
ItemToCome(eol, k) ==
  IF sent[k].command = POST THEN TextToCome(eol, k, 0) ELSE TalkToCome(eol, k)

\* The bytes to come, unless the sender is gone.
ToCome(bytes) == rest = IF link = "closed" THEN << >> ELSE bytes

\* Between two items, or in the line of a command.
AtCommand(eol) ==
  LET k == Len(heard) + 1 IN
  \/ line = << >> /\ ~ skip /\ ToCome(TalkToCome(eol, k - 1))
  \/ /\ k <= Len(sent) /\ line = <<sent[k].command>>
     /\ \/ ~ skip /\ ToCome(eol \o ItemToCome(eol, k))
        \/ skip /\ ToCome(<<LF>> \o ItemToCome(eol, k))

AtDispatch(eol) ==
  LET k == Len(heard) + 1 IN
  /\ k <= Len(sent) /\ line = <<sent[k].command>> /\ ~ skip
  /\ ToCome(ItemToCome(eol, k))

\* At the beginning of a line of a text or of the dot after it.
LineBegins(eol, k, j) ==
  /\ mode = IF j = 0 THEN "normal" ELSE "crlf"
  /\ ToCome(TextToCome(eol, k, j))
  /\ After(msg) = TextRead(<< >>, sent[k].text, j, << >>)

\* After m bytes of a line, or after the dot before it.
WithinLine(eol, k, j, m) ==
  LET l == sent[k].text[j + 1] IN
  /\ IF m = 0 THEN mode = "crlfdot" /\ StartsWith(l, Dot) ELSE mode = "normal"
  /\ ToCome(SubSeq(l, m + 1, Len(l)) \o (eol \o TextToCome(eol, k, j + 1)))
  /\ After(msg) = TextRead(<< >>, sent[k].text, j, SubSeq(l, 1, m))

\* Between CR and LF.
LineEnds(eol, k, j) ==
  /\ mode # "crlfdot"
  /\ ToCome(<<LF>> \o TextToCome(eol, k, j + 1))
  /\ After(msg) = TextRead(<< >>, sent[k].text, j, sent[k].text[j + 1])

\* After the last dot.
TextEnds(eol, k) ==
  /\ mode = "crlfdot"
  /\ \E e \in {eol, <<LF>>} : ToCome(e \o TalkToCome(eol, k))
  /\ After(msg) = TextRead(<< >>, sent[k].text, Len(sent[k].text), << >>)

InPost == Len(heard) + 1 <= Len(sent) /\ sent[Len(heard) + 1].command = POST
          /\ line = << >> /\ ~ skip

AtBody(eol) ==
  LET k == Len(heard) + 1
      text == sent[k].text IN
  /\ InPost
  /\ \/ \E j \in 0..Len(text) : LineBegins(eol, k, j)
     \/ \E j \in 0..Len(text) - 1 :
          LineEnds(eol, k, j) \/ \E m \in 0..Len(text[j + 1]) : WithinLine(eol, k, j, m)
     \/ TextEnds(eol, k)

AtPost(eol) ==
  LET k == Len(heard) + 1 IN
  /\ InPost
  /\ ToCome(TalkToCome(eol, k))
  /\ After(msg) = TextRead(<< >>, sent[k].text, Len(sent[k].text), << >>)

\* The lines of a mail, the last one with its end or, if cut, without.
MailLines(text, eol, cut) ==
  [i \in 1..Len(text) |-> IF cut /\ i = Len(text) THEN text[i] ELSE text[i] \o eol]

MailToCome(eol, cut, j) == Rest(MailLines(sent[1].text, eol, cut), j)

\* What the gateway puts before a mail.
Before == << <<Newsgroups>>, <<Gateway>> >>

\* As long as no line was too many, all that has come is in msg; it is counted in
\* any case.
MailRead(j, part) ==
  /\ ~ toolong => After(msg) = TextRead(Before, sent[1].text, j, part)
  /\ count = Tally(TextRead(<< >>, sent[1].text, j, part))

\* The end of line j.
MailEnd(eol, cut, text, j) == IF cut /\ j = Len(text) THEN << >> ELSE eol

\* At the beginning of line j + 1, within line j, and between its CR and LF.
MailBegun(eol, cut, j) ==
  rest = MailToCome(eol, cut, j) /\ MailRead(j, << >>)

MailWithin(eol, cut, text, j, m) ==
  /\ rest = SubSeq(text[j], m + 1, Len(text[j]))
               \o (MailEnd(eol, cut, text, j) \o MailToCome(eol, cut, j))
  /\ MailRead(j - 1, SubSeq(text[j], 1, m))

MailLineEnds(eol, cut, text, j) ==
  /\ ~ (cut /\ j = Len(text))
  /\ rest = <<LF>> \o MailToCome(eol, cut, j)
  /\ MailRead(j - 1, text[j])

MailPlace(eol, cut, text) ==
  \/ \E j \in 0..Len(text) : MailBegun(eol, cut, j)
  \/ \E j \in 1..Len(text) : \E m \in 1..Len(text[j]) : MailWithin(eol, cut, text, j, m)
  \/ \E j \in 1..Len(text) : MailLineEnds(eol, cut, text, j)

AtMail(eol) ==
  LET text == sent[1].text IN
  /\ heard = << >> /\ Len(sent) = 1 /\ sent[1].command = POST
  /\ link = "open"
  /\ \E cut \in BOOLEAN :
       (cut => text # << >> /\ text[Len(text)] # << >>) /\ MailPlace(eol, cut, text)

Position(eol) ==
  /\ at = "command" => AtCommand(eol)
  /\ at = "dispatch" => AtDispatch(eol)
  /\ at = "body" => AtBody(eol)
  /\ at = "post" => AtPost(eol)
  /\ at = "mail" => AtMail(eol)

\* The inductive invariant of Framed.
FramedInv ==
  /\ Typed
  /\ Framed
  /\ at \in {"command", "dispatch", "body", "post"} => sent \in Talks
  /\ ~ failed => \E eol \in Eol : Position(eol)

-----------------------------------------------------------------------------
(* The steps of TalkToCome, TextToCome and MailToCome.                     *)

\* Taking the first of some bytes.
LEMMA TakeByte ==
  ASSUME NEW c \in Byte, NEW tail \in Seq(Byte)
  PROVE  /\ <<c>> \o tail \in Seq(Byte)
         /\ <<c>> \o tail # << >>
         /\ Head(<<c>> \o tail) = c
         /\ Tail(<<c>> \o tail) = tail
<1> DEFINE s == <<c>> \o tail
<1>1. <<c>> \in Seq(Byte) /\ Len(<<c>>) = 1 /\ <<c>>[1] = c /\ Len(tail) \in Nat
  BY LenProperties
<1>2. /\ s \in Seq(Byte) /\ Len(s) = 1 + Len(tail)
      /\ \A i \in 1..1 + Len(tail) : s[i] = IF i <= 1 THEN <<c>>[i] ELSE tail[i - 1]
  BY <1>1, ConcatProperties
<1> HIDE DEF s
<1>3. s # << >> /\ s[1] = c
  BY <1>1, <1>2
<1>4. Head(s) = c
  BY <1>2, <1>3
<1>5. Tail(s) \in Seq(Byte) /\ Len(Tail(s)) = Len(tail)
      /\ \A i \in 1..Len(Tail(s)) : Tail(s)[i] = s[i + 1]
  BY <1>1, <1>2, <1>3, HeadTailProperties
<1>6. \A i \in 1..Len(Tail(s)) : Tail(s)[i] = tail[i]
  <2> TAKE i \in 1..Len(Tail(s))
  <2>1. i + 1 \in 1..1 + Len(tail) /\ ~ (i + 1 <= 1) /\ (i + 1) - 1 = i
    BY <1>1, <1>5
  <2> QED  BY <1>2, <1>5, <2>1
<1>7. Tail(s) = tail
  BY <1>5, <1>6, SeqEqual
<1> QED  BY <1>2, <1>3, <1>4, <1>7 DEF s

LEMMA TalkSteps ==
  ASSUME sent \in Seq(Item), NEW eol \in Eol
  PROVE  /\ TalkToCome(eol, Len(sent)) = << >>
         /\ \A k \in 0..Len(sent) : TalkToCome(eol, k) \in Seq(Byte)
         /\ \A k \in 1..Len(sent) :
              TalkToCome(eol, k - 1) = ItemWire(sent[k], eol) \o TalkToCome(eol, k)
<1> DEFINE w == TalkWires(eol)
<1>1. Len(sent) \in Nat /\ \A i \in 1..Len(sent) : sent[i] \in Item
  BY LenProperties, ElementOfSeq
<1>2. /\ Len(w) = Len(sent) /\ \A i \in 1..Len(w) : w[i] \in Seq(Byte)
      /\ \A i \in 1..Len(w) : w[i] = ItemWire(sent[i], eol)
  BY <1>1, ItemWireTyped DEF TalkWires
<1> HIDE DEF w
<1>3. /\ Rest(w, Len(w)) = << >>
      /\ \A k \in 0..Len(w) - 1 : Rest(w, k) = w[k + 1] \o Rest(w, k + 1)
      /\ \A k \in 0..Len(w) : Rest(w, k) \in Seq(Byte)
  BY <1>1, <1>2, RestSteps
<1>4. ASSUME NEW k \in 1..Len(sent)
      PROVE  TalkToCome(eol, k - 1) = ItemWire(sent[k], eol) \o TalkToCome(eol, k)
  <2>1. k - 1 \in 0..Len(w) - 1 /\ (k - 1) + 1 = k
    BY <1>1, <1>2
  <2> QED  BY <1>2, <1>3, <2>1 DEF TalkToCome, w
<1> QED  BY <1>2, <1>3, <1>4 DEF TalkToCome, w

LEMMA TextSteps ==
  ASSUME sent \in Seq(Item), NEW eol \in Eol, NEW k \in 1..Len(sent)
  PROVE  LET text == sent[k].text IN
         /\ TextToCome(eol, k, Len(text)) = <<Dot>> \o (eol \o TalkToCome(eol, k))
         /\ \A j \in 0..Len(text) : TextToCome(eol, k, j) \in Seq(Byte)
         /\ \A j \in 0..Len(text) - 1 : TextToCome(eol, k, j) =
              Escaped(text[j + 1]) \o (eol \o TextToCome(eol, k, j + 1))
         /\ TextToCome(eol, k, 0) =
              Wire([i \in 1..Len(text) |-> Escaped(text[i])], eol)
                \o (<<Dot>> \o (eol \o TalkToCome(eol, k)))
<1> DEFINE text == sent[k].text
           w == PostWires(text, eol)
           end == <<Dot>> \o (eol \o TalkToCome(eol, k))
           escaped == [i \in 1..Len(text) |-> Escaped(text[i])]
<1>1. sent[k] \in Item
  BY ElementOfSeq
<1>2. text \in Seq(Line) /\ Len(text) \in Nat
  BY <1>1, LenProperties DEF Item
<1>3. end \in Seq(Byte) /\ eol \in Seq(Byte)
  <2>1. k \in 0..Len(sent)
    BY LenProperties
  <2>2. TalkToCome(eol, k) \in Seq(Byte) /\ eol \in Seq(Byte) /\ <<Dot>> \in Seq(Byte)
    BY <2>1, TalkSteps, BytesAreBytes
  <2> QED  BY <2>2, ConcatProperties
<1> HIDE DEF end, text
<1>4. escaped \in Seq(Line) /\ Len(escaped) = Len(text)
      /\ \A i \in 1..Len(text) : escaped[i] = Escaped(text[i])
  BY <1>2, EscapedTyped
<1>5. w = [i \in 1..Len(escaped) |-> escaped[i] \o eol]
  BY <1>4 DEF PostWires
<1>6. /\ Len(w) = Len(text) /\ w \in Seq(Seq(Byte))
      /\ Wire(escaped, eol) = Rest(w, 0)
  <2> HIDE DEF w, escaped
  <2> QED  BY <1>4, <1>5, WireRest
<1>7. \A i \in 1..Len(text) : w[i] = Escaped(text[i]) \o eol
  BY DEF PostWires
<1>8. \A i \in 1..Len(text) : Escaped(text[i]) \in Seq(Byte)
  BY <1>4, ElementOfSeq, BytesAreBytes
<1> HIDE DEF w, escaped
<1>9. /\ Rest(w, Len(w)) = << >>
      /\ \A j \in 0..Len(w) - 1 : Rest(w, j) = w[j + 1] \o Rest(w, j + 1)
      /\ \A j \in 0..Len(w) : Rest(w, j) \in Seq(Byte)
  BY <1>2, <1>6, RestSteps, ElementOfSeq
<1>10. \A j : TextToCome(eol, k, j) = Rest(w, j) \o end
  BY DEF TextToCome, w, end, text
<1>11. TextToCome(eol, k, Len(text)) = end
  <2>1. TextToCome(eol, k, Len(text)) = << >> \o end
    BY <1>6, <1>9, <1>10
  <2> QED  BY <1>3, <2>1, Joined
<1>12. \A j \in 0..Len(text) : TextToCome(eol, k, j) \in Seq(Byte)
  <2> TAKE j \in 0..Len(text)
  <2>1. Rest(w, j) \in Seq(Byte) /\ TextToCome(eol, k, j) = Rest(w, j) \o end
    BY <1>6, <1>9, <1>10
  <2> QED  BY <1>3, <2>1, Joined
<1>13. ASSUME NEW j \in 0..Len(text) - 1
       PROVE  TextToCome(eol, k, j) = Escaped(text[j + 1]) \o (eol \o TextToCome(eol, k, j + 1))
  <2> DEFINE a == Escaped(text[j + 1])
             r == Rest(w, j + 1)
  <2>1. j + 1 \in 1..Len(text) /\ j + 1 \in 0..Len(text)
    BY <1>2
  <2>2. a \in Seq(Byte) /\ r \in Seq(Byte) /\ Rest(w, j) = (a \o eol) \o r
    BY <1>6, <1>7, <1>8, <1>9, <2>1
  <2>3. TextToCome(eol, k, j) = ((a \o eol) \o r) \o end
    BY <1>10, <2>2
  <2>4. TextToCome(eol, k, j + 1) = r \o end
    BY <1>10
  <2> HIDE DEF a, r
  <2>5. ((a \o eol) \o r) \o end = a \o (eol \o (r \o end))
    <3>1. a \in Seq(Byte) /\ eol \in Seq(Byte) /\ r \in Seq(Byte) /\ end \in Seq(Byte)
      BY <1>3, <2>2
    <3> HIDE DEF end
    <3>2. Regroups4(a, eol, r, end)
      BY <3>1, Associative4
    <3> QED  BY <3>2 DEF Regroups4
  <2> QED  BY <2>3, <2>4, <2>5 DEF a
<1>14. TextToCome(eol, k, 0) = Wire(escaped, eol) \o end
  BY <1>6, <1>10
<1> QED  BY <1>11, <1>12, <1>13, <1>14 DEF text, end, escaped

LEMMA ItemSteps ==
  ASSUME sent \in Seq(Item), NEW eol \in Eol, NEW k \in 1..Len(sent)
  PROVE  /\ ItemToCome(eol, k) \in Seq(Byte)
         /\ TalkToCome(eol, k - 1) = <<sent[k].command>> \o (eol \o ItemToCome(eol, k))
<1> DEFINE text == sent[k].text
           c == <<sent[k].command>>
           t == TalkToCome(eol, k)
           w == Wire([i \in 1..Len(text) |-> Escaped(text[i])], eol)
<1>1. sent[k] \in Item /\ Len(sent) \in Nat
  BY ElementOfSeq, LenProperties
<1>2. /\ t \in Seq(Byte) /\ c \in Seq(Byte) /\ eol \in Seq(Byte) /\ <<Dot>> \in Seq(Byte)
      /\ << >> \in Seq(Byte)
  <2>1. k \in 0..Len(sent)
    BY <1>1
  <2> QED  BY <1>1, <2>1, TalkSteps, BytesAreBytes DEF Item
<1>3. w \in Seq(Byte)
  <2>1. text \in Seq(Line)
    BY <1>1 DEF Item
  <2> HIDE DEF text
  <2>2. [i \in 1..Len(text) |-> Escaped(text[i])] \in Seq(Line)
    BY <2>1, EscapedTyped
  <2> QED  BY <2>2, WireRest
<1>4. ItemWire(sent[k], eol) = c \o eol \o
         IF sent[k].command = POST THEN w \o <<Dot>> \o eol ELSE << >>
  BY DEF ItemWire
<1>5. TalkToCome(eol, k - 1) = ItemWire(sent[k], eol) \o t
  BY TalkSteps
<1>6. sent[k].command = POST => ItemToCome(eol, k) = w \o (<<Dot>> \o (eol \o t))
  BY TextSteps DEF ItemToCome
<1>7. sent[k].command # POST => ItemToCome(eol, k) = t
  BY DEF ItemToCome
<1> HIDE DEF c, t, w
<1>8. CASE sent[k].command = POST
  <2>1. w \o <<Dot>> \o eol \in Seq(Byte) /\ eol \o t \in Seq(Byte) /\ w \o <<Dot>> \in Seq(Byte)
        /\ <<Dot>> \o (eol \o t) \in Seq(Byte)
    BY <1>2, <1>3, ConcatProperties
  <2>2. ((w \o <<Dot>>) \o eol) \o t = w \o (<<Dot>> \o (eol \o t))
    <3>1. Regroups4(w, <<Dot>>, eol, t)
      BY <1>2, <1>3, Associative4
    <3> QED  BY <3>1 DEF Regroups4
  <2>3. c \o eol \in Seq(Byte)
    BY <1>2, ConcatProperties
  <2> DEFINE x == w \o <<Dot>> \o eol
  <2>7. x \in Seq(Byte)
    BY <2>1
  <2> HIDE DEF x
  <2>4. ((c \o eol) \o x) \o t = c \o (eol \o (x \o t))
    <3>1. Regroups4(c, eol, x, t)
      BY <1>2, <2>7, Associative4
    <3> QED  BY <3>1 DEF Regroups4
  <2>5. ItemToCome(eol, k) = w \o (<<Dot>> \o (eol \o t))
    BY <1>6, <1>8
  <2>6. w \o (<<Dot>> \o (eol \o t)) \in Seq(Byte)
    BY <1>3, <2>1, ConcatProperties
  <2> QED  BY <1>4, <1>5, <1>8, <2>2, <2>4, <2>5, <2>6 DEF c, x
<1>9. CASE sent[k].command # POST
  <2>1. ItemWire(sent[k], eol) = c \o eol \o << >>
    BY <1>4, <1>9
  <2>2. c \o eol \in Seq(Byte)
    BY <1>2, ConcatProperties
  <2>3. c \o eol \o << >> = c \o eol
    BY <2>2, ConcatEmptySeq
  <2>4. (c \o eol) \o t = c \o (eol \o t)
    <3>1. Regroups(c, eol, t)
      BY <1>2, Associative
    <3> QED  BY <3>1 DEF Regroups
  <2> QED  BY <1>2, <1>5, <1>7, <1>9, <2>1, <2>3, <2>4 DEF c
<1> QED  BY <1>8, <1>9

\* The first line of a text begins with something, and not with a dot: the body is
\* read as if it began within a line.
WellBegun ==
  \A talk \in Talks : \A i \in 1..Len(talk) : talk[i].command = POST =>
    talk[i].text # << >> /\ ~ StartsWith(talk[i].text[1], Dot)

\* What is to come is only a matter of what is sent.
LEMMA SameToCome ==
  ASSUME sent' = sent, NEW eol, NEW k
  PROVE  /\ TalkToCome(eol, k)' = TalkToCome(eol, k)
         /\ \A j : TextToCome(eol, k, j)' = TextToCome(eol, k, j)
         /\ ItemToCome(eol, k)' = ItemToCome(eol, k)
         /\ \A cut, j : MailToCome(eol, cut, j)' = MailToCome(eol, cut, j)
BY DEF TalkToCome, TextToCome, ItemToCome, MailToCome, TalkWires

LEMMA SamePlace ==
  ASSUME UNCHANGED vars, NEW eol, Position(eol)
  PROVE  Position(eol)'
<1> USE DEF vars, input, reader, gateway, history
<1>1. /\ at' = "command" => AtCommand(eol)'
      /\ at' = "dispatch" => AtDispatch(eol)'
  BY DEF Position, AtCommand, AtDispatch, ToCome, TalkToCome, TextToCome, ItemToCome, TalkWires
<1>2. /\ at' = "body" => AtBody(eol)'
      /\ at' = "post" => AtPost(eol)'
  BY ZenonT(40)
     DEF Position, AtBody, AtPost, LineBegins, WithinLine, LineEnds, TextEnds, InPost, ToCome,
         TalkToCome, TextToCome, TalkWires
<1>3. at' = "mail" => AtMail(eol)'
  <2>1. /\ UNCHANGED <<sent, rest, link, at, heard>>
        /\ \A j, part : MailRead(j, part) => MailRead(j, part)'
        /\ \A cut, j : MailToCome(eol, cut, j)' = MailToCome(eol, cut, j)
    BY DEF MailRead, MailToCome
  <2>2. \A cut, text : MailPlace(eol, cut, text) => MailPlace(eol, cut, text)'
    <3>1. /\ \A cut, j : MailBegun(eol, cut, j) => MailBegun(eol, cut, j)'
          /\ \A cut, text, j : MailLineEnds(eol, cut, text, j) => MailLineEnds(eol, cut, text, j)'
      BY <2>1 DEF MailBegun, MailLineEnds
    <3>2. \A cut, text, j, m :
            MailWithin(eol, cut, text, j, m) => MailWithin(eol, cut, text, j, m)'
      BY <2>1 DEF MailWithin
    <3> QED  BY <3>1, <3>2 DEF MailPlace
  <2>3. at = "mail" => AtMail(eol)
    BY DEF Position
  <2> QED  BY <2>1, <2>2, <2>3 DEF AtMail
<1> QED  BY <1>1, <1>2, <1>3 DEF Position

LEMMA LinkPlace ==
  ASSUME UNCHANGED <<sent, at, reader, selected, gateway, history>>, at # "mail",
         \/ link # "closed" /\ link' # "closed" /\ rest' = rest
         \/ link' = "closed" /\ rest' = << >>,
         NEW eol, Position(eol)
  PROVE  Position(eol)'
BY ZenonT(40) DEF reader, gateway, history, Position, AtCommand, AtDispatch, AtBody,
       AtPost, LineBegins, WithinLine, LineEnds, TextEnds, InPost, ToCome,
       TalkToCome, TextToCome, ItemToCome, MailToCome, TalkWires

\* A byte that arrives is the first of those to come.
LEMMA ByteComes ==
  ASSUME link = "open", link' = link, NEW c \in Byte, NEW tail \in Seq(Byte),
         ToCome(<<c>> \o tail), rest' = Tail(rest)
  PROVE  Head(rest) = c /\ rest' = (IF link' = "closed" THEN << >> ELSE tail)
BY TakeByte DEF ToCome

LEMMA CrLf == Crlf = <<CR>> \o <<LF>>
<1>1. <<CR>> \in Seq(Byte) /\ <<LF>> \in Seq(Byte)
  BY DEF Byte
<1> DEFINE s == <<CR>> \o <<LF>>
<1>2. s \in Seq(Byte) /\ Len(s) = 2 /\ s[1] = CR /\ s[2] = LF
  <2>1. Len(<<CR>>) = 1 /\ Len(<<LF>>) = 1 /\ <<CR>>[1] = CR /\ <<LF>>[1] = LF
    OBVIOUS
  <2>2. 1 \in 1..1 + 1 /\ 2 \in 1..1 + 1 /\ 1 <= 1 /\ ~ (2 <= 1) /\ 2 - 1 = 1 /\ 1 + 1 = 2
    OBVIOUS
  <2> QED  BY <1>1, <2>1, <2>2, ConcatProperties
<1> HIDE DEF s
<1>3. s = <<CR, LF>>
  BY <1>2
<1> QED  BY <1>3 DEF Crlf, s

LEMMA EolBytes ==
  ASSUME NEW eol \in Eol, NEW tail \in Seq(Byte)
  PROVE  \/ eol = <<LF>>
         \/ eol \o tail = <<CR>> \o (<<LF>> \o tail)
<1>1. CASE eol = Crlf
  <2>1. <<CR>> \in Seq(Byte) /\ <<LF>> \in Seq(Byte)
    BY DEF Byte
  <2>2. (<<CR>> \o <<LF>>) \o tail = <<CR>> \o (<<LF>> \o tail)
    <3>1. Regroups(<<CR>>, <<LF>>, tail)
      BY <2>1, Associative
    <3> QED  BY <3>1 DEF Regroups
  <2> QED  BY <1>1, <2>2, CrLf
<1> QED  BY <1>1 DEF Eol

\* The commands that were taken are among those that were sent.
LEMMA Counted ==
  ASSUME Typed, Framed, ~ failed
  PROVE  /\ sent \in Seq(Item) /\ Len(sent) \in Nat /\ Len(heard) \in Nat
         /\ Len(heard) <= Len(sent) /\ Len(answer) = Len(heard)
         /\ Len(heard) + 1 \in Nat /\ (Len(heard) + 1) - 1 = Len(heard)
<1> DEFINE Taken == [command : {POST, GROUP, "unknown"}, headers : Seq(Line), body : Seq(Line)]
<1>1. sent \in Seq(Item) /\ heard \in Seq(Taken) /\ Len(answer) = Len(heard)
  BY DEF Typed, TypeOK
<1>2. Len(heard) <= Len(sent)
  BY DEF Framed
<1> HIDE DEF Taken
<1>3. Len(heard) \in Nat /\ Len(sent) \in Nat
  BY <1>1, LenProperties
<1> QED  BY <1>1, <1>2, <1>3

LEMMA ReadLineFramed ==
  ASSUME FramedInv, ReadLine, ~ failed, MaxLine > 1
  PROVE  FramedInv'
<1> DEFINE k == Len(heard) + 1
<1>1. Typed /\ Framed /\ Typed'
  BY ReadLineTyped DEF FramedInv
<1>2. /\ sent \in Seq(Item) /\ Len(sent) \in Nat /\ Len(heard) \in Nat /\ k \in Nat
      /\ k - 1 <= Len(sent) /\ k - 1 = Len(heard)
  BY <1>1, Counted
<1>3. /\ at = "command" /\ link = "open" /\ rest # << >> /\ link' = link
      /\ UNCHANGED <<sent, heard, answer, failed>> /\ rest' = Tail(rest)
  BY DEF ReadLine, Arrives, history
<1>4. Framed' /\ sent' \in Talks /\ ~ failed'
  BY <1>1, <1>3 DEF Framed, FramedInv
<1>5. PICK eol \in Eol : AtCommand(eol)
  BY <1>3 DEF FramedInv, Position
<1>6. {CR, LF} \subseteq Byte /\ eol \in Seq(Byte) /\ CR # LF
  BY BytesAreBytes DEF Byte, CR, LF
<1>7. CASE line = << >> /\ ~ skip /\ ToCome(TalkToCome(eol, k - 1))
  <2>1. k <= Len(sent)
    <3>1. TalkToCome(eol, k - 1) # << >>
      BY <1>3, <1>7 DEF ToCome
    <3>2. k - 1 # Len(sent)
      BY <1>2, <3>1, TalkSteps
    <3> QED  BY <1>2, <3>2
  <2> DEFINE c == sent[k].command
             tail == eol \o ItemToCome(eol, k)
  <2>2. k \in 1..Len(sent) /\ sent[k] \in Item
    BY <1>2, <2>1, ElementOfSeq
  <2>3. c \in Byte /\ c \notin {CR, LF} /\ c \in {POST, GROUP}
    BY <2>2 DEF Item, Byte, POST, GROUP, CR, LF
  <2>4. tail \in Seq(Byte) /\ TalkToCome(eol, k - 1) = <<c>> \o tail
    BY <1>2, <1>6, <2>2, ItemSteps, Joined
  <2> HIDE DEF tail
  <2>5. Head(rest) = c /\ rest' = (IF link' = "closed" THEN << >> ELSE tail)
    <3>1. ToCome(<<c>> \o tail)
      BY <1>7, <2>4
    <3> QED  BY <1>3, <2>3, <2>4, <3>1, ByteComes
  <2>6. line' = <<c>> /\ skip' = FALSE /\ at' = "command"
    <3>1. ~ EndOfLine(Head(rest))
      BY <1>7, <2>3, <2>5 DEF EndOfLine
    <3>2. Len(line) + 1 # MaxLine /\ Append(line, c) = <<c>>
      BY <1>7
    <3> QED  BY <1>3, <2>3, <2>5, <3>1, <3>2 DEF ReadLine
  <2>7. AtCommand(eol)'
    <3>1. ItemToCome(eol, k)' = ItemToCome(eol, k)
      BY <1>3 DEF TalkToCome, TextToCome, ItemToCome, TalkWires
    <3> QED  BY <1>3, <2>1, <2>5, <2>6, <3>1 DEF AtCommand, ToCome, tail
  <2> QED  BY <1>1, <1>4, <2>6, <2>7 DEF FramedInv, Position
<1>8. CASE /\ k <= Len(sent) /\ line = <<sent[k].command>> /\ ~ skip
           /\ ToCome(eol \o ItemToCome(eol, k))
  <2>1. k \in 1..Len(sent)
    BY <1>2, <1>8
  <2>2. ItemToCome(eol, k) \in Seq(Byte) /\ <<LF>> \o ItemToCome(eol, k) \in Seq(Byte)
    BY <1>2, <2>1, BytesAreBytes, ItemSteps, Joined
  <2>3. CASE eol = <<LF>>
    <3>1. Head(rest) = LF /\ rest' = (IF link' = "closed" THEN << >> ELSE ItemToCome(eol, k))
      BY <1>3, <1>6, <1>8, <2>2, <2>3, ByteComes
    <3>2. at' = "dispatch" /\ skip' = FALSE /\ line' = line
      BY <3>1 DEF ReadLine, EndOfLine
    <3>3. AtDispatch(eol)'
      <4>1. ItemToCome(eol, k)' = ItemToCome(eol, k)
        BY <1>3 DEF TalkToCome, TextToCome, ItemToCome, TalkWires
      <4> QED  BY <1>3, <1>8, <3>1, <3>2, <4>1 DEF AtDispatch, ToCome
    <3> QED  BY <1>1, <1>4, <3>2, <3>3 DEF FramedInv, Position
  <2>4. CASE eol # <<LF>>
    <3>1. eol \o ItemToCome(eol, k) = <<CR>> \o (<<LF>> \o ItemToCome(eol, k))
      BY <2>2, <2>4, EolBytes
    <3>2. /\ Head(rest) = CR
          /\ rest' = (IF link' = "closed" THEN << >> ELSE <<LF>> \o ItemToCome(eol, k))
      BY <1>3, <1>6, <1>8, <2>2, <3>1, ByteComes
    <3>3. at' = "command" /\ skip' = TRUE /\ line' = line
      BY <1>3, <1>6, <1>8, <3>2 DEF ReadLine, EndOfLine
    <3>4. AtCommand(eol)'
      <4>1. ItemToCome(eol, k)' = ItemToCome(eol, k)
        BY <1>3 DEF TalkToCome, TextToCome, ItemToCome, TalkWires
      <4> QED  BY <1>3, <1>8, <3>2, <3>3, <4>1 DEF AtCommand, ToCome
    <3> QED  BY <1>1, <1>4, <3>3, <3>4 DEF FramedInv, Position
  <2> QED  BY <2>3, <2>4
<1>9. CASE /\ k <= Len(sent) /\ line = <<sent[k].command>> /\ skip
           /\ ToCome(<<LF>> \o ItemToCome(eol, k))
  <2>1. k \in 1..Len(sent)
    BY <1>2, <1>9
  <2>2. ItemToCome(eol, k) \in Seq(Byte)
    BY <1>2, <2>1, ItemSteps
  <2>3. Head(rest) = LF /\ rest' = (IF link' = "closed" THEN << >> ELSE ItemToCome(eol, k))
    BY <1>3, <1>6, <1>9, <2>2, ByteComes
  <2>4. at' = "dispatch" /\ skip' = FALSE /\ line' = line
    BY <2>3 DEF ReadLine, EndOfLine
  <2>5. AtDispatch(eol)'
    <3>1. ItemToCome(eol, k)' = ItemToCome(eol, k)
      BY <1>3 DEF TalkToCome, TextToCome, ItemToCome, TalkWires
    <3> QED  BY <1>3, <1>9, <2>3, <2>4, <3>1 DEF AtDispatch, ToCome
  <2> QED  BY <1>1, <1>4, <2>4, <2>5 DEF FramedInv, Position
<1> QED  BY <1>5, <1>7, <1>8, <1>9 DEF AtCommand

\* A command or a text is taken as it was meant.
LEMMA HeardFramed ==
  ASSUME Typed, Framed, ~ failed, NEW command, NEW text, NEW code,
         Heard(command, text, code), UNCHANGED <<sent, failed>>,
         Len(heard) + 1 <= Len(sent), command = sent[Len(heard) + 1].command,
         command = POST => /\ text.headers = Meant(sent[Len(heard) + 1].text).headers
                           /\ text.body = Meant(sent[Len(heard) + 1].text).body
  PROVE  /\ Framed' /\ Len(heard') = Len(heard) + 1
<1> DEFINE Taken == [command : {POST, GROUP, "unknown"}, headers : Seq(Line), body : Seq(Line)]
           taken == [command |-> command, headers |-> text.headers, body |-> text.body]
           n == Len(heard)
<1>1. n \in Nat /\ Len(answer) = n
  BY Counted
<1>2. heard \in Seq(Taken) /\ answer \in Seq(Code)
  BY DEF Typed, TypeOK
<1>3. heard' = Append(heard, taken) /\ answer' = Append(answer, code)
  BY DEF Heard
<1> HIDE DEF Taken
<1>4. /\ Len(heard') = n + 1 /\ heard'[n + 1] = taken
      /\ \A i \in 1..n : heard'[i] = heard[i]
  <2> HIDE DEF taken
  <2> QED  BY <1>2, <1>3
<1>5. \A i \in 1..n : answer'[i] = answer[i]
  BY <1>1, <1>2, <1>3
<1>6. ASSUME NEW i \in 1..n + 1
      PROVE  /\ heard'[i].command = sent[i].command
             /\ (sent[i].command = POST /\ answer'[i] # "too long") =>
                  /\ heard'[i].headers = Meant(sent[i].text).headers
                  /\ heard'[i].body = Meant(sent[i].text).body
  <2>1. CASE i = n + 1
    <3>1. heard'[i] = taken
      <4> HIDE DEF taken
      <4> QED  BY <1>4, <2>1
    <3>2. taken.command = command /\ taken.headers = text.headers /\ taken.body = text.body
      OBVIOUS
    <3> HIDE DEF taken
    <3> QED  BY <2>1, <3>1, <3>2
  <2>2. CASE i # n + 1
    <3>1. i \in 1..n
      BY <1>1, <2>2
    <3> QED  BY <1>4, <1>5, <3>1 DEF Framed
  <2> QED  BY <2>1, <2>2
<1>7. Framed'
  BY <1>4, <1>6 DEF Framed
<1> QED  BY <1>4, <1>7

LEMMA DispatchFramed ==
  ASSUME FramedInv, Blank \/ SelectGroup \/ Unknown \/ BeginPost, ~ failed
  PROVE  FramedInv'
<1> DEFINE k == Len(heard) + 1
<1>1. Typed /\ Framed /\ Typed' /\ at = "dispatch"
  BY DispatchTyped DEF FramedInv, Blank, SelectGroup, Unknown, BeginPost
<1>2. /\ sent \in Seq(Item) /\ Len(sent) \in Nat /\ Len(heard) \in Nat /\ k \in Nat
      /\ k - 1 <= Len(sent) /\ k - 1 = Len(heard)
  BY <1>1, Counted
<1>3. PICK eol \in Eol : AtDispatch(eol)
  BY <1>1 DEF FramedInv, Position
<1>4. /\ k <= Len(sent) /\ line = <<sent[k].command>> /\ ~ skip /\ ToCome(ItemToCome(eol, k))
  BY <1>3 DEF AtDispatch
<1>5. k \in 1..Len(sent) /\ sent[k] \in Item
  BY <1>2, <1>4, ElementOfSeq
<1>6. sent[k].command \in {POST, GROUP} /\ line # << >> /\ POST # GROUP
  BY <1>4, <1>5 DEF Item, POST, GROUP
<1>7. ~ Blank /\ ~ Unknown
  BY <1>4, <1>6 DEF Blank, Unknown
<1>8. CASE SelectGroup
  <2>1. /\ line = <<GROUP>> /\ line' = << >> /\ at' = "command" /\ Heard(GROUP, NoText, "211")
        /\ UNCHANGED <<sent, rest, link, skip, failed>>
    BY <1>8 DEF SelectGroup, input
  <2>2. sent[k].command = GROUP
    BY <1>4, <2>1
  <2>3. Framed' /\ Len(heard') = k
    BY <1>1, <1>4, <1>6, <2>1, <2>2, HeardFramed
  <2>4. ItemToCome(eol, k) = TalkToCome(eol, k)
    BY <1>6, <2>2 DEF ItemToCome
  <2>5. AtCommand(eol)'
    <3>1. (Len(heard) + 1)' - 1 = k
      BY <1>2, <2>3
    <3>2. ToCome(TalkToCome(eol, Len(heard) + 1 - 1))'
      BY <1>4, <2>1, <2>4, <3>1 DEF ToCome, TalkToCome, TalkWires
    <3> QED  BY <1>4, <2>1, <3>2 DEF AtCommand
  <2> QED  BY <1>1, <2>1, <2>3, <2>5 DEF FramedInv, Position
<1>9. CASE BeginPost
  <2>1. /\ line = <<POST>> /\ line' = << >> /\ at' = "body" /\ mode' = "normal" /\ msg' = << >>
        /\ UNCHANGED <<sent, rest, link, skip, heard, answer, failed>>
    BY <1>9 DEF BeginPost, input, history
  <2>2. sent[k].command = POST
    BY <1>4, <2>1
  <2>3. Framed' /\ InPost'
    BY <1>1, <1>4, <2>1, <2>2 DEF Framed, InPost
  <2>4. LineBegins(eol, k, 0)'
    <3> DEFINE text == sent[k].text
    <3>1. text \in Seq(Line)
      BY <1>5 DEF Item
    <3>2. After(<< >>) = TextRead(<< >>, text, 0, << >>)
      <4>1. TextRead(<< >>, text, 0, << >>) = NewParser
        BY <3>1, NothingRead
      <4> QED  BY <4>1, AfterNothing
    <3>3. ItemToCome(eol, k) = TextToCome(eol, k, 0)
      BY <2>2 DEF ItemToCome
    <3>4. ToCome(TextToCome(eol, k, 0))'
      BY <1>4, <2>1, <3>3 DEF ToCome, TextToCome, TalkToCome, TalkWires
    <3> QED  BY <2>1, <3>2, <3>4 DEF LineBegins
  <2>5. AtBody(eol)'
    <3>1. 0 \in 0..Len(sent'[k].text)
      BY <1>5, <2>1, LenProperties DEF Item
    <3> QED  BY <2>1, <2>3, <2>4, <3>1 DEF AtBody
  <2> QED  BY <1>1, <2>1, <2>3, <2>5 DEF FramedInv, Position
<1> QED  BY <1>7, <1>8, <1>9

LEMMA PostFramed ==
  ASSUME FramedInv, Post, ~ failed
  PROVE  FramedInv'
<1> DEFINE k == Len(heard) + 1
           text == sent[k].text
           article == ParseArticle(msg)
<1>1. Typed /\ Framed /\ Typed' /\ at = "post" /\ at' = "command"
      /\ UNCHANGED <<sent, rest, link, line, skip, failed>>
  BY PostTyped DEF FramedInv, Post, input, reader
<1>2. /\ sent \in Seq(Item) /\ Len(sent) \in Nat /\ Len(heard) \in Nat /\ k \in Nat
      /\ k - 1 <= Len(sent) /\ k - 1 = Len(heard)
  BY <1>1, Counted
<1>3. PICK eol \in Eol : AtPost(eol)
  BY <1>1 DEF FramedInv, Position
<1>4. /\ InPost /\ ToCome(TalkToCome(eol, k))
      /\ After(msg) = TextRead(<< >>, text, Len(text), << >>)
  BY <1>3 DEF AtPost
<1>5. /\ k \in 1..Len(sent) /\ sent[k] \in Item /\ sent[k].command = POST
      /\ line = << >> /\ ~ skip
  BY <1>2, <1>4, ElementOfSeq DEF InPost
<1>6. article.headers = Meant(text).headers /\ article.body = Meant(text).body
  <2>1. text \in Seq(Line) /\ msg \in Seq(Byte) /\ << >> \in Seq(Line)
    BY SMTT(30), <1>1, <1>5 DEF Item, Typed, TypeOK
  <2> HIDE DEF text
  <2>2. article = [headers |-> << >> \o Meant(text).headers, body |-> Meant(text).body]
    BY <1>4, <2>1, ArticleMeant
  <2>3. Meant(text).headers \in Seq(Line)
    <3> DEFINE end == HeadEnd(text)
    <3>1. /\ end \in 1..Len(text) + 1 /\ Len(text) \in Nat
          /\ Meant(text).headers = SubSeq(text, 1, end - 1)
      BY <2>1, HeadEndFirst, LenProperties
    <3> HIDE DEF end
    <3>2. \A i \in 1..end - 1 : text[i] \in Line
      BY <2>1, <3>1, ElementOfSeq
    <3> QED  BY <3>1, <3>2, SubSeqProperties
  <2>4. << >> \o Meant(text).headers = Meant(text).headers
    BY <2>3, ConcatEmptySeq
  <2> QED  BY <2>2, <2>4
<1> HIDE DEF article
<1>7. PICK code : Heard(POST, article, code)
  BY DEF Post, Refuse, Store, article
<1>8. Framed' /\ Len(heard') = k
  BY <1>1, <1>5, <1>6, <1>7, HeardFramed
<1>9. AtCommand(eol)'
  <2>1. (Len(heard) + 1)' - 1 = k
    BY <1>2, <1>8
  <2>2. ToCome(TalkToCome(eol, Len(heard) + 1 - 1))'
    BY <1>1, <1>4, <2>1 DEF ToCome, TalkToCome, TalkWires
  <2> QED  BY <1>1, <1>5, <2>2 DEF AtCommand
<1> QED  BY <1>1, <1>8, <1>9 DEF FramedInv, Position

-----------------------------------------------------------------------------
(* Reading the body of a POST.                                             *)

\* A line is what has come of it and what has not.
LEMMA LineParts ==
  ASSUME NEW l \in Line, NEW m \in 0..Len(l) - 1
  PROVE  /\ SubSeq(l, m + 1, Len(l)) = <<l[m + 1]>> \o SubSeq(l, m + 2, Len(l))
         /\ SubSeq(l, m + 2, Len(l)) \in Seq(Byte)
         /\ SubSeq(l, 1, m) \in Line
         /\ SubSeq(l, 1, m + 1) = Append(SubSeq(l, 1, m), l[m + 1])
         /\ l[m + 1] \in Byte \ {CR, LF}
<1> DEFINE A == Byte \ {CR, LF}
<1>1. l \in Seq(A) /\ Len(l) \in Nat
  BY LenProperties DEF Line
<1> HIDE DEF A
<1>2. /\ m + 1 \in 1..Len(l) /\ Len(l) \in m + 1..Len(l) /\ (m + 1) + 1 = m + 2
      /\ m + 1 \in 1..m + 1 /\ 1 \in 1..Len(l) /\ m + 1 \in 1..Len(l) /\ (m + 1) - 1 = m
      /\ m + 2 \in Int /\ m \in Int
  BY <1>1
<1>3. \A i \in 1..Len(l) : l[i] \in A
  BY <1>1, ElementOfSeq
<1>4. SubSeq(l, m + 1, Len(l)) = <<l[m + 1]>> \o SubSeq(l, (m + 1) + 1, Len(l))
  BY <1>1, <1>2, SubSeqRecursiveFirst
<1>5. SubSeq(l, m + 2, Len(l)) \in Seq(A)
  <2>1. \A i \in m + 2..Len(l) : l[i] \in A
    BY <1>1, <1>2, <1>3
  <2> QED  BY <1>1, <1>2, <2>1, SubSeqProperties
<1>6. SubSeq(l, 1, m) \in Seq(A)
  <2>1. \A i \in 1..m : l[i] \in A
    BY <1>1, <1>2, <1>3
  <2> QED  BY <1>1, <1>2, <2>1, SubSeqProperties
<1>7. SubSeq(l, 1, m + 1) = SubSeq(l, 1, m) \o <<l[m + 1]>>
  BY <1>1, <1>2, SubSeqRecursiveSecond
<1>8. SubSeq(l, 1, m) \o <<l[m + 1]>> = Append(SubSeq(l, 1, m), l[m + 1])
  BY <1>2, <1>3, <1>6, AppendIsConcat
<1>9. Seq(A) = Line /\ Line \subseteq Seq(Byte)
  BY BytesAreBytes DEF Line, A
<1> QED  BY <1>2, <1>3, <1>4, <1>5, <1>6, <1>7, <1>8, <1>9 DEF A

\* What all places in the body have in common before a byte is read.
Reading(eol, k) ==
  /\ Typed /\ eol \in Eol /\ ~ failed
  /\ k = Len(heard) + 1 /\ k \in 1..Len(sent) /\ InPost
  /\ sent[k] \in Item /\ sent \in Seq(Item)
  /\ ReadBody

LEMMA ReadingSame ==
  ASSUME NEW eol, NEW k, Reading(eol, k)
  PROVE  /\ at = "body" /\ link = "open" /\ link' = link /\ rest' = Tail(rest)
         /\ UNCHANGED <<sent, line, skip, heard, failed>>
         /\ msg \in Seq(Byte) /\ eol \in Seq(Byte)
         /\ k = Len(heard) + 1 /\ k \in 1..Len(sent) /\ sent \in Seq(Item) /\ eol \in Eol
         /\ sent[k].text \in Seq(Line) /\ Len(sent[k].text) \in Nat /\ << >> \in Seq(Line)
         /\ \A i \in 1..Len(sent[k].text) :
              sent[k].text[i] \in Line /\ Len(sent[k].text[i]) \in Nat
         /\ InPost'
         /\ {CR, LF, Dot} \subseteq Byte /\ CR # LF /\ CR # Dot /\ LF # Dot
<1>1. /\ at = "body" /\ link = "open" /\ link' = link /\ rest' = Tail(rest)
      /\ UNCHANGED <<sent, line, skip, heard, failed>>
  BY DEF Reading, ReadBody, Arrives, history
<1>2. msg \in Seq(Byte) /\ eol \in Seq(Byte)
  BY BytesAreBytes DEF Reading, Typed, TypeOK
<1>3. sent[k].text \in Seq(Line)
  BY DEF Reading, Item
<1>4. /\ Len(sent[k].text) \in Nat /\ << >> \in Seq(Line)
      /\ \A i \in 1..Len(sent[k].text) : sent[k].text[i] \in Line
  BY <1>3, LenProperties, ElementOfSeq
<1>5. \A l \in Line : Len(l) \in Nat
  BY DEF Line
<1>6. InPost'
  BY <1>1 DEF Reading, InPost
<1>7. {CR, LF, Dot} \subseteq Byte /\ CR # LF /\ CR # Dot /\ LF # Dot
  BY DEF Byte, CR, LF, Dot
<1> QED  BY <1>1, <1>2, <1>3, <1>4, <1>5, <1>6, <1>7 DEF Reading

\* The next byte is in msg.
LEMMA BodyAppends ==
  ASSUME NEW eol, NEW k, Reading(eol, k), NEW c \in Byte, Head(rest) = c, c # CR,
         ~ EndOfBody(c), ~ DotDropped(c)
  PROVE  /\ at' = "body" /\ mode' = NextMode(c) /\ msg' = Append(msg, c)
         /\ After(msg') = ParseByte(After(msg), c)
<1>1. /\ at' = "body" /\ mode' = NextMode(c) /\ msg' = Append(msg, c)
  BY ReadingSame DEF Reading, ReadBody
<1>2. After(Append(msg, c)) = ParseByte(After(msg), c)
  BY ReadingSame, AfterAppend
<1> QED  BY <1>1, <1>2

\* The end of line j + 1.
LEMMA BodyLF ==
  ASSUME NEW eol, NEW k, Reading(eol, k), NEW j \in 0..Len(sent[k].text) - 1,
         mode # "crlfdot", ToCome(<<LF>> \o TextToCome(eol, k, j + 1)),
         After(msg) = TextRead(<< >>, sent[k].text, j, sent[k].text[j + 1])
  PROVE  at' = "body" /\ AtBody(eol)'
<1> DEFINE text == sent[k].text
<1>1. /\ link = "open" /\ link' = link /\ rest' = Tail(rest) /\ LF \in Byte /\ LF # CR /\ LF # Dot
      /\ text \in Seq(Line) /\ Len(text) \in Nat /\ << >> \in Seq(Line)
      /\ sent' = sent /\ k = Len(heard') + 1 /\ InPost'
      /\ k \in 1..Len(sent) /\ sent \in Seq(Item) /\ eol \in Eol
  BY ReadingSame
<1>2. j + 1 \in 0..Len(text) /\ j + 1 # 0
  BY <1>1
<1>3. TextToCome(eol, k, j + 1) \in Seq(Byte)
  BY <1>1, <1>2, TextSteps
<1>4. Head(rest) = LF /\ rest' = (IF link' = "closed" THEN << >> ELSE TextToCome(eol, k, j + 1))
  BY <1>1, <1>3, ByteComes
<1>5. /\ at' = "body" /\ mode' = NextMode(LF) /\ msg' = Append(msg, LF)
      /\ After(msg') = ParseByte(After(msg), LF)
  <2>1. ~ EndOfBody(LF) /\ ~ DotDropped(LF)
    BY <1>1 DEF EndOfBody, DotDropped
  <2> QED  BY <1>1, <1>4, <2>1, BodyAppends
<1>6. After(msg') = TextRead(<< >>, text, j + 1, << >>)
  BY <1>1, <1>5, TextReadLF
<1>7. LineBegins(eol, k, j + 1)'
  <2>1. mode' = "crlf"
    BY <1>5 DEF NextMode
  <2>2. ToCome(TextToCome(eol, k, j + 1))'
    BY <1>1, <1>4 DEF ToCome, TextToCome, TalkToCome, TalkWires
  <2> QED  BY <1>1, <1>2, <1>6, <2>1, <2>2 DEF LineBegins
<1> QED  BY <1>1, <1>2, <1>5, <1>7 DEF AtBody

\* Before the end of line j + 1.
LEMMA BodyEol ==
  ASSUME NEW eol, NEW k, Reading(eol, k), NEW j \in 0..Len(sent[k].text) - 1,
         mode # "crlfdot", ToCome(eol \o TextToCome(eol, k, j + 1)),
         After(msg) = TextRead(<< >>, sent[k].text, j, sent[k].text[j + 1])
  PROVE  at' = "body" /\ AtBody(eol)'
<1> DEFINE text == sent[k].text
           to == TextToCome(eol, k, j + 1)
<1>1. /\ link = "open" /\ link' = link /\ rest' = Tail(rest) /\ CR \in Byte /\ LF \in Byte
      /\ Len(text) \in Nat /\ k \in 1..Len(sent) /\ sent \in Seq(Item) /\ eol \in Eol
      /\ sent' = sent /\ k = Len(heard') + 1 /\ InPost' /\ CR # LF /\ at = "body"
  BY ReadingSame
<1>2. to \in Seq(Byte) /\ <<LF>> \o to \in Seq(Byte)
  <2>1. j + 1 \in 0..Len(text)
    BY <1>1
  <2>2. to \in Seq(Byte)
    BY <1>1, <2>1, TextSteps
  <2> QED  BY <2>2, BytesAreBytes, Joined
<1>3. CASE eol = <<LF>>
  BY <1>3, BodyLF
<1>4. CASE eol # <<LF>>
  <2>1. eol \o to = <<CR>> \o (<<LF>> \o to)
    BY <1>1, <1>2, <1>4, EolBytes
  <2>2. Head(rest) = CR /\ rest' = (IF link' = "closed" THEN << >> ELSE <<LF>> \o to)
    BY <1>1, <1>2, <2>1, ByteComes
  <2>3. at' = "body" /\ UNCHANGED <<mode, msg>>
    BY <1>1, <2>2 DEF Reading, ReadBody
  <2>4. LineEnds(eol, k, j)'
    <3>1. ToCome(<<LF>> \o TextToCome(eol, k, j + 1))'
      BY <1>1, <2>2 DEF ToCome, TextToCome, TalkToCome, TalkWires
    <3> QED  BY <1>1, <2>3, <3>1 DEF LineEnds
  <2> QED  BY <1>1, <2>3, <2>4 DEF AtBody
<1> QED  BY <1>3, <1>4

\* Byte m + 1 of line j + 1.
LEMMA BodyByte ==
  ASSUME NEW eol, NEW k, Reading(eol, k), NEW j \in 0..Len(sent[k].text) - 1,
         NEW m \in 0..Len(sent[k].text[j + 1]) - 1,
         ~ DotDropped(sent[k].text[j + 1][m + 1]),
         ToCome(SubSeq(sent[k].text[j + 1], m + 1, Len(sent[k].text[j + 1]))
                  \o (eol \o TextToCome(eol, k, j + 1))),
         After(msg) = TextRead(<< >>, sent[k].text, j, SubSeq(sent[k].text[j + 1], 1, m))
  PROVE  at' = "body" /\ AtBody(eol)'
<1> DEFINE text == sent[k].text
           l == text[j + 1]
           c == l[m + 1]
           to == eol \o TextToCome(eol, k, j + 1)
<1>1. /\ link = "open" /\ link' = link /\ rest' = Tail(rest) /\ eol \in Eol /\ eol \in Seq(Byte)
      /\ Len(text) \in Nat /\ k \in 1..Len(sent) /\ sent \in Seq(Item) /\ text \in Seq(Line)
      /\ sent' = sent /\ k = Len(heard') + 1 /\ InPost' /\ << >> \in Seq(Line)
      /\ \A i \in 1..Len(text) : text[i] \in Line /\ Len(text[i]) \in Nat
  BY ReadingSame
<1>2. to \in Seq(Byte)
  <2>1. j + 1 \in 0..Len(text)
    BY <1>1
  <2>2. TextToCome(eol, k, j + 1) \in Seq(Byte)
    BY <1>1, <2>1, TextSteps
  <2> QED  BY <1>1, <2>2, Joined
<1>3. j + 1 \in 1..Len(text) /\ j \in 0..Len(text)
  BY <1>1
<1>4. l \in Line /\ Len(l) \in Nat /\ l \in Seq(Byte)
  BY <1>1, <1>3, BytesAreBytes
<1>5. m + 1 \in 1..Len(l) /\ m + 1 \in 0..Len(l) /\ m \in 0..Len(l) /\ (m + 1) + 1 = m + 2
  BY <1>4
<1> HIDE DEF l
<1>6. /\ SubSeq(l, m + 1, Len(l)) = <<c>> \o SubSeq(l, m + 2, Len(l))
      /\ SubSeq(l, m + 2, Len(l)) \in Seq(Byte)
      /\ SubSeq(l, 1, m) \in Line /\ SubSeq(l, 1, m + 1) = Append(SubSeq(l, 1, m), c)
      /\ c \in Byte \ {CR, LF}
  <2>1. m \in 0..Len(l) - 1
    BY <1>4, <1>5
  <2> QED  BY <1>4, <2>1, LineParts
<1> DEFINE after == SubSeq(l, m + 2, Len(l))
<1>7. SubSeq(l, m + 1, Len(l)) \o to = <<c>> \o (after \o to) /\ after \o to \in Seq(Byte)
  <2>1. <<c>> \in Seq(Byte) /\ after \in Seq(Byte)
    BY <1>6
  <2> HIDE DEF c, after, to
  <2>2. (<<c>> \o after) \o to = <<c>> \o (after \o to) /\ after \o to \in Seq(Byte)
    <3>1. Regroups(<<c>>, after, to) /\ after \o to \in Seq(Byte)
      BY <1>2, <2>1, Associative, Joined
    <3> QED  BY <3>1 DEF Regroups
  <2> QED  BY <1>6, <2>2 DEF after
<1>8. Head(rest) = c /\ rest' = (IF link' = "closed" THEN << >> ELSE after \o to)
  <2>1. ToCome(<<c>> \o (after \o to))
    BY <1>7 DEF l
  <2> HIDE DEF c, after, to
  <2>2. c \in Byte
    BY <1>6
  <2> QED  BY <1>1, <1>7, <2>1, <2>2, ByteComes
<1>9. /\ at' = "body" /\ mode' = "normal" /\ After(msg') = ParseByte(After(msg), c)
  <2>1. ~ EndOfBody(c) /\ ~ DotDropped(c) /\ c # CR
    BY <1>6 DEF EndOfBody, l
  <2>2. NextMode(c) = "normal"
    BY <1>6, <2>1 DEF NextMode
  <2> HIDE DEF c
  <2> QED  BY <1>6, <1>8, <2>1, <2>2, BodyAppends
<1>10. After(msg') = TextRead(<< >>, text, j, SubSeq(l, 1, m + 1))
  <2>1. After(msg) = TextRead(<< >>, text, j, SubSeq(l, 1, m))
    BY DEF l
  <2> DEFINE part == SubSeq(l, 1, m)
  <2>2. part \in Line /\ Append(part, c) = SubSeq(l, 1, m + 1) /\ text \in Seq(Line)
    BY <1>1, <1>6
  <2> HIDE DEF c, text, part
  <2>3. ParseByte(TextRead(<< >>, text, j, part), c) = TextRead(<< >>, text, j, Append(part, c))
    <3>1. << >> \in Seq(Line) /\ text \in Seq(Line) /\ j \in 0..Len(text) /\ part \in Line
          /\ c \in Byte \ {CR, LF}
      BY <1>1, <1>3, <1>6, <2>2
    <3> QED  BY ZenonT(40), <3>1, TextReadByte
  <2> QED  BY <1>9, <2>1, <2>2, <2>3 DEF part
<1>11. WithinLine(eol, k, j, m + 1)'
  <2>1. m + 1 # 0
    BY <1>5
  <2>2. ToCome(SubSeq(l, m + 1 + 1, Len(l)) \o (eol \o TextToCome(eol, k, j + 1)))'
    BY <1>1, <1>5, <1>8 DEF ToCome, TextToCome, TalkToCome, TalkWires, l
  <2> QED  BY <1>1, <1>9, <1>10, <2>1, <2>2 DEF WithinLine, l
<1>12. m + 1 \in 0..Len(text[j + 1])
  BY <1>5 DEF l
<1> QED  BY <1>1, <1>9, <1>11, <1>12 DEF AtBody

LEMMA ReadBodyFramed ==
  ASSUME FramedInv, ReadBody, ~ failed, WellBegun
  PROVE  FramedInv'
<1> DEFINE k == Len(heard) + 1
           text == sent[k].text
<1>1. Typed /\ Framed /\ Typed' /\ at = "body" /\ sent \in Talks
  BY ReadBodyTyped DEF FramedInv, ReadBody
<1>2. PICK eol \in Eol : AtBody(eol)
  BY <1>1 DEF FramedInv, Position
<1>3. Reading(eol, k)
  <2>1. InPost
    BY <1>2 DEF AtBody
  <2>2. sent \in Seq(Item) /\ Len(sent) \in Nat /\ Len(heard) \in Nat
    BY <1>1, Counted
  <2>3. k \in 1..Len(sent)
    BY <2>1, <2>2 DEF InPost
  <2> QED  BY <1>1, <1>2, <2>1, <2>2, <2>3, ElementOfSeq DEF Reading
<1>4. /\ link = "open" /\ link' = link /\ rest' = Tail(rest)
      /\ UNCHANGED <<sent, line, skip, heard, failed>>
      /\ msg \in Seq(Byte) /\ eol \in Seq(Byte)
      /\ k \in 1..Len(sent) /\ sent \in Seq(Item) /\ InPost'
      /\ text \in Seq(Line) /\ Len(text) \in Nat
      /\ \A i \in 1..Len(text) : text[i] \in Line /\ Len(text[i]) \in Nat
      /\ {CR, LF, Dot} \subseteq Byte /\ CR # LF /\ CR # Dot /\ LF # Dot
  BY <1>3, ReadingSame
<1>5. Framed' /\ sent' \in Talks /\ ~ failed'
  <2>1. answer' = answer
    BY DEF ReadBody, history
  <2> QED  BY <1>1, <1>4, <2>1, <1>3 DEF Framed, Reading
<1>6. text # << >> /\ ~ StartsWith(text[1], Dot)
  BY <1>1, <1>3, <1>4 DEF WellBegun, Reading, InPost
<1>7. SUFFICES (at' = "body" /\ AtBody(eol)') \/ (at' = "post" /\ AtPost(eol)')
  BY <1>1, <1>5 DEF FramedInv, Position
<1>8. CASE \E j \in 0..Len(text) : LineBegins(eol, k, j)
  <2>1. PICK j \in 0..Len(text) : LineBegins(eol, k, j)
    BY <1>8
  <2>2. /\ mode = IF j = 0 THEN "normal" ELSE "crlf"
        /\ ToCome(TextToCome(eol, k, j))
        /\ After(msg) = TextRead(<< >>, text, j, << >>)
    BY <2>1 DEF LineBegins
  <2>3. CASE j = Len(text)
    <3> DEFINE tail == eol \o TalkToCome(eol, k)
    <3>1. tail \in Seq(Byte) /\ TextToCome(eol, k, j) = <<Dot>> \o tail
      <4>1. k \in 0..Len(sent)
        BY <1>4
      <4> QED  BY <1>4, <2>3, <4>1, TalkSteps, TextSteps, Joined
    <3>2. Head(rest) = Dot /\ rest' = (IF link' = "closed" THEN << >> ELSE tail)
      <4> HIDE DEF tail
      <4> QED  BY <1>4, <2>2, <3>1, ByteComes
    <3>3. mode = "crlf"
      BY <1>4, <1>6, <2>2, <2>3
    <3>4. at' = "body" /\ mode' = "crlfdot" /\ msg' = msg
      BY <1>1, <1>4, <3>2, <3>3 DEF ReadBody, EndOfBody, NextMode, DotDropped
    <3>5. TextEnds(eol, k)'
      <4>1. ToCome(eol \o TalkToCome(eol, k))'
        BY <1>4, <3>2 DEF ToCome, TalkToCome, TalkWires
      <4> QED  BY <1>4, <2>2, <2>3, <3>4, <4>1 DEF TextEnds
    <3> QED  BY <1>4, <3>4, <3>5 DEF AtBody
  <2>4. CASE j # Len(text)
    <3> DEFINE l == text[j + 1]
               to == eol \o TextToCome(eol, k, j + 1)
    <3>1. j \in 0..Len(text) - 1 /\ j + 1 \in 1..Len(text)
      BY <1>4, <2>4
    <3>2. l \in Line /\ Len(l) \in Nat /\ l \in Seq(Byte) /\ to \in Seq(Byte)
      <4>1. l \in Line /\ Len(l) \in Nat
        BY <1>4, <3>1
      <4>2. j + 1 \in 0..Len(text)
        BY <3>1
      <4>3. TextToCome(eol, k, j + 1) \in Seq(Byte)
        BY <1>4, <4>2, TextSteps
      <4> QED  BY <1>4, <4>1, <4>3, BytesAreBytes, Joined
    <3>3. TextToCome(eol, k, j) = Escaped(l) \o to
      BY <1>4, <3>1, TextSteps
    <3>4. SubSeq(l, 1, 0) = << >> /\ SubSeq(l, 0 + 1, Len(l)) = l
      <4>1. SubSeq(l, 1, Len(l)) = l /\ 0 + 1 = 1
        BY <3>2, SubSeqFull
      <4> QED  BY <3>2, <4>1, SubSeqEmpty
    <3>5. CASE StartsWith(l, Dot)
      <4>1. mode = "crlf"
        BY <1>6, <2>2, <3>5
      <4>2. Escaped(l) \o to = <<Dot>> \o (l \o to) /\ l \o to \in Seq(Byte)
        <5> HIDE DEF to, l
        <5>1. <<Dot>> \in Seq(Byte)
          BY BytesAreBytes
        <5>2. Regroups(<<Dot>>, l, to) /\ l \o to \in Seq(Byte)
          BY <3>2, <5>1, Associative, Joined
        <5>3. Escaped(l) = <<Dot>> \o l
          BY <3>5 DEF Escaped
        <5> QED  BY <5>2, <5>3 DEF Regroups
      <4>3. Head(rest) = Dot /\ rest' = (IF link' = "closed" THEN << >> ELSE l \o to)
        <5> HIDE DEF to, l
        <5> QED  BY <1>4, <2>2, <3>3, <4>2, ByteComes
      <4>4. at' = "body" /\ mode' = "crlfdot" /\ msg' = msg
        BY <1>1, <1>4, <4>1, <4>3 DEF ReadBody, EndOfBody, NextMode, DotDropped
      <4>5. WithinLine(eol, k, j, 0)'
        <5>1. ToCome(SubSeq(l, 0 + 1, Len(l)) \o (eol \o TextToCome(eol, k, j + 1)))'
          BY <1>4, <3>4, <4>3 DEF ToCome, TextToCome, TalkToCome, TalkWires
        <5> QED  BY <1>4, <2>2, <3>4, <3>5, <4>4, <5>1 DEF WithinLine
      <4>6. 0 \in 0..Len(l)
        BY <3>2
      <4> QED  BY <1>4, <3>1, <4>4, <4>5, <4>6 DEF AtBody
    <3>6. CASE ~ StartsWith(l, Dot) /\ l # << >>
      <4>1. ToCome(SubSeq(l, 0 + 1, Len(l)) \o (eol \o TextToCome(eol, k, j + 1)))
        BY <2>2, <3>3, <3>4, <3>6 DEF Escaped
      <4>2. ~ DotDropped(l[0 + 1])
        BY <3>6 DEF DotDropped, StartsWith
      <4>3. 0 \in 0..Len(l) - 1
        BY <3>2, <3>6
      <4>4. After(msg) = TextRead(<< >>, text, j, SubSeq(l, 1, 0))
        BY <2>2, <3>4
      <4> QED  BY <1>3, <3>1, <4>1, <4>2, <4>3, <4>4, BodyByte
    <3>7. CASE ~ StartsWith(l, Dot) /\ l = << >>
      <4>1. ToCome(eol \o TextToCome(eol, k, j + 1))
        <5>1. << >> \o to = to
          <6> HIDE DEF to
          <6> QED  BY <3>2, Joined
        <5> QED  BY <2>2, <3>3, <3>7, <5>1 DEF Escaped
      <4>2. mode # "crlfdot"
        BY <2>2
      <4> QED  BY <1>3, <2>2, <3>1, <3>7, <4>1, <4>2, BodyEol
    <3> QED  BY <3>5, <3>6, <3>7
  <2> QED  BY <2>3, <2>4
<1>9. CASE \E j \in 0..Len(text) - 1 : LineEnds(eol, k, j)
  BY <1>3, <1>9, BodyLF DEF LineEnds
<1>10. CASE \E j \in 0..Len(text) - 1 : \E m \in 0..Len(text[j + 1]) : WithinLine(eol, k, j, m)
  <2>0. PICK j \in 0..Len(text) - 1 : \E m \in 0..Len(text[j + 1]) : WithinLine(eol, k, j, m)
    BY <1>10
  <2>1. PICK m \in 0..Len(text[j + 1]) : WithinLine(eol, k, j, m)
    BY <2>0
  <2> DEFINE l == text[j + 1]
  <2>2. /\ IF m = 0 THEN mode = "crlfdot" /\ StartsWith(l, Dot) ELSE mode = "normal"
        /\ ToCome(SubSeq(l, m + 1, Len(l)) \o (eol \o TextToCome(eol, k, j + 1)))
        /\ After(msg) = TextRead(<< >>, text, j, SubSeq(l, 1, m))
    BY <2>1 DEF WithinLine
  <2>3. j + 1 \in 1..Len(text) /\ l \in Line /\ Len(l) \in Nat
    BY <1>4
  <2>4. CASE m < Len(l)
    <3>1. m \in 0..Len(l) - 1
      BY <2>3, <2>4
    <3>2. ~ DotDropped(l[m + 1])
      BY <2>2 DEF DotDropped
    <3> QED  BY <1>3, <2>2, <3>1, <3>2, BodyByte
  <2>5. CASE m = Len(l)
    <3>1. m # 0
      BY <2>2, <2>3, <2>5 DEF StartsWith, Line
    <3>2. SubSeq(l, m + 1, Len(l)) = << >> /\ SubSeq(l, 1, m) = l
      <4>1. l \in Seq(Byte)
        BY <2>3, BytesAreBytes
      <4> QED  BY <2>3, <2>5, <4>1, SubSeqEmpty, SubSeqFull
    <3>3. ToCome(eol \o TextToCome(eol, k, j + 1))
      <4>1. eol \o TextToCome(eol, k, j + 1) \in Seq(Byte)
        <5>1. j + 1 \in 0..Len(text)
          BY <2>3
        <5>2. TextToCome(eol, k, j + 1) \in Seq(Byte)
          BY <1>4, <5>1, TextSteps
        <5> QED  BY <1>4, <5>2, Joined
      <4> QED  BY <2>2, <3>2, <4>1, Joined
    <3>4. mode # "crlfdot" /\ After(msg) = TextRead(<< >>, text, j, l)
      BY <2>2, <3>1, <3>2
    <3> QED  BY <1>3, <3>3, <3>4, BodyEol
  <2> QED  BY <2>3, <2>4, <2>5
<1>11. CASE TextEnds(eol, k)
  <2> DEFINE to == TalkToCome(eol, k)
  <2>1. PICK e \in {eol, <<LF>>} : ToCome(e \o to)
    BY <1>11 DEF TextEnds
  <2>2. mode = "crlfdot" /\ After(msg) = TextRead(<< >>, text, Len(text), << >>)
    BY <1>11 DEF TextEnds
  <2>3. to \in Seq(Byte) /\ <<LF>> \o to \in Seq(Byte)
    <3>1. k \in 0..Len(sent)
      BY <1>4
    <3> QED  BY <1>4, <3>1, TalkSteps, BytesAreBytes, Joined
  <2>4. CASE e = <<LF>>
    <3>1. Head(rest) = LF /\ rest' = (IF link' = "closed" THEN << >> ELSE to)
      BY <1>4, <2>1, <2>3, <2>4, ByteComes
    <3>2. at' = "post" /\ msg' = msg
      BY <1>4, <2>2, <3>1 DEF ReadBody, EndOfBody
    <3>3. AtPost(eol)'
      <4>1. ToCome(TalkToCome(eol, k))'
        BY <1>4, <3>1 DEF ToCome, TalkToCome, TalkWires
      <4> QED  BY <1>4, <2>2, <3>2, <4>1 DEF AtPost
    <3> QED  BY <3>2, <3>3
  <2>5. CASE e # <<LF>>
    <3>1. e = eol /\ eol \o to = <<CR>> \o (<<LF>> \o to)
      BY <1>2, <2>3, <2>5, EolBytes
    <3>2. Head(rest) = CR /\ rest' = (IF link' = "closed" THEN << >> ELSE <<LF>> \o to)
      BY <1>4, <2>1, <2>3, <3>1, ByteComes
    <3>3. at' = "body" /\ UNCHANGED <<mode, msg>>
      BY <1>1, <1>4, <3>2 DEF ReadBody
    <3>4. TextEnds(eol, k)'
      <4>1. ToCome(<<LF>> \o TalkToCome(eol, k))'
        BY <1>4, <3>2 DEF ToCome, TalkToCome, TalkWires
      <4> QED  BY <1>4, <2>2, <3>3, <4>1 DEF TextEnds
    <3> QED  BY <1>4, <3>3, <3>4 DEF AtBody
  <2> QED  BY <2>4, <2>5
<1> QED  BY <1>2, <1>8, <1>9, <1>10, <1>11 DEF AtBody

-----------------------------------------------------------------------------
(* Reading a mail.                                                         *)

LEMMA MailSteps ==
  ASSUME NEW text \in Seq(Line), sent[1].text = text, NEW eol \in Eol, NEW cut \in BOOLEAN
  PROVE  /\ MailToCome(eol, cut, Len(text)) = << >>
         /\ \A j \in 0..Len(text) : MailToCome(eol, cut, j) \in Seq(Byte)
         /\ \A j \in 1..Len(text) : MailToCome(eol, cut, j - 1) =
              text[j] \o (MailEnd(eol, cut, text, j) \o MailToCome(eol, cut, j))
<1> DEFINE M == MailLines(text, eol, cut)
<1>1. Len(text) \in Nat /\ eol \in Seq(Byte)
      /\ \A i \in 1..Len(text) : text[i] \in Seq(Byte)
  BY BytesAreBytes, LenProperties, ElementOfSeq
<1>2. \A i \in 1..Len(text) : MailEnd(eol, cut, text, i) \in Seq(Byte)
  BY <1>1, Joined DEF MailEnd
<1>3. Len(M) = Len(text) /\ \A i \in 1..Len(text) : M[i] = text[i] \o MailEnd(eol, cut, text, i)
  <2>1. ASSUME NEW i \in 1..Len(text)
        PROVE  M[i] = text[i] \o MailEnd(eol, cut, text, i)
    <3>1. M[i] = IF cut /\ i = Len(text) THEN text[i] ELSE text[i] \o eol
      BY DEF MailLines
    <3>2. text[i] \o << >> = text[i]
      BY <1>1, Joined
    <3> HIDE DEF M
    <3> QED  BY <3>1, <3>2 DEF MailEnd
  <2> QED  BY SMTT(30), <1>1, <2>1 DEF MailLines
<1> HIDE DEF M
<1>4. \A i \in 1..Len(M) : M[i] \in Seq(Byte)
  <2> TAKE i \in 1..Len(M)
  <2> DEFINE l == text[i]
             e == MailEnd(eol, cut, text, i)
  <2>1. M[i] = l \o e /\ l \in Seq(Byte) /\ e \in Seq(Byte)
    BY <1>1, <1>2, <1>3
  <2> HIDE DEF l, e
  <2> QED  BY <2>1, Joined
<1>5. /\ Rest(M, Len(M)) = << >>
      /\ \A j \in 0..Len(M) - 1 : Rest(M, j) = M[j + 1] \o Rest(M, j + 1)
      /\ \A j \in 0..Len(M) : Rest(M, j) \in Seq(Byte)
  BY <1>1, <1>3, <1>4, RestSteps
<1>6. \A j : MailToCome(eol, cut, j) = Rest(M, j)
  BY DEF MailToCome, M
<1>7. ASSUME NEW j \in 1..Len(text)
      PROVE  MailToCome(eol, cut, j - 1) =
               text[j] \o (MailEnd(eol, cut, text, j) \o MailToCome(eol, cut, j))
  <2> DEFINE l == text[j]
             e == MailEnd(eol, cut, text, j)
             r == Rest(M, j)
  <2>1. j - 1 \in 0..Len(M) - 1 /\ (j - 1) + 1 = j /\ j \in 0..Len(M)
    BY <1>1, <1>3
  <2>2. Rest(M, j - 1) = (l \o e) \o r
    BY <1>3, <1>5, <2>1
  <2>3. l \in Seq(Byte) /\ e \in Seq(Byte) /\ r \in Seq(Byte)
    BY <1>1, <1>2, <1>5, <2>1
  <2> HIDE DEF l, e, r
  <2>4. (l \o e) \o r = l \o (e \o r)
    <3>1. Regroups(l, e, r)
      BY <2>3, Associative
    <3> QED  BY <3>1 DEF Regroups
  <2> QED  BY <1>6, <2>2, <2>4 DEF l, e, r
<1> QED  BY <1>3, <1>5, <1>6, <1>7

\* The wire of a mail, with or without the end of its last line.
LEMMA MailBegins ==
  ASSUME NEW text \in Seq(Line), sent[1].text = text, NEW eol \in Eol,
         NEW wire \in MailWires(text, eol)
  PROVE  \E cut \in BOOLEAN : /\ cut => text # << >> /\ text[Len(text)] # << >>
                              /\ wire = MailToCome(eol, cut, 0)
<1>1. CASE wire = Wire(text, eol)
  <2> DEFINE w == [i \in 1..Len(text) |-> text[i] \o eol]
  <2>1. wire = Rest(w, 0)
    BY <1>1, WireRest
  <2>2. w = MailLines(text, eol, FALSE)
    BY DEF MailLines
  <2> HIDE DEF w
  <2>3. wire = MailToCome(eol, FALSE, 0)
    BY <2>1, <2>2 DEF MailToCome
  <2> QED  BY <2>3
<1>2. CASE /\ text # << >> /\ text[Len(text)] # << >>
           /\ wire = Wire(SubSeq(text, 1, Len(text) - 1), eol) \o text[Len(text)]
  <2> DEFINE n == Len(text)
             t == SubSeq(text, 1, n - 1)
             w == [i \in 1..Len(t) |-> t[i] \o eol]
             last == text[n]
             To(j) == MailToCome(eol, TRUE, j)
  <2>1. n \in Nat /\ n # 0 /\ n \in 1..n
    BY <1>2, LenProperties
  <2>2. /\ t \in Seq(Line) /\ Len(t) = n - 1
        /\ \A i \in 1..n - 1 : t[i] = text[i]
    <3>1. \A i \in 1..n - 1 : text[i] \in Line
      BY <2>1, ElementOfSeq
    <3>2. /\ SubSeq(text, 1, n - 1) \in Seq(Line)
          /\ Len(SubSeq(text, 1, n - 1)) = IF 1 <= n - 1 THEN (n - 1) - 1 + 1 ELSE 0
          /\ \A i \in 1..(n - 1) - 1 + 1 : SubSeq(text, 1, n - 1)[i] = text[1 + i - 1]
      <4>1. n - 1 \in Int
        BY <2>1
      <4> HIDE DEF n
      <4> QED  BY <3>1, <4>1, SubSeqProperties
    <3> HIDE DEF n
    <3> QED  BY <2>1, <3>2 DEF t
  <2> HIDE DEF t
  <2>3. /\ w \in Seq(Seq(Byte)) /\ Len(w) = n - 1
        /\ Wire(t, eol) = Rest(w, 0)
    BY <2>2, WireRest
  <2>4. \A i \in 1..n - 1 : w[i] = text[i] \o eol
    BY <2>2
  <2> HIDE DEF w
  <2>5. /\ Rest(w, n - 1) = << >>
        /\ \A j \in 0..n - 2 : Rest(w, j) = w[j + 1] \o Rest(w, j + 1)
        /\ \A j \in 0..n - 1 : Rest(w, j) \in Seq(Byte)
    <3>1. \A i \in 1..Len(w) : w[i] \in Seq(Byte)
      BY <2>3, ElementOfSeq
    <3>2. (n - 1) - 1 = n - 2 /\ Len(w) \in Nat
      BY <2>1, <2>3
    <3> HIDE DEF n
    <3> QED  BY <2>3, <3>1, <3>2, RestSteps
  <2>6. /\ To(n) = << >>
        /\ \A j \in 0..n : To(j) \in Seq(Byte)
        /\ \A j \in 1..n : To(j - 1) = text[j] \o (MailEnd(eol, TRUE, text, j) \o To(j))
    BY MailSteps
  <2>7. last \in Seq(Byte) /\ eol \in Seq(Byte) /\ \A i \in 1..n : text[i] \in Seq(Byte)
    BY <2>1, BytesAreBytes, ElementOfSeq
  <2>8. /\ MailEnd(eol, TRUE, text, n) = << >>
        /\ \A i \in 1..n - 1 : MailEnd(eol, TRUE, text, i) = eol
    BY <2>1 DEF MailEnd
  <2> HIDE DEF n, last, To
  <2> DEFINE P(j) == Rest(w, j) \o last = To(j)
             S == {i \in Nat : i <= n - 1 => P((n - 1) - i)}
  <2>9. P(n - 1)
    <3>1. To(n - 1) = last \o (<< >> \o << >>)
      BY <2>1, <2>6, <2>8 DEF last
    <3> QED  BY <2>5, <2>7, <3>1, Joined
  <2>10. ASSUME NEW j \in 0..n - 2, P(j + 1)
         PROVE  P(j)
    <3> DEFINE l == text[j + 1]
               r == Rest(w, j + 1)
               to == To(j + 1)
    <3>1. /\ j + 1 \in 1..n - 1 /\ j + 1 \in 1..n /\ j + 1 \in 0..n - 1 /\ j + 1 \in 0..n
          /\ (j + 1) - 1 = j
      BY <2>1
    <3>2. l \in Seq(Byte) /\ r \in Seq(Byte) /\ l \o eol \in Seq(Byte) /\ to \in Seq(Byte)
      BY <2>5, <2>6, <2>7, <3>1, Joined
    <3>3. Rest(w, j) = (l \o eol) \o r
      BY <2>4, <2>5, <3>1
    <3>4. To(j) = l \o (eol \o to)
      BY <2>6, <2>8, <3>1
    <3>5. r \o last = to
      BY <2>10
    <3> HIDE DEF l, r, to
    <3>6. ((l \o eol) \o r) \o last = l \o (eol \o (r \o last))
      <4>1. Regroups4(l, eol, r, last)
        BY <2>7, <3>2, Associative4
      <4> QED  BY <4>1 DEF Regroups4
    <3> QED  BY <3>3, <3>4, <3>5, <3>6
  <2> HIDE DEF P
  <2>11. 0 \in S
    <3>1. (n - 1) - 0 = n - 1
      BY <2>1
    <3> QED  BY <2>9, <3>1
  <2>12. \A i \in S : i + 1 \in S
    <3> SUFFICES ASSUME NEW i \in S, i + 1 <= n - 1 PROVE P((n - 1) - (i + 1))
      OBVIOUS
    <3>1. /\ i \in Nat /\ (n - 1) - (i + 1) \in 0..n - 2
          /\ ((n - 1) - (i + 1)) + 1 = (n - 1) - i /\ i <= n - 1
      BY <2>1
    <3> QED  BY <2>10, <3>1
  <2>13. S = Nat
    BY <2>11, <2>12, Induction
  <2>14. P(0)
    <3>1. n - 1 \in Nat /\ (n - 1) - (n - 1) = 0
      BY <2>1
    <3>2. n - 1 \in S
      <4> HIDE DEF S
      <4> QED  BY <2>13, <3>1
    <3> QED  BY <3>1, <3>2
  <2>15. wire = To(0)
    BY <1>2, <2>3, <2>14 DEF P, n, t, last
  <2> QED  BY <1>2, <2>15 DEF To
<1> QED  BY <1>1, <1>2 DEF MailWires

\* What is put before a mail are two headers.
LEMMA BeforeMail ==
  LET put == <<Newsgroups, CR, LF, Gateway, CR, LF>> IN
  /\ put \in Seq(Byte)
  /\ \A text \in Seq(Line) : After(put) = TextRead(Before, text, 0, << >>)
<1>1. /\ {CR, LF, Newsgroups, Gateway} \subseteq Byte
      /\ Newsgroups \notin {CR, LF} /\ Gateway \notin {CR, LF}
  BY DEF Byte, CR, LF, Newsgroups, Gateway
<1> DEFINE put == <<Newsgroups, CR, LF, Gateway, CR, LF>>
           p0 == << >>
           p1 == Append(p0, Newsgroups)
           p2 == Append(p1, CR)
           p3 == Append(p2, LF)
           p4 == Append(p3, Gateway)
           p5 == Append(p4, CR)
           p6 == Append(p5, LF)
<1>2. put = p6
  OBVIOUS
<1>3. p0 \in Seq(Byte) /\ p1 \in Seq(Byte) /\ p2 \in Seq(Byte) /\ p3 \in Seq(Byte)
      /\ p4 \in Seq(Byte) /\ p5 \in Seq(Byte) /\ p6 \in Seq(Byte)
  <2>1. p0 \in Seq(Byte)
    OBVIOUS
  <2>2. \A s \in Seq(Byte) : \A c \in {CR, LF, Newsgroups, Gateway} : Append(s, c) \in Seq(Byte)
    BY <1>1
  <2> QED  BY <2>1, <2>2
<1>4. After(p0) = NewParser
  BY AfterNothing
<1>5. /\ After(p1) = ParseByte(After(p0), Newsgroups) /\ After(p2) = ParseByte(After(p1), CR)
      /\ After(p3) = ParseByte(After(p2), LF) /\ After(p4) = ParseByte(After(p3), Gateway)
      /\ After(p5) = ParseByte(After(p4), CR) /\ After(p6) = ParseByte(After(p5), LF)
  <2> HIDE DEF p0
  <2>1. After(p1) = ParseByte(After(p0), Newsgroups)
    BY <1>1, <1>3, AfterAppend
  <2>2. After(p2) = ParseByte(After(p1), CR)
    <3> HIDE DEF p1
    <3> QED  BY <1>1, <1>3, AfterAppend
  <2>3. After(p3) = ParseByte(After(p2), LF)
    <3> HIDE DEF p2
    <3> QED  BY <1>1, <1>3, AfterAppend
  <2>4. After(p4) = ParseByte(After(p3), Gateway)
    <3> HIDE DEF p3
    <3> QED  BY <1>1, <1>3, AfterAppend
  <2>5. After(p5) = ParseByte(After(p4), CR)
    <3> HIDE DEF p4
    <3> QED  BY <1>1, <1>3, AfterAppend
  <2>6. After(p6) = ParseByte(After(p5), LF)
    <3> HIDE DEF p5
    <3> QED  BY <1>1, <1>3, AfterAppend
  <2> QED  BY <2>1, <2>2, <2>3, <2>4, <2>5, <2>6
<1> HIDE DEF p1, p2, p3, p4, p5, p6
<1>6. /\ After(p0) \in Parser /\ After(p1) \in Parser /\ After(p2) \in Parser
      /\ After(p3) \in Parser /\ After(p4) \in Parser /\ After(p5) \in Parser
  BY <1>3, AfterTyped
<1>7. After(p1) = [headers |-> << >>, body |-> << >>, line |-> <<Newsgroups>>, inHeader |-> TRUE]
  <2> DEFINE q == After(p0)
  <2>2. q.headers = << >> /\ q.body = << >> /\ q.line = << >> /\ q.inHeader = TRUE
    BY <1>4 DEF NewParser
  <2> HIDE DEF p0
  <2>3. After(p1) = [headers |-> q.headers, body |-> q.body, line |-> Append(q.line, Newsgroups),
                     inHeader |-> q.inHeader]
    <3>1. q \in Parser /\ After(p1) = ParseByte(q, Newsgroups) /\ Newsgroups \in Byte \ {CR, LF}
      BY <1>1, <1>5, <1>6
    <3> HIDE DEF q
    <3> QED  BY <3>1, ParseByteSteps
  <2>1. After(p1) = [headers |-> << >>, body |-> << >>, line |-> Append(<< >>, Newsgroups),
                     inHeader |-> TRUE]
    BY <2>2, <2>3
  <2> QED  BY <2>1
<1>8. After(p3) = [headers |-> << <<Newsgroups>> >>, body |-> << >>, line |-> << >>,
                   inHeader |-> TRUE]
  <2>1. After(p2) = After(p1)
    BY <1>5, <1>6, ParseByteSteps
  <2>2. After(p3) = [headers |-> Append(<< >>, <<Newsgroups>>), body |-> << >>, line |-> << >>,
                     inHeader |-> TRUE]
    BY <1>5, <1>6, <1>7, <2>1, ParseByteSteps
  <2> QED  BY <2>2
<1>9. After(p4) = [headers |-> << <<Newsgroups>> >>, body |-> << >>, line |-> <<Gateway>>,
                   inHeader |-> TRUE]
  <2>1. After(p4) = [headers |-> << <<Newsgroups>> >>, body |-> << >>,
                     line |-> Append(<< >>, Gateway), inHeader |-> TRUE]
    BY <1>1, <1>5, <1>6, <1>8, ParseByteSteps
  <2> QED  BY <2>1
<1>10. After(p6) = [headers |-> Before, body |-> << >>, line |-> << >>, inHeader |-> TRUE]
  <2>1. After(p5) = After(p4)
    BY <1>5, <1>6, ParseByteSteps
  <2> DEFINE q == After(p5)
             a == <<Newsgroups>>
             b == <<Gateway>>
  <2>4. q.headers = <<a>> /\ q.body = << >> /\ q.line = b /\ q.inHeader = TRUE /\ b # << >>
    BY <1>9, <2>1
  <2>2. After(p6) = [headers |-> Append(<<a>>, b), body |-> << >>, line |-> << >>,
                     inHeader |-> TRUE]
    <3>1. q \in Parser /\ After(p6) = ParseByte(q, LF)
      BY <1>5, <1>6
    <3> HIDE DEF q, a, b
    <3> QED  BY <2>4, <3>1, ParseByteSteps
  <2>3. Append(<<a>>, b) = Before
    <3>1. <<a, b>> = Before
      BY DEF Before
    <3> HIDE DEF a, b
    <3> DEFINE s == Append(<<a>>, b)
    <3>2. s \in Seq(Line) /\ Len(s) = 2 /\ s[1] = a /\ s[2] = b
      <4>1. <<a>> \in Seq(Line) /\ b \in Line /\ Len(<<a>>) = 1 /\ <<a>>[1] = a
        BY BytesAreBytes DEF a, b
      <4> QED  BY <4>1, AppendProperties
    <3> HIDE DEF s
    <3>3. s = <<a, b>>
      BY <3>2
    <3> QED  BY <3>1, <3>3 DEF s
  <2> QED  BY <2>2, <2>3
<1>11. ASSUME NEW text \in Seq(Line)
       PROVE  TextRead(Before, text, 0, << >>) =
                [headers |-> Before, body |-> << >>, line |-> << >>, inHeader |-> TRUE]
  <2>1. HeadEnd(text) \in 1..Len(text) + 1 /\ Len(text) \in Nat
    BY HeadEndFirst, LenProperties
  <2>2. SubSeq(text, 1, 0) = << >>
    BY SubSeqEmpty
  <2>3. Before \o << >> = Before
    BY BytesAreBytes, ConcatEmptySeq DEF Before
  <2>4. TextRead(Before, text, 0, << >>) =
          [headers  |-> Before \o SubSeq(text, 1, 0), body |-> << >>, line |-> << >>,
           inHeader |-> TRUE]
    BY <2>1 DEF TextRead
  <2> QED  BY <2>2, <2>3, <2>4
<1> QED  BY <1>2, <1>3, <1>10, <1>11

\* What all places in a mail have in common before a byte is read.
Mailed(eol, cut, text) ==
  /\ Typed /\ eol \in Eol /\ cut \in BOOLEAN /\ text \in Seq(Line)
  /\ heard = << >> /\ Len(sent) = 1 /\ sent[1].command = POST /\ sent[1].text = text
  /\ link = "open"
  /\ cut => text # << >> /\ text[Len(text)] # << >>

LEMMA MailedSame ==
  ASSUME NEW eol, NEW cut, NEW text, Mailed(eol, cut, text), ReadMail
  PROVE  /\ rest' = Tail(rest) /\ UNCHANGED <<sent, link, at, heard, answer, failed>>
         /\ text \in Seq(Line) /\ Len(text) \in Nat /\ eol \in Eol /\ eol \in Seq(Byte)
         /\ cut \in BOOLEAN /\ sent[1].text = text
         /\ msg \in Seq(Byte) /\ Before \in Seq(Line) /\ << >> \in Line
         /\ \A i \in 1..Len(text) :
              text[i] \in Line /\ Len(text[i]) \in Nat /\ text[i] \in Seq(Byte)
         /\ {CR, LF} \subseteq Byte /\ CR # LF
<1>1. rest' = Tail(rest) /\ UNCHANGED <<sent, link, at, heard, answer, failed>>
  BY DEF ReadMail, history
<1>2. /\ text \in Seq(Line) /\ eol \in Eol /\ cut \in BOOLEAN /\ sent[1].text = text
      /\ msg \in Seq(Byte)
  BY DEF Mailed, Typed, TypeOK
<1>3. Len(text) \in Nat /\ eol \in Seq(Byte) /\ \A i \in 1..Len(text) : text[i] \in Line
  BY <1>2, BytesAreBytes, LenProperties, ElementOfSeq
<1>4. \A l \in Line : Len(l) \in Nat /\ l \in Seq(Byte)
  BY BytesAreBytes DEF Line
<1>5. Before \in Seq(Line) /\ << >> \in Line
  BY BytesAreBytes DEF Before
<1>6. {CR, LF} \subseteq Byte /\ CR # LF
  BY DEF Byte, CR, LF
<1> QED  BY <1>1, <1>2, <1>3, <1>4, <1>5, <1>6

\* A byte is counted as it is parsed.
LEMMA MailCount ==
  ASSUME NEW eol, NEW cut, NEW text, Mailed(eol, cut, text), ReadMail,
         NEW c \in Byte \ {CR}, Head(rest) = c,
         NEW j \in 0..Len(text), NEW part \in Line, MailRead(j, part)
  PROVE  count' = Tally(ParseByte(TextRead(<< >>, text, j, part), c))
<1>1. text \in Seq(Line) /\ << >> \in Seq(Line) /\ sent[1].text = text
  BY MailedSame
<1>2. count' = CountByte(count, c)
  BY DEF ReadMail
<1>3. count = Tally(TextRead(<< >>, text, j, part))
  BY <1>1 DEF MailRead
<1>4. TextRead(<< >>, text, j, part) \in Parser
  BY <1>1, TextReadTyped
<1> QED  BY <1>2, <1>3, <1>4, TallyByte

\* A byte of a line.
LEMMA MailByte ==
  ASSUME NEW eol, NEW cut, NEW text, Mailed(eol, cut, text), ReadMail,
         NEW c \in Byte \ {CR, LF}, Head(rest) = c,
         NEW j \in 0..Len(text), NEW part \in Line, MailRead(j, part)
  PROVE  MailRead(j, Append(part, c))'
<1>1. /\ text \in Seq(Line) /\ msg \in Seq(Byte) /\ Before \in Seq(Line)
      /\ sent' = sent /\ sent[1].text = text
  BY MailedSame
<1>0. count' = Tally(TextRead(<< >>, text, j, Append(part, c)))
  <2>1. ParseByte(TextRead(<< >>, text, j, part), c) = TextRead(<< >>, text, j, Append(part, c))
    <3> DEFINE before == << >>
    <3>1. before \in Seq(Line)
      OBVIOUS
    <3> HIDE DEF before
    <3>2. ParseByte(TextRead(before, text, j, part), c) = TextRead(before, text, j, Append(part, c))
      BY <1>1, <3>1, TextReadByte
    <3> QED  BY <3>2 DEF before
  <2> QED  BY <2>1, MailCount
<1>2. SUFFICES ASSUME ~ toolong'
               PROVE  After(msg') = TextRead(Before, text, j, Append(part, c))
  BY <1>1, <1>0 DEF MailRead
<1>3. ~ toolong /\ msg' = msg \o <<c>>
  BY <1>2 DEF ReadMail
<1>4. msg' = Append(msg, c)
  BY <1>1, <1>3, AppendIsConcat
<1>5. After(msg') = ParseByte(After(msg), c)
  BY <1>1, <1>4, AfterAppend
<1>6. After(msg) = TextRead(Before, text, j, part)
  BY <1>1, <1>3 DEF MailRead
<1>7. ParseByte(TextRead(Before, text, j, part), c) = TextRead(Before, text, j, Append(part, c))
  BY <1>1, TextReadByte
<1> QED  BY <1>5, <1>6, <1>7

\* The end of a line; the gateway puts a CR before it.
LEMMA MailLF ==
  ASSUME NEW eol, NEW cut, NEW text, Mailed(eol, cut, text), ReadMail, Head(rest) = LF,
         NEW j \in 0..Len(text) - 1, MailRead(j, text[j + 1])
  PROVE  MailRead(j + 1, << >>)'
<1>1. /\ text \in Seq(Line) /\ msg \in Seq(Byte) /\ Before \in Seq(Line) /\ Len(text) \in Nat
      /\ sent' = sent /\ sent[1].text = text /\ {CR, LF} \subseteq Byte /\ CR # LF
  BY MailedSame
<1>0. count' = Tally(TextRead(<< >>, text, j + 1, << >>))
  <2>1. text[j + 1] \in Line /\ j \in 0..Len(text) /\ LF \in Byte \ {CR} /\ << >> \in Seq(Line)
    BY <1>1, ElementOfSeq
  <2>2. ParseByte(TextRead(<< >>, text, j, text[j + 1]), LF) = TextRead(<< >>, text, j + 1, << >>)
    BY <1>1, <2>1, TextReadLF
  <2>3. count' = Tally(ParseByte(TextRead(<< >>, text, j, text[j + 1]), LF))
    BY <2>1, MailCount
  <2> QED  BY <2>2, <2>3
<1>2. SUFFICES ASSUME ~ toolong'
               PROVE  After(msg') = TextRead(Before, text, j + 1, << >>)
  BY <1>1, <1>0 DEF MailRead
<1>3. ~ toolong /\ msg' = msg \o <<CR, LF>>
  BY <1>1, <1>2 DEF ReadMail
<1>4. msg' = Append(Append(msg, CR), LF)
  <2>1. <<CR>> \in Seq(Byte) /\ <<LF>> \in Seq(Byte) /\ <<CR, LF>> = <<CR>> \o <<LF>>
    BY <1>1, CrLf DEF Crlf
  <2>2. msg \o (<<CR>> \o <<LF>>) = (msg \o <<CR>>) \o <<LF>>
    <3>1. Regroups(msg, <<CR>>, <<LF>>)
      BY <1>1, <2>1, Associative
    <3> QED  BY <3>1 DEF Regroups
  <2>3. msg \o <<CR>> = Append(msg, CR) /\ Append(msg, CR) \in Seq(Byte)
    BY <1>1, AppendIsConcat, AppendProperties
  <2>4. Append(msg, CR) \o <<LF>> = Append(Append(msg, CR), LF)
    BY <1>1, <2>3, AppendIsConcat
  <2> QED  BY <1>3, <2>1, <2>2, <2>3, <2>4
<1>5. After(msg') = ParseByte(ParseByte(After(msg), CR), LF)
  <2>1. After(Append(msg, CR)) = ParseByte(After(msg), CR) /\ Append(msg, CR) \in Seq(Byte)
    BY <1>1, AfterAppend, AppendProperties
  <2> QED  BY <1>1, <1>4, <2>1, AfterAppend
<1>6. After(msg) = TextRead(Before, text, j, text[j + 1])
  BY <1>1, <1>3 DEF MailRead
<1>7. ParseByte(TextRead(Before, text, j, text[j + 1]), CR) = TextRead(Before, text, j, text[j + 1])
  <2>1. text[j + 1] \in Line /\ j \in 0..Len(text)
    BY <1>1, ElementOfSeq
  <2> QED  BY <1>1, <2>1, TextReadByte
<1>8. ParseByte(TextRead(Before, text, j, text[j + 1]), LF) = TextRead(Before, text, j + 1, << >>)
  BY <1>1, TextReadLF
<1> QED  BY <1>5, <1>6, <1>7, <1>8

LEMMA MailCR ==
  ASSUME ReadMail, Head(rest) = CR, NEW j, NEW part, MailRead(j, part)
  PROVE  MailRead(j, part)'
BY DEF ReadMail, MailRead, CR, LF

\* Before the end of line j.
LEMMA MailEol ==
  ASSUME NEW eol, NEW cut, NEW text, Mailed(eol, cut, text), ReadMail,
         NEW j \in 1..Len(text), ~ (cut /\ j = Len(text)),
         rest = eol \o MailToCome(eol, cut, j), MailRead(j - 1, text[j])
  PROVE  MailPlace(eol, cut, text)'
<1> DEFINE to == MailToCome(eol, cut, j)
<1>1. /\ text \in Seq(Line) /\ Len(text) \in Nat /\ eol \in Eol /\ cut \in BOOLEAN
      /\ rest' = Tail(rest) /\ sent' = sent /\ sent[1].text = text
      /\ {CR, LF} \subseteq Byte
  BY MailedSame
<1>2. to \in Seq(Byte) /\ <<LF>> \o to \in Seq(Byte)
  <2>1. j \in 0..Len(text)
    BY <1>1
  <2>2. to \in Seq(Byte)
    BY <1>1, <2>1, MailSteps
  <2> QED  BY <2>2, BytesAreBytes, Joined
<1>3. to' = to
  BY <1>1 DEF MailToCome
<1>4. CASE eol = <<LF>>
  <2>1. Head(rest) = LF /\ rest' = to
    BY <1>1, <1>2, <1>4, TakeByte
  <2>2. MailRead(j, << >>)'
    <3>1. j - 1 \in 0..Len(text) - 1 /\ (j - 1) + 1 = j
      BY <1>1
    <3>2. MailRead(j - 1 + 1, << >>)'
      BY <2>1, <3>1, MailLF
    <3> QED  BY <3>1, <3>2
  <2>3. j \in 0..Len(text)
    BY <1>1
  <2> QED  BY <1>3, <2>1, <2>2, <2>3 DEF MailPlace, MailBegun
<1>5. CASE eol # <<LF>>
  <2>1. eol \o to = <<CR>> \o (<<LF>> \o to)
    BY <1>1, <1>2, <1>5, EolBytes
  <2>2. Head(rest) = CR /\ rest' = <<LF>> \o to
    BY <1>1, <1>2, <2>1, TakeByte
  <2>3. MailRead(j - 1, text[j])'
    BY <2>2, MailCR
  <2>4. MailLineEnds(eol, cut, text, j)'
    BY <1>3, <2>2, <2>3 DEF MailLineEnds
  <2> QED  BY <2>4 DEF MailPlace
<1> QED  BY <1>4, <1>5

\* Byte m + 1 of line j.
LEMMA MailNextByte ==
  ASSUME NEW eol, NEW cut, NEW text, Mailed(eol, cut, text), ReadMail,
         NEW j \in 1..Len(text), NEW m \in 0..Len(text[j]) - 1,
         rest = SubSeq(text[j], m + 1, Len(text[j]))
                  \o (MailEnd(eol, cut, text, j) \o MailToCome(eol, cut, j)),
         MailRead(j - 1, SubSeq(text[j], 1, m))
  PROVE  MailPlace(eol, cut, text)'
<1> DEFINE l == text[j]
           c == l[m + 1]
           to == MailEnd(eol, cut, text, j) \o MailToCome(eol, cut, j)
           after == SubSeq(l, m + 2, Len(l))
<1>1. /\ text \in Seq(Line) /\ Len(text) \in Nat /\ eol \in Eol /\ cut \in BOOLEAN
      /\ rest' = Tail(rest) /\ sent' = sent /\ sent[1].text = text
      /\ l \in Line /\ Len(l) \in Nat
  <2>1. \A i \in 1..Len(text) : text[i] \in Line /\ Len(text[i]) \in Nat
    BY MailedSame
  <2>2. l \in Line /\ Len(l) \in Nat
    BY <2>1
  <2> HIDE DEF l
  <2> QED  BY <2>2, MailedSame
<1>2. to \in Seq(Byte)
  <2>1. j \in 0..Len(text)
    BY <1>1
  <2>2. MailToCome(eol, cut, j) \in Seq(Byte)
    BY <1>1, <2>1, MailSteps
  <2>3. MailEnd(eol, cut, text, j) \in Seq(Byte)
    BY MailedSame, Joined DEF MailEnd
  <2> QED  BY <2>2, <2>3, Joined
<1>3. to' = to
  BY <1>1 DEF MailToCome
<1>4. /\ SubSeq(l, m + 1, Len(l)) = <<c>> \o after
      /\ after \in Seq(Byte)
      /\ SubSeq(l, 1, m) \in Line
      /\ SubSeq(l, 1, m + 1) = Append(SubSeq(l, 1, m), c)
      /\ c \in Byte \ {CR, LF}
  <2>1. m \in 0..Len(l) - 1
    OBVIOUS
  <2> HIDE DEF l
  <2> QED  BY <1>1, <2>1, LineParts
<1> HIDE DEF to
<1>5. Head(rest) = c /\ rest' = after \o to
  <2>1. rest = (<<c>> \o after) \o to
    BY <1>4 DEF to
  <2> HIDE DEF c, after
  <2>2. <<c>> \in Seq(Byte) /\ after \in Seq(Byte) /\ c \in Byte
    BY <1>4
  <2> DEFINE tail == after \o to
  <2>3. (<<c>> \o after) \o to = <<c>> \o tail /\ tail \in Seq(Byte)
    <3>1. Regroups(<<c>>, after, to) /\ tail \in Seq(Byte)
      BY <1>2, <2>2, Associative, Joined
    <3> QED  BY <3>1 DEF Regroups
  <2> HIDE DEF tail
  <2>4. Head(<<c>> \o tail) = c /\ Tail(<<c>> \o tail) = tail
    BY <2>2, <2>3, TakeByte
  <2> QED  BY <1>1, <2>1, <2>3, <2>4 DEF tail
<1>6. MailRead(j - 1, SubSeq(l, 1, m + 1))'
  <2>1. j - 1 \in 0..Len(text)
    BY <1>1
  <2> DEFINE part == SubSeq(l, 1, m)
  <2>2. part \in Line /\ MailRead(j - 1, part) /\ Append(part, c) = SubSeq(l, 1, m + 1)
    BY <1>4
  <2> HIDE DEF c, part
  <2>3. MailRead(j - 1, Append(part, c))'
    BY <1>4, <1>5, <2>1, <2>2, MailByte
  <2> QED  BY <2>2, <2>3
<1>7. MailWithin(eol, cut, text, j, m + 1)'
  <2>1. (m + 1) + 1 = m + 2
    BY <1>1
  <2> QED  BY <1>3, <1>5, <1>6, <2>1 DEF MailWithin, to
<1>8. m + 1 \in 1..Len(l)
  BY <1>1
<1> QED  BY <1>7, <1>8 DEF MailPlace

LEMMA MailReading ==
  ASSUME NEW eol, NEW cut, NEW text, Mailed(eol, cut, text), ReadMail,
         MailPlace(eol, cut, text)
  PROVE  MailPlace(eol, cut, text)'
<1>1. /\ text \in Seq(Line) /\ Len(text) \in Nat /\ eol \in Eol /\ cut \in BOOLEAN
      /\ rest' = Tail(rest) /\ sent' = sent /\ sent[1].text = text /\ eol \in Seq(Byte)
      /\ \A i \in 1..Len(text) :
           text[i] \in Line /\ Len(text[i]) \in Nat /\ text[i] \in Seq(Byte)
  <2>1. \A i \in 1..Len(text) :
          text[i] \in Line /\ Len(text[i]) \in Nat /\ text[i] \in Seq(Byte)
    BY MailedSame
  <2> QED  BY <2>1, MailedSame
<1>2. rest # << >>
  BY DEF ReadMail
<1>3. /\ MailToCome(eol, cut, Len(text)) = << >>
      /\ \A j \in 0..Len(text) : MailToCome(eol, cut, j) \in Seq(Byte)
      /\ \A j \in 1..Len(text) : MailToCome(eol, cut, j - 1) =
           text[j] \o (MailEnd(eol, cut, text, j) \o MailToCome(eol, cut, j))
  BY <1>1, MailSteps
<1>4. ASSUME NEW i \in 0..Len(text), MailBegun(eol, cut, i)
      PROVE  MailPlace(eol, cut, text)'
  <2>1. rest = MailToCome(eol, cut, i) /\ MailRead(i, << >>)
    BY <1>4 DEF MailBegun
  <2>2. i # Len(text)
    BY <1>2, <1>3, <2>1
  <2>3. PICK j \in 1..Len(text) : i = j - 1
    <3>1. i + 1 \in 1..Len(text) /\ i = (i + 1) - 1
      BY <1>1, <2>2
    <3> QED  BY <3>1
  <2> DEFINE l == text[j]
             to == MailEnd(eol, cut, text, j) \o MailToCome(eol, cut, j)
  <2>4. l \in Line /\ Len(l) \in Nat /\ l \in Seq(Byte)
    BY <1>1
  <2>5. rest = l \o to
    BY <1>3, <2>1, <2>3
  <2>6. CASE l # << >>
    <3>1. SubSeq(l, 1, 0) = << >> /\ SubSeq(l, 0 + 1, Len(l)) = l
      <4>1. SubSeq(l, 1, Len(l)) = l /\ 0 + 1 = 1
        BY <2>4, SubSeqFull
      <4> QED  BY <2>4, <4>1, SubSeqEmpty
    <3>2. 0 \in 0..Len(l) - 1
      BY <2>4, <2>6
    <3>3. MailRead(j - 1, SubSeq(l, 1, 0))
      BY <2>1, <2>3, <3>1
    <3>4. rest = SubSeq(l, 0 + 1, Len(l)) \o to
      BY <2>5, <3>1
    <3> QED  BY <3>2, <3>3, <3>4, MailNextByte
  <2>7. CASE l = << >>
    <3>1. ~ (cut /\ j = Len(text))
      BY <2>7 DEF Mailed
    <3>2. rest = eol \o MailToCome(eol, cut, j)
      <4>1. j \in 0..Len(text)
        BY <1>1
      <4>2. to = eol \o MailToCome(eol, cut, j)
        BY <3>1 DEF MailEnd
      <4>3. to \in Seq(Byte)
        BY <1>1, <1>3, <4>1, <4>2, Joined
      <4> HIDE DEF to
      <4> QED  BY <2>5, <2>7, <4>2, <4>3, Joined
    <3>3. MailRead(j - 1, text[j])
      BY <2>1, <2>3, <2>7
    <3> QED  BY <3>1, <3>2, <3>3, MailEol
  <2> QED  BY <2>6, <2>7
<1>5. ASSUME NEW j \in 1..Len(text), NEW m \in 1..Len(text[j]), MailWithin(eol, cut, text, j, m)
      PROVE  MailPlace(eol, cut, text)'
  <2> DEFINE l == text[j]
             to == MailEnd(eol, cut, text, j) \o MailToCome(eol, cut, j)
  <2>1. rest = SubSeq(l, m + 1, Len(l)) \o to /\ MailRead(j - 1, SubSeq(l, 1, m))
    BY <1>5 DEF MailWithin
  <2>2. l \in Line /\ Len(l) \in Nat /\ l \in Seq(Byte)
    BY <1>1
  <2>3. CASE m < Len(l)
    <3>1. m \in 0..Len(l) - 1
      BY <2>2, <2>3
    <3> QED  BY <2>1, <3>1, MailNextByte
  <2>4. CASE m = Len(l)
    <3>1. SubSeq(l, m + 1, Len(l)) = << >> /\ SubSeq(l, 1, m) = l
      BY <2>2, <2>4, SubSeqEmpty, SubSeqFull
    <3>2. MailToCome(eol, cut, j) \in Seq(Byte)
      <4>1. j \in 0..Len(text)
        BY <1>1
      <4> QED  BY <1>3, <4>1
    <3>3. to \in Seq(Byte)
      BY <1>1, <3>2, Joined DEF MailEnd
    <3>4. rest = to
      <4> HIDE DEF to
      <4> QED  BY <2>1, <3>1, <3>3, Joined
    <3>5. ~ (cut /\ j = Len(text))
      <4>1. SUFFICES ASSUME cut, j = Len(text) PROVE FALSE
        OBVIOUS
      <4>2. to = << >> \o << >>
        BY <1>3, <4>1 DEF MailEnd
      <4> QED  BY <1>2, <3>4, <4>2, Joined
    <3>6. to = eol \o MailToCome(eol, cut, j)
      BY <3>5 DEF MailEnd
    <3> QED  BY <2>1, <3>1, <3>4, <3>5, <3>6, MailEol
  <2> QED  BY <2>2, <2>3, <2>4
<1>6. ASSUME NEW j \in 1..Len(text), MailLineEnds(eol, cut, text, j)
      PROVE  MailPlace(eol, cut, text)'
  <2> DEFINE to == MailToCome(eol, cut, j)
  <2>1. j \in 0..Len(text) /\ j - 1 \in 0..Len(text) - 1 /\ (j - 1) + 1 = j
    BY <1>1
  <2>2. to \in Seq(Byte) /\ LF \in Byte
    BY <1>3, <2>1 DEF Byte
  <2>3. rest = <<LF>> \o to /\ MailRead(j - 1, text[j])
    BY <1>6 DEF MailLineEnds
  <2>4. Head(rest) = LF /\ rest' = to
    BY <1>1, <2>2, <2>3, TakeByte
  <2>5. MailRead(j - 1 + 1, << >>)'
    BY <2>1, <2>3, <2>4, MailLF
  <2>6. to' = to
    BY <1>1 DEF MailToCome
  <2>7. MailBegun(eol, cut, j)'
    BY <2>1, <2>4, <2>5, <2>6 DEF MailBegun
  <2> QED  BY <2>1, <2>7 DEF MailPlace
<1> QED  BY <1>4, <1>5, <1>6 DEF MailPlace

LEMMA ReadMailFramed ==
  ASSUME FramedInv, ReadMail, ~ failed
  PROVE  FramedInv'
<1> DEFINE text == sent[1].text
<1>1. Typed /\ Framed /\ Typed' /\ at = "mail" /\ rest' = Tail(rest)
      /\ UNCHANGED <<sent, link, at, heard, answer, failed>>
  BY ReadMailTyped DEF FramedInv, ReadMail, history
<1>2. PICK eol \in Eol : AtMail(eol)
  BY <1>1 DEF FramedInv, Position
<1>3. PICK cut \in BOOLEAN :
        (cut => text # << >> /\ text[Len(text)] # << >>) /\ MailPlace(eol, cut, text)
  BY <1>2 DEF AtMail
<1>4. Mailed(eol, cut, text)
  <2>1. text \in Seq(Line)
    <3>1. sent \in Seq(Item) /\ 1 \in 1..Len(sent)
      BY <1>1, <1>2 DEF AtMail, Typed
    <3>2. sent[1] \in Item
      BY <3>1, ElementOfSeq
    <3> QED  BY <3>2 DEF Item
  <2> QED  BY <1>1, <1>2, <1>3, <2>1 DEF Mailed, AtMail
<1>5. MailPlace(eol, cut, text)'
  <2>1. sent' = sent
    BY <1>1
  <2> DEFINE t == sent[1].text
  <2>2. PICK x : x = t
    OBVIOUS
  <2>3. MailPlace(eol, cut, x)'
    BY <1>3, <1>4, <2>2, MailReading
  <2>4. x = text'
    BY <2>1, <2>2
  <2> QED  BY <2>3, <2>4 DEF MailPlace, MailBegun, MailWithin, MailLineEnds
<1>6. AtMail(eol)'
  BY <1>1, <1>2, <1>3, <1>5 DEF AtMail
<1>7. Framed' /\ ~ failed'
  BY <1>1 DEF Framed
<1> QED  BY <1>1, <1>6, <1>7 DEF FramedInv, Position

\* What is between the headers of the gateway and the body is what was meant.
LEMMA BeforeCut ==
  ASSUME NEW text \in Seq(Line)
  PROVE  LET whole == Before \o Meant(text).headers IN
         SubSeq(whole, 3, Len(whole)) = Meant(text).headers
<1> DEFINE h == Meant(text).headers
           whole == Before \o h
           part == SubSeq(whole, 3, Len(whole))
<1>1. h \in Seq(Line)
  <2> DEFINE end == HeadEnd(text)
  <2>1. /\ end \in 1..Len(text) + 1 /\ Len(text) \in Nat
        /\ Meant(text).headers = SubSeq(text, 1, end - 1)
    BY HeadEndFirst, LenProperties
  <2> HIDE DEF end
  <2>2. \A i \in 1..end - 1 : text[i] \in Line
    BY <2>1, ElementOfSeq
  <2> QED  BY <2>1, <2>2, SubSeqProperties
<1> HIDE DEF h
<1>2. Before \in Seq(Line) /\ Len(Before) = 2 /\ Len(h) \in Nat
  BY <1>1, BytesAreBytes, LenProperties DEF Before
<1>3. /\ whole \in Seq(Line) /\ Len(whole) = 2 + Len(h)
      /\ \A i \in 1..2 + Len(h) : whole[i] = IF i <= 2 THEN Before[i] ELSE h[i - 2]
  <2>1. /\ whole \in Seq(Line) /\ Len(whole) = Len(Before) + Len(h)
        /\ \A i \in 1..Len(Before) + Len(h) :
             whole[i] = IF i <= Len(Before) THEN Before[i] ELSE h[i - Len(Before)]
    BY <1>1, <1>2, ConcatProperties
  <2> HIDE DEF whole
  <2> QED  BY <1>2, <2>1
<1> HIDE DEF whole
<1>4. /\ part \in Seq(Line) /\ Len(part) = Len(h)
      /\ \A i \in 1..Len(h) : part[i] = whole[3 + i - 1]
  <2>1. \A i \in 3..Len(whole) : whole[i] \in Line
    BY <1>2, <1>3, ElementOfSeq
  <2>2. /\ part \in Seq(Line)
        /\ Len(part) = IF 3 <= Len(whole) THEN Len(whole) - 3 + 1 ELSE 0
        /\ \A i \in 1..Len(whole) - 3 + 1 : part[i] = whole[3 + i - 1]
    BY <1>2, <1>3, <2>1, SubSeqProperties
  <2> HIDE DEF part
  <2> QED  BY <1>2, <1>3, <2>2
<1> HIDE DEF part
<1>5. \A i \in 1..Len(part) : part[i] = h[i]
  <2> TAKE i \in 1..Len(part)
  <2>1. i \in 1..Len(h) /\ 3 + i - 1 \in 1..2 + Len(h) /\ ~ (3 + i - 1 <= 2) /\ (3 + i - 1) - 2 = i
    BY <1>2, <1>4
  <2> QED  BY <1>3, <1>4, <2>1
<1>6. part = h
  BY <1>1, <1>4, <1>5, SeqEqual
<1> QED  BY <1>6 DEF part, whole, h

\* What the gateway has at the end of a mail: all of it, and its lines are counted,
\* but for a last one without an end.
MailWhole(text, article) ==
  /\ ~ toolong => article = [headers |-> Before \o Meant(text).headers, body |-> Meant(text).body]
  /\ count.linecount \in {LinesOf(text), LinesOf(text) - 1}

LEMMA MailTaken ==
  ASSUME FramedInv, MailPost, ~ failed
  PROVE  /\ Len(sent) = 1 /\ sent[1].command = POST /\ heard = << >>
         /\ sent[1].text \in Seq(Line) /\ msg \in Seq(Byte)
         /\ MailWhole(sent[1].text, ParseArticle(msg))
<1> DEFINE text == sent[1].text
           article == ParseArticle(msg)
<1>1. Typed /\ Framed /\ Typed' /\ at = "mail" /\ rest = << >>
  BY MailPostTyped DEF FramedInv, MailPost
<1>2. PICK eol \in Eol : AtMail(eol)
  BY <1>1 DEF FramedInv, Position
<1>3. PICK cut \in BOOLEAN :
        (cut => text # << >> /\ text[Len(text)] # << >>) /\ MailPlace(eol, cut, text)
  BY <1>2 DEF AtMail
<1>4. /\ Len(sent) = 1 /\ sent[1].command = POST
      /\ text \in Seq(Line) /\ msg \in Seq(Byte)
  <2>1. sent \in Seq(Item) /\ 1 \in 1..Len(sent) /\ msg \in Seq(Byte)
        /\ Len(sent) = 1 /\ sent[1].command = POST
    BY <1>1, <1>2 DEF AtMail, Typed, TypeOK
  <2>2. sent[1] \in Item
    BY <2>1, ElementOfSeq
  <2> QED  BY <2>1, <2>2 DEF Item
<1>5. /\ Len(text) \in Nat /\ Before \in Seq(Line) /\ eol \in Seq(Byte) /\ eol # << >>
      /\ \A i \in 1..Len(text) : text[i] \in Line /\ Len(text[i]) \in Nat /\ text[i] \in Seq(Byte)
  <2>1. \A i \in 1..Len(text) : text[i] \in Line
    BY <1>4, ElementOfSeq
  <2>2. \A l \in Line : Len(l) \in Nat /\ l \in Seq(Byte)
    BY BytesAreBytes DEF Line
  <2>3. eol \in Seq(Byte) /\ eol # << >>
    <3>1. <<LF>> # << >> /\ <<CR, LF>> # << >>
      OBVIOUS
    <3> QED  BY <3>1, BytesAreBytes DEF Eol, Crlf
  <2> QED  BY <1>4, <2>1, <2>2, <2>3, BytesAreBytes, LenProperties DEF Before
<1>6. /\ MailToCome(eol, cut, Len(text)) = << >>
      /\ \A j \in 0..Len(text) : MailToCome(eol, cut, j) \in Seq(Byte)
      /\ \A j \in 1..Len(text) : MailToCome(eol, cut, j - 1) =
           text[j] \o (MailEnd(eol, cut, text, j) \o MailToCome(eol, cut, j))
  BY <1>4, MailSteps
<1>7. \A a, b \in Seq(Byte) : a \o b = << >> => a = << >> /\ b = << >>
  <2> TAKE a, b \in Seq(Byte)
  <2>1. Len(a \o b) = Len(a) + Len(b) /\ Len(a) \in Nat /\ Len(b) \in Nat
    BY ConcatProperties, LenProperties
  <2> QED  BY <2>1
<1>8. MailWhole(text, article)
  <2>1. ASSUME NEW j \in 0..Len(text), MailBegun(eol, cut, j)
        PROVE  MailWhole(text, article)
    <3>1. MailToCome(eol, cut, j) = << >> /\ MailRead(j, << >>)
      BY <1>1, <2>1 DEF MailBegun
    <3>2. j = Len(text)
      <4>1. SUFFICES ASSUME j # Len(text) PROVE FALSE
        OBVIOUS
      <4>2. PICK i \in 1..Len(text) : j = i - 1 /\ i \in 0..Len(text)
        <5>1. j + 1 \in 1..Len(text) /\ j = (j + 1) - 1 /\ j + 1 \in 0..Len(text)
          BY <1>5, <4>1
        <5> QED  BY <5>1
      <4> DEFINE e == MailEnd(eol, cut, text, i)
                 to == MailToCome(eol, cut, i)
      <4>3. text[i] \o (e \o to) = << >> /\ to \in Seq(Byte) /\ text[i] \in Seq(Byte)
        BY <1>5, <1>6, <3>1, <4>2
      <4>4. e \in Seq(Byte)
        BY <1>5, Joined DEF MailEnd
      <4>5. text[i] = << >> /\ e = << >>
        <5> HIDE DEF e, to
        <5>1. e \o to \in Seq(Byte)
          BY <4>3, <4>4, Joined
        <5> QED  BY <1>7, <4>3, <4>4, <5>1
      <4> QED  BY <1>3, <1>5, <4>5 DEF MailEnd
    <3>3. /\ ~ toolong => After(msg) = TextRead(Before, text, Len(text), << >>)
          /\ count = Tally(TextRead(<< >>, text, Len(text), << >>))
      BY <3>1, <3>2 DEF MailRead
    <3> HIDE DEF text
    <3>4. Len(text) \in 0..Len(text) /\ << >> \in Line /\ Len(<< >>) \div Period = 0
      BY <1>5, Periods DEF Line
    <3>5. /\ LinesOf(text) \in Nat /\ LinesOf(text) = Lines(text)[Len(text)]
          /\ count.linecount = Lines(text)[Len(text)] + Len(<< >>) \div Period
      BY <1>4, <3>3, <3>4, LinesAppend, LinesStates, TallyText
    <3> QED  BY <1>4, <1>5, <3>3, <3>4, <3>5, ArticleMeant DEF MailWhole
  <2>2. ASSUME NEW j \in 1..Len(text), NEW m \in 1..Len(text[j]),
               MailWithin(eol, cut, text, j, m)
        PROVE  MailWhole(text, article)
    <3> DEFINE l == text[j]
               e == MailEnd(eol, cut, text, j)
               to == MailToCome(eol, cut, j)
               r == SubSeq(l, m + 1, Len(l))
    <3>1. r \o (e \o to) = << >> /\ MailRead(j - 1, SubSeq(l, 1, m))
      BY <1>1, <2>2 DEF MailWithin
    <3>2. l \in Line /\ Len(l) \in Nat /\ l \in Seq(Byte) /\ l # << >>
      BY <1>5
    <3>3. e \in Seq(Byte) /\ to \in Seq(Byte) /\ r \in Seq(Byte)
      <4>1. \A i \in m + 1..Len(l) : l[i] \in Byte
        BY <3>2, ElementOfSeq
      <4>2. r \in Seq(Byte)
        BY <3>2, <4>1, SubSeqProperties
      <4>3. j \in 0..Len(text)
        BY <1>5
      <4> QED  BY <1>5, <1>6, <4>2, <4>3, Joined DEF MailEnd
    <3>4. r = << >> /\ e = << >>
      <4> HIDE DEF r, e, to
      <4>1. e \o to \in Seq(Byte)
        BY <3>3, Joined
      <4> QED  BY <1>7, <3>1, <3>3, <4>1
    <3>5. m = Len(l)
      <4>1. SUFFICES ASSUME m + 1 <= Len(l) PROVE FALSE
        BY <3>2
      <4>2. \A i \in m + 1..Len(l) : l[i] \in Byte
        BY <3>2, ElementOfSeq
      <4>3. Len(r) = Len(l) - (m + 1) + 1
        BY <3>2, <4>1, <4>2, SubSeqProperties
      <4> HIDE DEF l, r
      <4>4. Len(r) = 0
        BY <3>4
      <4>5. m \in Nat
        OBVIOUS
      <4> QED  BY <3>2, <4>1, <4>3, <4>4, <4>5
    <3>6. j = Len(text)
      BY <1>5, <3>4 DEF MailEnd
    <3>7. /\ ~ toolong => After(msg) = TextRead(Before, text, j - 1, l)
          /\ count = Tally(TextRead(<< >>, text, j - 1, l))
      <4>1. SubSeq(l, 1, m) = l
        BY <3>2, <3>5, SubSeqFull
      <4> QED  BY <3>1, <4>1 DEF MailRead
    <3>8. ~ toolong => After(Append(msg, LF)) = TextRead(Before, text, Len(text), << >>)
      <4>1. After(Append(msg, LF)) = ParseByte(After(msg), LF)
        BY <1>4, AfterAppend DEF Byte
      <4>2. j - 1 \in 0..Len(text) - 1 /\ (j - 1) + 1 = j
        BY <1>5
      <4>3. ParseByte(TextRead(Before, text, j - 1, text[(j - 1) + 1]), LF)
              = TextRead(Before, text, (j - 1) + 1, << >>)
        <5> HIDE DEF text
        <5> QED  BY <1>4, <1>5, <4>2, TextReadLF
      <4> QED  BY <3>6, <3>7, <4>1, <4>2, <4>3
    <3>9. ~ toolong => After(msg).line # << >>
      BY <3>2, <3>7 DEF TextRead
    <3>10. /\ ~ toolong => article = ParseArticle(Append(msg, LF))
           /\ Append(msg, LF) \in Seq(Byte)
      <4>1. LF \in Byte
        BY DEF Byte
      <4> QED  BY <1>4, <3>9, <4>1, ArticleEnds, AppendProperties
    <3>11. ~ toolong => article = [headers |-> Before \o Meant(text).headers,
                                  body    |-> Meant(text).body]
      <4> HIDE DEF text, article
      <4> QED  BY <1>4, <1>5, <3>8, <3>10, ArticleMeant
    <3>12. count.linecount = LinesOf(text) - 1
      <4>1. j - 1 \in 0..Len(text) /\ j \in 1..Len(text)
        BY <1>5
      <4>2. /\ Lines(text) \in [0..Len(text) -> Nat]
            /\ Lines(text)[j] = Lines(text)[j - 1] + 1 + Len(l) \div Period
            /\ LinesOf(text) = Lines(text)[j]
        BY <1>4, <3>6, LinesStates
      <4>3. count.linecount = Lines(text)[j - 1] + Len(l) \div Period
        <5> HIDE DEF text, l
        <5>1. Tally(TextRead(<< >>, text, j - 1, l)) =
                [linechars |-> Len(l) % Period,
                 linecount |-> Lines(text)[j - 1] + Len(l) \div Period]
          BY <1>4, <3>2, <4>1, TallyText
        <5> QED  BY <3>7, <5>1
      <4>4. Len(l) \div Period \in Nat
        <5> HIDE DEF l
        <5> QED  BY <3>2, Periods
      <4>5. Lines(text)[j - 1] \in Nat
        BY <4>1, <4>2
      <4> HIDE DEF text, l
      <4> QED  BY <4>2, <4>3, <4>4, <4>5
    <3> QED  BY <3>11, <3>12 DEF MailWhole
  <2>3. ASSUME NEW j \in 1..Len(text), MailLineEnds(eol, cut, text, j)
        PROVE  FALSE
    <3>1. <<LF>> \o MailToCome(eol, cut, j) = << >>
      BY <1>1, <2>3 DEF MailLineEnds
    <3>2. j \in 0..Len(text) /\ LF \in Byte
      BY <1>5 DEF Byte
    <3> QED  BY <1>6, <3>1, <3>2, TakeByte
  <2> QED  BY <1>3, <2>1, <2>2, <2>3 DEF MailPlace
<1>9. heard = << >>
  BY <1>2 DEF AtMail
<1> QED  BY <1>4, <1>8, <1>9

LEMMA MailPostFramed ==
  ASSUME FramedInv, MailPost, ~ failed
  PROVE  FramedInv'
<1> DEFINE text == sent[1].text
           article == ParseArticle(msg)
<1>1. Typed /\ Framed /\ Typed' /\ at = "mail" /\ sent' = sent /\ failed' = failed
  BY MailPostTyped DEF FramedInv, MailPost
<1>4. Len(sent) = 1 /\ sent[1].command = POST /\ text \in Seq(Line)
  BY MailTaken
<1>8. ~ toolong => article = [headers |-> Before \o Meant(text).headers, body |-> Meant(text).body]
  BY MailTaken DEF MailWhole
<1>9. PICK code : /\ MailHeard(article, code) /\ (toolong => code = "too long")
                  /\ at' \in {"gone", "cc"}
  <2> HIDE DEF article
  <2>1. CASE toolong /\ MailRefused(article, "too long")
    BY <2>1 DEF MailRefused
  <2>2. CASE ~ toolong /\ \E code : MailHeard(article, code) /\ at' \in {"gone", "cc"}
    BY <2>2
  <2> QED  BY <2>1, <2>2 DEF MailPost, MailRefused, MailStored, article
<1>10. Framed'
  <2>1. /\ heard' = <<[command |-> POST,
                       headers |-> SubSeq(article.headers, 3, Len(article.headers)),
                       body    |-> article.body]>>
        /\ answer' = <<code>>
    BY <1>9 DEF MailHeard
  <2>2. ~ toolong => /\ SubSeq(article.headers, 3, Len(article.headers)) = Meant(text).headers
                     /\ article.body = Meant(text).body
    <3> HIDE DEF text, article
    <3>1. SUFFICES ASSUME ~ toolong
                   PROVE  /\ SubSeq(article.headers, 3, Len(article.headers)) = Meant(text).headers
                          /\ article.body = Meant(text).body
      OBVIOUS
    <3>2. article.headers = Before \o Meant(text).headers /\ article.body = Meant(text).body
      BY <1>8, <3>1
    <3> QED  BY <1>4, <3>2, BeforeCut
  <2> DEFINE x == [command |-> POST,
                   headers |-> SubSeq(article.headers, 3, Len(article.headers)),
                   body    |-> article.body]
  <2>3. x.command = POST /\ (~ toolong => /\ x.headers = Meant(text).headers
                                          /\ x.body = Meant(text).body)
    BY <2>2
  <2>4. heard' = <<x>>
    BY <2>1
  <2> HIDE DEF x, article
  <2>5. Len(heard') = 1 /\ heard'[1] = x /\ answer'[1] = code
    BY <2>1, <2>4
  <2>6. Len(heard') <= Len(sent')
    BY <1>1, <1>4, <2>5
  <2>7. ASSUME NEW i \in 1..Len(heard')
        PROVE  /\ heard'[i].command = sent'[i].command
               /\ (sent'[i].command = POST /\ answer'[i] # "too long") =>
                    /\ heard'[i].headers = Meant(sent'[i].text).headers
                    /\ heard'[i].body = Meant(sent'[i].text).body
    <3>1. i = 1
      BY <2>5
    <3>2. toolong \/ ~ toolong
      OBVIOUS
    <3> QED  BY <1>1, <1>4, <1>9, <2>3, <2>5, <3>1, <3>2
  <2> QED  BY <2>6, <2>7 DEF Framed
<1> QED  BY <1>1, <1>9, <1>10 DEF FramedInv, Position

-----------------------------------------------------------------------------

LEMMA InitFramed == Init => FramedInv
<1> SUFFICES ASSUME Init PROVE FramedInv
  OBVIOUS
<1>1. Typed
  BY InitTyped
<1>2. /\ link = "open" /\ line = << >> /\ skip = FALSE /\ heard = << >> /\ ~ failed
      /\ toolong = FALSE
  BY DEF Init
<1>3. PICK eol \in Eol : \/ /\ sent \in Talks
                            /\ rest = TalkWire(sent, eol)
                            /\ at = "command"
                         \/ \E text \in Mails :
                              /\ sent = <<[command |-> POST, text |-> text]>>
                              /\ rest \in MailWires(text, eol)
                              /\ at = "mail"
                              /\ msg = <<Newsgroups, CR, LF, Gateway, CR, LF>>
  BY DEF Init, Eol
<1>4. sent \in Seq(Item) /\ Len(sent) \in Nat
  BY <1>1, LenProperties DEF Typed
<1> HIDE DEF Init
<1>5. Framed
  BY <1>2, <1>4 DEF Framed
<1>6. CASE sent \in Talks /\ rest = TalkWire(sent, eol) /\ at = "command"
  <2>1. rest = TalkToCome(eol, 0)
    <3> DEFINE w == [i \in 1..Len(sent) |-> ItemWire(sent[i], eol)]
    <3>1. TalkWire(sent, eol) = Rest(w, 0)
      BY <1>4, TalkWireRest
    <3> QED  BY <1>6, <3>1 DEF TalkToCome, TalkWires
  <2>2. AtCommand(eol)
    <3>1. (Len(heard) + 1) - 1 = 0
      BY <1>2
    <3> QED  BY <1>2, <2>1, <3>1 DEF AtCommand, ToCome
  <2> QED  BY <1>1, <1>5, <1>6, <2>2 DEF FramedInv, Position
<1>7. ASSUME NEW text \in Mails,
             sent = <<[command |-> POST, text |-> text]>>, rest \in MailWires(text, eol),
             at = "mail", msg = <<Newsgroups, CR, LF, Gateway, CR, LF>>
      PROVE  FramedInv
  <2>1. /\ text \in Seq(Line) /\ Len(sent) = 1 /\ sent[1].command = POST /\ sent[1].text = text
        /\ Len(text) \in Nat
    BY <1>7, MailItem, LenProperties
  <2>2. PICK cut \in BOOLEAN : /\ cut => text # << >> /\ text[Len(text)] # << >>
                               /\ rest = MailToCome(eol, cut, 0)
    BY <1>7, <2>1, MailBegins
  <2>3. MailRead(0, << >>)
    <3>1. count = NoLines
      BY DEF Init
    <3>2. TextRead(<< >>, text, 0, << >>) = NewParser
      BY <2>1, NothingRead
    <3> QED  BY <1>7, <2>1, <3>1, <3>2, BeforeMail, TallyNew DEF MailRead
  <2>4. MailPlace(eol, cut, text)
    <3>1. 0 \in 0..Len(text)
      BY <2>1
    <3> QED  BY <2>2, <2>3, <3>1 DEF MailPlace, MailBegun
  <2>5. AtMail(eol)
    BY <1>2, <2>1, <2>2, <2>4 DEF AtMail
  <2> QED  BY <1>1, <1>5, <1>7, <2>5 DEF FramedInv, Position
<1> QED  BY <1>3, <1>6, <1>7

\* After a body that could not be read, nothing is said of what is read.
LEMMA FailedFramed ==
  ASSUME FramedInv, [Next]_vars, failed \/ failed'
  PROVE  FramedInv'
<1>1. Typed' /\ Typed
  BY NextTyped DEF FramedInv
<1>2. failed'
  <2>1. CASE UNCHANGED vars
    BY <2>1 DEF vars, history
  <2>2. CASE Pause \/ Resume \/ HangUp \/ Gone
    BY <2>2 DEF Pause, Resume, HangUp, Gone, vars, history
  <2>3. CASE ReadLine \/ ReadLineFails \/ Blank \/ SelectGroup \/ Unknown \/ BeginPost
    BY <2>3 DEF ReadLine, ReadLineFails, Blank, SelectGroup, Unknown, BeginPost, history
  <2>4. CASE BodyStep \/ Post
    BY <2>4 DEF BodyStep, ReadBody, ReadBodyTooBig, Expire, ReadBodyEof, BodyFails, Post, history
  <2>5. CASE MailGateway
    BY <2>5 DEF MailGateway, ReadMail, ReadMailFails, MailPost, CcPostToMail, history
  <2> QED  BY <2>1, <2>2, <2>3, <2>4, <2>5 DEF Next, Server
<1>3. sent' = sent
  <2>1. CASE UNCHANGED vars
    BY <2>1 DEF vars
  <2>2. CASE Pause \/ Resume \/ HangUp \/ Gone
    BY <2>2 DEF Pause, Resume, HangUp, Gone, vars
  <2>3. CASE ReadLine \/ ReadLineFails \/ Blank \/ SelectGroup \/ Unknown \/ BeginPost
    BY <2>3 DEF ReadLine, ReadLineFails, Blank, SelectGroup, Unknown, BeginPost
  <2>4. CASE BodyStep \/ Post
    BY <2>4 DEF BodyStep, ReadBody, ReadBodyTooBig, Expire, ReadBodyEof, BodyFails, Post
  <2>5. CASE MailGateway
    BY <2>5 DEF MailGateway, ReadMail, ReadMailFails, MailPost, CcPostToMail
  <2> QED  BY <2>1, <2>2, <2>3, <2>4, <2>5 DEF Next, Server
<1>4. at' \in {"command", "dispatch", "body", "post"}
        => at \in {"command", "dispatch", "body", "post"}
  <2>1. CASE UNCHANGED vars
    BY <2>1 DEF vars
  <2>2. CASE Pause \/ Resume \/ HangUp \/ Gone
    BY <2>2 DEF Pause, Resume, HangUp, Gone, vars
  <2>3. CASE ReadLine \/ ReadLineFails \/ Blank \/ SelectGroup \/ Unknown \/ BeginPost
    BY <2>3 DEF ReadLine, ReadLineFails, Blank, SelectGroup, Unknown, BeginPost
  <2>4. CASE BodyStep \/ Post
    BY <2>4 DEF BodyStep, ReadBody, ReadBodyTooBig, Expire, ReadBodyEof, Post
  <2>5. CASE MailGateway
    <3>1. at' \in {"mail", "gone", "cc"}
      BY <2>5 DEF MailGateway, ReadMail, ReadMailFails, MailPost, MailRefused, CcPostToMail
    <3> QED  BY <3>1
  <2> QED  BY <2>1, <2>2, <2>3, <2>4, <2>5 DEF Next, Server
<1> QED  BY <1>1, <1>2, <1>3, <1>4 DEF FramedInv, Framed

LEMMA OtherFramed ==
  ASSUME FramedInv, ~ failed,
         Pause \/ Resume \/ HangUp \/ ReadLineFails \/ ReadMailFails \/ CcPostToMail
           \/ UNCHANGED vars
  PROVE  FramedInv'
<1>1. Typed' /\ Typed /\ Framed
  BY DispatchTyped, OtherTyped DEF FramedInv
<1>2. UNCHANGED <<sent, heard, answer, failed>>
  BY DEF Pause, Resume, HangUp, ReadLineFails, ReadMailFails, CcPostToMail, vars, history
<1>3. Framed'
  BY <1>1, <1>2 DEF Framed
<1>4. PICK eol \in Eol : Position(eol)
  BY DEF FramedInv
<1>5. CASE UNCHANGED vars
  <2>1. Position(eol)'
    BY <1>4, <1>5, SamePlace
  <2>2. at' = at
    BY <1>5 DEF vars
  <2> QED  BY <1>1, <1>2, <1>3, <2>1, <2>2 DEF FramedInv
<1>6. CASE Pause \/ Resume \/ HangUp
  <2>1. UNCHANGED <<sent, at, reader, selected, gateway, history>>
    BY <1>6 DEF Pause, Resume, HangUp
  <2>2. at # "mail"
    <3>1. link = "silent" => at # "mail"
      BY <1>4 DEF Position, AtMail
    <3> QED  BY <1>6, <3>1 DEF Pause, Resume, HangUp
  <2>3. \/ link # "closed" /\ link' # "closed" /\ rest' = rest
        \/ link' = "closed" /\ rest' = << >>
    BY <1>6 DEF Pause, Resume, HangUp
  <2>4. Position(eol)'
    BY <1>4, <2>1, <2>2, <2>3, LinkPlace
  <2> QED  BY <1>1, <1>2, <1>3, <2>1, <2>4 DEF FramedInv
<1>7. CASE ReadLineFails \/ ReadMailFails \/ CcPostToMail
  <2>1. at' = "gone"
    BY <1>7 DEF ReadLineFails, ReadMailFails, CcPostToMail
  <2> QED  BY <1>1, <1>3, <1>4, <2>1 DEF FramedInv, Position
<1> QED  BY <1>5, <1>6, <1>7

LEMMA NextFramed ==
  ASSUME WellBegun, MaxLine > 1, FramedInv, [Next]_vars
  PROVE  FramedInv'
<1>1. CASE failed \/ failed'
  BY <1>1, FailedFramed
<1>2. CASE ~ failed /\ ~ failed'
  <2>1. CASE Pause \/ Resume \/ HangUp \/ Gone \/ UNCHANGED vars
    BY <1>2, <2>1, OtherFramed DEF Gone
  <2>2. CASE ReadLine
    BY <1>2, <2>2, ReadLineFramed
  <2>3. CASE ReadLineFails \/ ReadMailFails \/ CcPostToMail
    BY <1>2, <2>3, OtherFramed
  <2>4. CASE Blank \/ SelectGroup \/ Unknown \/ BeginPost
    BY <1>2, <2>4, DispatchFramed
  <2>5. CASE BodyStep
    <3>1. CASE ReadBody
      BY <1>2, <3>1, ReadBodyFramed
    <3>2. CASE ReadBodyTooBig \/ Expire \/ ReadBodyEof
      BY <1>2, <3>2 DEF ReadBodyTooBig, Expire, ReadBodyEof, BodyFails
    <3> QED  BY <2>5, <3>1, <3>2 DEF BodyStep
  <2>6. CASE Post
    BY <1>2, <2>6, PostFramed
  <2>7. CASE ReadMail
    BY <1>2, <2>7, ReadMailFramed
  <2>8. CASE MailPost
    BY <1>2, <2>8, MailPostFramed
  <2> QED  BY <2>1, <2>2, <2>3, <2>4, <2>5, <2>6, <2>7, <2>8 DEF Next, Server, MailGateway
<1> QED  BY <1>1, <1>2

\* Whatever the lines of an article look like, and however they come, the program
\* takes for headers, body and commands what the sender meant as such
\* (readLineRaw, readPostBodyRaw, ParseArticle and the mail gateway).
THEOREM TakenAsMeant ==
  ASSUME WellBegun, MaxLine > 1
  PROVE  Spec => []Framed
<1>1. Init => FramedInv
  BY InitFramed
<1>2. FramedInv /\ [Next]_vars => FramedInv'
  BY NextFramed
<1>3. FramedInv => Framed
  BY DEF FramedInv
<1> QED  BY <1>1, <1>2, <1>3, PTL DEF Spec

=============================================================================
