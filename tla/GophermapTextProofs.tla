--------------------------- MODULE GophermapTextProofs ---------------------------
(***************************************************************************)
(* Reading a gophermap, proved for every file, whatever its length and its *)
(* characters: the lines are those of the file, its links are reported,    *)
(* ports are those that are written, and the menu reads back.              *)
(***************************************************************************)
EXTENDS GophermapText, StrUtilProofs

\* The characters of the file.
Chars == {content[i] : i \in DOMAIN content}

\* The callbacks a loop makes for some lines.
Reports(ls, loop) ==
  {Call(n, Tokenize(ls[n], Tab)) :
     n \in {m \in DOMAIN ls : LineKind(Tokenize(ls[m], Tab)) \in loop}}

\* Before the first next().
NothingYet == phase = "feed" => /\ input = "null" /\ ~ atEof
                                /\ pos = 0 /\ lines = <<>>

\* While the loop goes on it has had a line for each newline getline took,
\* and getline stands behind a newline.
LinesCounted ==
  phase = "reading" /\ ~ Eof =>
    /\ Len(lines) = Cardinality(UpTo(Newlines, pos))
    /\ pos = 0 \/ pos \in Newlines

\* When it ends it has had one line more than there are newlines.
AllLinesRead ==
  (phase = "reading" /\ Eof) \/ phase = "done" => Len(lines) = Cardinality(Newlines) + 1

\* The callbacks made are those for the lines read.
Reported == got = Reports(lines, callbacks)

Inv == /\ content \in Contents
       /\ content \in Seq(Chars)
       /\ lines \in Seq(Seq(Chars))
       /\ callbacks \in Loops
       /\ input \in {"null", "open"}
       /\ pos \in 0..Len(content)
       /\ atEof \in BOOLEAN
       /\ phase \in {"feed", "reading", "done", "thrown"}
       /\ Len(lines) <= MaxLines
       /\ menu # <<>> => MakesMenu
       /\ NothingYet
       /\ LinesCounted
       /\ AllLinesRead
       /\ EndedLinesIntact
       /\ Reported

-------------------------------------------------------------------------------
(* A line of a file.                                                       *)

\* getline takes a line up to the next newline, which is the next in number,
\* or what is left.
LEMMA GetlineTakes ==
  ASSUME NEW T, content \in Seq(T), pos \in 0..Len(content),
         pos = 0 \/ pos \in Newlines, Rest # <<>>
  PROVE  /\ Chopped(Getline) \in Seq(T)
         /\ pos + Len(Getline) \in 0..Len(content)
         /\ Occurrences(Rest, NewLine) = {} =>
              Cardinality(UpTo(Newlines, pos)) = Cardinality(Newlines)
         /\ Occurrences(Rest, NewLine) # {} =>
              LET next == pos + Len(Getline)
                  n == Cardinality(UpTo(Newlines, pos)) + 1
              IN /\ next \in Newlines
                 /\ Cardinality(UpTo(Newlines, next)) = n
                 /\ Chopped(Getline) = Written(n)
<1>1. /\ Newlines \in SUBSET Nat /\ IsFiniteSet(Newlines)
      /\ Newlines \in SUBSET (1..Len(content)) /\ Cardinality(Newlines) \in Nat
  BY OccurrencesType DEF Newlines
<1>2. /\ Len(content) \in Nat /\ Rest \in Seq(T) /\ Len(Rest) = Len(content) - pos
      /\ Len(Rest) \in Nat \ {0}
      /\ \A i \in 1..Len(Rest) : Rest[i] = content[pos + i]
  BY DEF Rest
<1>3. \A j : j \in Newlines <=> j \in 1..Len(content) /\ content[j] = NewLine
  BY DEF Newlines, Occurrences
<1>4. CASE Occurrences(Rest, NewLine) = {}
  <2>1. Getline = Rest
    BY <1>4 DEF Getline
  <2>2. ASSUME NEW j \in Newlines PROVE j <= pos
    <3>1. j \in 1..Len(content) /\ content[j] = NewLine
      BY <1>3
    <3>. SUFFICES ASSUME j > pos PROVE FALSE
      BY <3>1
    <3>2. j - pos \in 1..Len(Rest) /\ pos + (j - pos) = j
      BY <1>2, <3>1
    <3>3. Rest[j - pos] = NewLine
      BY <1>2, <3>1, <3>2
    <3>. QED
      BY <1>2, <1>4, <3>2, <3>3 DEF Occurrences
  <2>3. UpTo(Newlines, pos) = Newlines
    <3>1. \A j : j \in UpTo(Newlines, pos) <=> j \in Newlines
      BY <2>2, UpToMember, Zenon
    <3>. QED
      BY <3>1
  <2>4. Chopped(Getline) \in Seq(T) /\ pos + Len(Getline) \in 0..Len(content)
    BY <1>2, <2>1 DEF Chopped
  <2>. QED
    BY <1>4, <2>3, <2>4
<1>5. CASE Occurrences(Rest, NewLine) # {}
  <2>1. 1 \in 1..Len(Rest) /\ \E j \in 1..Len(Rest) : Rest[j] = NewLine
    BY <1>2, <1>5 DEF Occurrences
  <2>2. PICK m : m = Memchr(Rest, NewLine)[1]
    OBVIOUS
  <2>3. m \in 1..Len(Rest) /\ Rest[m] = NewLine /\ \A k \in 1..(m - 1) : Rest[k] # NewLine
    BY <1>2, <2>1, <2>2, MemchrFinds
  <2>4. Getline = SubSeq(Rest, 1, m) /\ Len(Getline) = m
    BY <1>2, <1>5, <2>2, <2>3 DEF Getline
  <2>5. pos + m \in Newlines /\ pos < pos + m
    BY <1>2, <1>3, <2>3
  <2>6. ASSUME NEW j \in Newlines, pos < j PROVE pos + m <= j
    <3>. SUFFICES ASSUME j < pos + m PROVE FALSE
      BY <1>1, <2>3
    <3>1. j \in 1..Len(content) /\ content[j] = NewLine
      BY <1>3
    <3>2. j - pos \in 1..(m - 1) /\ j - pos \in 1..Len(Rest) /\ pos + (j - pos) = j
      BY <2>3, <2>6, <3>1
    <3>. QED
      BY <1>2, <2>3, <3>1, <3>2
  <2>7. Cardinality(UpTo(Newlines, pos + m)) = Cardinality(UpTo(Newlines, pos)) + 1
    <3>1. pos \in Int
      BY <1>2
    <3>. QED
      BY <1>1, <2>5, <2>6, <3>1, NextCounts
  <2>8. PICK k \in Nat : k = Cardinality(UpTo(Newlines, pos))
    BY <1>1, UpToFinite
  <2>9. Nth(Newlines, k + 1) = pos + m
    BY <1>1, <2>5, <2>7, <2>8, NthIs
  <2>10. pos = IF k + 1 = 1 THEN 0 ELSE Nth(Newlines, (k + 1) - 1)
    <3>1. CASE pos = 0
      <4>1. \A j \in Newlines : ~ (j <= 0)
        BY <1>1
      <4>2. UpTo(Newlines, 0) = {}
        BY <4>1, UpToMember
      <4>3. k = 0
        BY <3>1, <4>2, <2>8, FS_EmptySet
      <4>. QED
        BY <3>1, <4>3
    <3>2. CASE pos \in Newlines
      <4>1. Nth(Newlines, k) = pos
        BY <1>1, <2>8, <3>2, NthIs
      <4>2. pos \in UpTo(Newlines, pos)
        BY <3>2, UpToMember
      <4>3. k # 0
        BY <1>1, <2>8, <4>2, UpToFinite, FS_EmptySet
      <4>. QED
        BY <2>8, <4>1, <4>3
    <3>. QED
      BY <3>1, <3>2
  <2>11. ~ (k + 1 > Cardinality(Newlines))
    BY <1>1, <2>5, <2>7, <2>8, UpToFinite
  <2>12. Written(k + 1) = SubSeq(content, IF k + 1 = 1 THEN 1 ELSE Nth(Newlines, (k + 1) - 1) + 1,
                                 pos + m - 1)
    <3>1. \A n : Written(n) = SubSeq(content,
                    IF n = 1 THEN 1 ELSE Nth(Newlines, n - 1) + 1,
                    IF n > Cardinality(Newlines) THEN Len(content) ELSE Nth(Newlines, n) - 1)
      BY Zenon DEF Written, Part, Newlines
    <3>2. PICK n : n = k + 1
      OBVIOUS
    <3>3. PICK a, b : /\ a = IF n = 1 THEN 1 ELSE Nth(Newlines, n - 1) + 1
                      /\ b = IF n > Cardinality(Newlines) THEN Len(content)
                            ELSE Nth(Newlines, n) - 1
      OBVIOUS
    <3>4. Written(n) = SubSeq(content, a, b)
      BY <3>1, <3>3, Zenon
    <3>5. b = pos + m - 1
      <4>1. pos \in Int /\ m \in Int /\ n \in Int /\ Cardinality(Newlines) \in Int
        BY <1>1, <1>2, <2>3, <3>2
      <4>2. Nth(Newlines, n) = pos + m /\ ~ (n > Cardinality(Newlines))
        BY <2>9, <2>11, <3>2
      <4>. QED
        BY <3>3, <4>1, <4>2
    <3>. QED
      BY <3>2, <3>3, <3>4, <3>5
  <2>13. Written(k + 1) = SubSeq(content, pos + 1, pos + m - 1)
    BY <2>10, <2>12
  <2>14. Chopped(Getline) = SubSeq(content, pos + 1, pos + m - 1)
    BY <1>2, <2>3, <2>4 DEF Chopped, Rest
  <2>15. Chopped(Getline) \in Seq(T) /\ pos + Len(Getline) \in 0..Len(content)
    BY <1>2, <2>3, <2>4 DEF Chopped
  <2>. QED
    BY <1>5, <2>4, <2>5, <2>7, <2>8, <2>13, <2>14, <2>15
<1>. QED
  BY <1>4, <1>5

-------------------------------------------------------------------------------
(* A turn of the loop.                                                     *)

\* What parse_line can make of a line.
LEMMA LineKinds ==
  ASSUME NEW f
  PROVE  LineKind(f) \in {"text", "url", "badport", "local", "remote"}
BY DEF LineKind, LineKindOf

\* The loop of the load passes the callback for local links, the other one all
\* of them.
LEMMA LoopsPass ==
  ASSUME callbacks \in Loops
  PROVE  /\ callbacks \subseteq Kinds /\ "badport" \notin callbacks /\ "local" \in callbacks
         /\ MakesMenu => callbacks = Kinds
<1>1. callbacks = {"local"} \/ callbacks = {"local", "remote", "url", "text"}
  BY LoopsAssumption
<1>2. CASE callbacks = {"local"}
  BY <1>2 DEF Kinds, MakesMenu
<1>3. CASE callbacks = {"local", "remote", "url", "text"}
  <2>1. callbacks = Kinds
    BY <1>3 DEF Kinds
  <2>. QED
    BY <1>3, <2>1 DEF Kinds
<1>. QED
  BY <1>1, <1>2, <1>3

\* One more line makes at most one more callback.
LEMMA ReportsAppend ==
  ASSUME NEW T, NEW ls \in Seq(T), NEW line \in T, NEW loop
  PROVE  Reports(Append(ls, line), loop) =
           Reports(ls, loop) \cup
             IF LineKind(Tokenize(line, Tab)) \in loop
             THEN {Call(Len(ls) + 1, Tokenize(line, Tab))} ELSE {}
<1>. DEFINE more == Append(ls, line)
            N == Len(ls) + 1
<1>1. /\ Len(ls) \in Nat /\ DOMAIN ls = 1..Len(ls) /\ DOMAIN more = 1..N
      /\ \A n \in DOMAIN ls : more[n] = ls[n]
      /\ more[N] = line
  OBVIOUS
<1>2. \A n : n \in DOMAIN more <=> n \in DOMAIN ls \/ n = N
  BY <1>1
<1>. HIDE DEF more, N
<1>3. \A c : c \in Reports(more, loop) <=>
               \E n \in DOMAIN more : /\ LineKind(Tokenize(more[n], Tab)) \in loop
                                      /\ c = Call(n, Tokenize(more[n], Tab))
  BY Zenon DEF Reports
<1>4. \A c : c \in Reports(ls, loop) <=>
               \E n \in DOMAIN ls : /\ LineKind(Tokenize(ls[n], Tab)) \in loop
                                    /\ c = Call(n, Tokenize(ls[n], Tab))
  BY Zenon DEF Reports
<1>5. \A c : c \in Reports(more, loop) <=>
               \/ c \in Reports(ls, loop)
               \/ /\ LineKind(Tokenize(line, Tab)) \in loop
                  /\ c = Call(N, Tokenize(line, Tab))
  <2>1. \A c : c \in Reports(more, loop) <=>
                 \/ \E n \in DOMAIN ls : /\ LineKind(Tokenize(more[n], Tab)) \in loop
                                          /\ c = Call(n, Tokenize(more[n], Tab))
                 \/ /\ LineKind(Tokenize(more[N], Tab)) \in loop
                    /\ c = Call(N, Tokenize(more[N], Tab))
    BY <1>2, <1>3, Zenon
  <2>. QED
    BY <1>1, <1>4, <2>1, Zenon
<1>. QED
  BY <1>5 DEF more, N

\* What parse_line leaves behind, whatever the line.
LEMMA ParseKeeps ==
  ASSUME Inv, phase = "reading", NEW line \in Seq(Chars), Parse(line),
         UNCHANGED <<content, callbacks>>
  PROVE  /\ lines' = Append(lines, line) /\ lines' \in Seq(Seq(Chars))
         /\ Reported'
         /\ phase' \in {"reading", "thrown"}
         /\ menu' # <<>> => MakesMenu'
<1>. DEFINE f == Tokenize(line, Tab)
<1>1. /\ lines \in Seq(Seq(Chars)) /\ lines' = Append(lines, line)
      /\ got = Reports(lines, callbacks)
      /\ menu # <<>> => MakesMenu
      /\ callbacks \in Loops
  BY DEF Inv, Parse, Reported
<1>2. lines' \in Seq(Seq(Chars))
  BY <1>1
<1>3. Reports(lines', callbacks) =
        Reports(lines, callbacks) \cup
          IF LineKind(f) \in callbacks THEN {Call(Len(lines) + 1, f)} ELSE {}
  BY <1>1, ReportsAppend
<1>4. "badport" \notin callbacks
  BY <1>1, LoopsPass
<1>5. MakesMenu' <=> MakesMenu
  BY DEF MakesMenu
<1>6. CASE LineKind(f) = "badport"
  <2>1. phase' = "thrown" /\ menu' = menu /\ got' = got
    BY <1>6 DEF Parse
  <2>2. Reports(lines', callbacks) = got
    <3>. HIDE DEF f
    <3>. QED
      BY <1>1, <1>3, <1>4, <1>6
  <2>. QED
    BY <1>1, <1>2, <1>5, <2>1, <2>2 DEF Reported
<1>7. CASE LineKind(f) # "badport"
  <2>1. /\ menu' = IF MakesMenu THEN menu \o ItemLine(line, f) ELSE menu
        /\ got' = IF Passed(LineKind(f))
                  THEN got \cup {Call(Len(lines) + 1, f)} ELSE got
        /\ phase' = phase
    BY <1>7, Zenon DEF Parse
  <2>2. got' = Reports(lines', callbacks)
    <3>. HIDE DEF f
    <3>. QED
      BY <1>1, <1>3, <2>1 DEF Passed
  <2>3. menu' # <<>> => MakesMenu
    BY <1>1, <2>1, Zenon
  <2>. QED
    BY <1>1, <1>2, <1>5, <2>1, <2>2, <2>3 DEF Reported
<1>. QED
  BY <1>6, <1>7

-------------------------------------------------------------------------------
(* The steps.                                                              *)

\* The newlines of the file, and those getline took.
LEMMA NewlinesType ==
  ASSUME Inv
  PROVE  /\ Len(content) \in Nat
         /\ Newlines \in SUBSET Nat /\ IsFiniteSet(Newlines)
         /\ Newlines \in SUBSET (1..Len(content))
         /\ Cardinality(Newlines) \in Nat
         /\ Cardinality(Newlines) + 2 <= MaxLines /\ MaxLines \in Nat
         /\ Cardinality(UpTo(Newlines, pos)) \in Nat
         /\ Cardinality(UpTo(Newlines, pos)) <= Cardinality(Newlines)
<1>1. content \in Contents /\ content \in Seq(Chars)
  BY DEF Inv
<1>2. PICK T : content \in Seq(T)
  BY <1>1
<1>3. /\ Newlines \in SUBSET Nat /\ IsFiniteSet(Newlines)
      /\ Newlines \in SUBSET (1..Len(content)) /\ Cardinality(Newlines) \in Nat
  BY <1>2, OccurrencesType DEF Newlines
<1>4. Cardinality(Newlines) + 2 <= MaxLines /\ MaxLines \in Nat
  BY <1>1, ContentsAssumption DEF Newlines
<1>. QED
  BY <1>2, <1>3, <1>4, UpToFinite

LEMMA InvInit == Init => Inv
<1>. SUFFICES ASSUME Init PROVE Inv
  OBVIOUS
<1>1. /\ content \in Contents /\ callbacks \in Loops /\ input = "null" /\ pos = 0
      /\ atEof = FALSE /\ phase = "feed" /\ lines = <<>> /\ menu = <<>> /\ got = {}
  BY DEF Init
<1>2. content \in Seq(Chars) /\ Len(content) \in Nat /\ MaxLines \in Nat
  BY <1>1, ContentsAssumption DEF Chars
<1>3. NothingYet /\ LinesCounted /\ AllLinesRead /\ EndedLinesIntact
  BY <1>1 DEF NothingYet, LinesCounted, AllLinesRead, EndedLinesIntact
<1>4. Reported
  <2>1. \A c : c \notin Reports(lines, callbacks)
    BY <1>1 DEF Reports
  <2>. QED
    BY <1>1, <2>1 DEF Reported
<1>5. pos \in 0..Len(content) /\ lines \in Seq(Seq(Chars)) /\ Len(lines) <= MaxLines
  BY <1>1, <1>2
<1>. QED
  BY <1>1, <1>2, <1>3, <1>4, <1>5 DEF Inv

LEMMA InvFeed == Inv /\ Feed => Inv'
<1>. SUFFICES ASSUME Inv, Feed PROVE Inv'
  OBVIOUS
<1>1. /\ UNCHANGED <<content, callbacks, pos, atEof, lines, menu, got>>
      /\ pos = 0 /\ lines = <<>> /\ ~ atEof
      /\ \/ phase' = "reading" /\ input' = "open"
         \/ phase' = "thrown" /\ input' = input
  BY DEF Feed, Inv, NothingYet
<1>2. Newlines' = Newlines /\ Chars' = Chars
  BY <1>1 DEF Newlines, Chars
<1>3. NothingYet' /\ AllLinesRead'
  BY <1>1 DEF NothingYet, AllLinesRead, Eof
<1>4. LinesCounted'
  <2>1. Cardinality(UpTo(Newlines, 0)) = 0
    <3>1. \A j \in Newlines : ~ (j <= 0)
      BY NewlinesType
    <3>2. UpTo(Newlines, 0) = {}
      BY <3>1, UpToMember
    <3>. QED
      BY <3>2, FS_EmptySet
  <2>. QED
    BY <1>1, <1>2, <2>1 DEF LinesCounted
<1>5. EndedLinesIntact'
  BY <1>1 DEF EndedLinesIntact
<1>6. Reported' /\ (MakesMenu' <=> MakesMenu)
  BY <1>1 DEF Inv, Reported, MakesMenu
<1>. QED
  BY <1>1, <1>2, <1>3, <1>4, <1>5, <1>6 DEF Inv

\* The line next() found is one of the file.
LEMMA InvNextLine == Inv /\ NextLine => Inv'
<1>. SUFFICES ASSUME Inv, NextLine PROVE Inv'
  OBVIOUS
<1>. DEFINE line == Chopped(Getline)
            N == Len(lines) + 1
            last == Occurrences(Rest, NewLine) = {}
<1>1. /\ phase = "reading" /\ ~ Eof /\ Rest # <<>> /\ input = "open" /\ input' = input
      /\ pos' = pos + Len(Getline) /\ atEof' = last /\ Parse(line)
      /\ UNCHANGED <<content, callbacks>>
  BY DEF NextLine
<1>2. /\ Len(lines) = Cardinality(UpTo(Newlines, pos))
      /\ pos = 0 \/ pos \in Newlines
      /\ content \in Seq(Chars) /\ pos \in 0..Len(content)
  BY <1>1 DEF Inv, LinesCounted
<1>3. /\ line \in Seq(Chars) /\ pos' \in 0..Len(content)
      /\ last => Len(lines) = Cardinality(Newlines)
      /\ ~ last => /\ pos' \in Newlines /\ Cardinality(UpTo(Newlines, pos')) = N
                   /\ line = Written(N)
  <2>1. PICK T : T = Chars
    OBVIOUS
  <2>. QED
    BY <1>1, <1>2, <2>1, GetlineTakes
<1>. HIDE DEF line
<1>4. /\ lines' = Append(lines, line) /\ lines' \in Seq(Seq(Chars))
      /\ Reported'
      /\ phase' \in {"reading", "thrown"}
      /\ menu' # <<>> => MakesMenu'
  BY <1>1, <1>3, ParseKeeps
<1>5. /\ Newlines' = Newlines /\ Chars' = Chars
      /\ \A n : Written(n)' = Written(n)
  BY <1>1 DEF Newlines, Chars, Written
<1>6. lines \in Seq(Seq(Chars)) /\ EndedLinesIntact
  BY DEF Inv
<1>7. /\ Len(lines) \in Nat /\ Len(lines') = N /\ DOMAIN lines' = 1..N
      /\ \A n \in 1..N : n # N => n \in DOMAIN lines /\ lines'[n] = lines[n]
      /\ lines'[N] = line
  BY <1>4, <1>6
<1>8. N <= MaxLines
  BY <1>2, NewlinesType
<1>9. EndedLinesIntact'
  <2>. SUFFICES ASSUME NEW n \in 1..N, n <= Cardinality(Newlines)
                PROVE  lines'[n] = Written(n)
    BY <1>5, <1>7 DEF EndedLinesIntact
  <2>1. CASE n = N
    <3>1. ~ last
      BY <1>3, <1>7, <2>1, NewlinesType
    <3>. QED
      BY <1>3, <1>7, <2>1, <3>1
  <2>2. CASE n # N
    BY <1>6, <1>7, <2>2 DEF EndedLinesIntact
  <2>. QED
    BY <2>1, <2>2
<1>10. LinesCounted'
  <2>. HIDE DEF last
  <2>. QED
    BY <1>1, <1>3, <1>5, <1>7 DEF LinesCounted, Eof
<1>11. AllLinesRead'
  <2>. HIDE DEF last
  <2>. QED
    BY <1>1, <1>3, <1>4, <1>5, <1>7 DEF AllLinesRead, Eof
<1>12. NothingYet'
  BY <1>4 DEF NothingYet
<1>. QED
  BY <1>1, <1>3, <1>4, <1>5, <1>7, <1>8, <1>9, <1>10, <1>11, <1>12 DEF Inv

\* The line next() makes up is none of those that end.
LEMMA InvNextNothing == Inv /\ NextNothing => Inv'
<1>. SUFFICES ASSUME Inv, NextNothing PROVE Inv'
  OBVIOUS
<1>. DEFINE N == Len(lines) + 1
<1>1. /\ phase = "reading" /\ ~ Eof /\ Rest = <<>> /\ input' = "null"
      /\ Parse(<<>>) /\ UNCHANGED <<content, callbacks, pos, atEof>>
      /\ Len(lines) < MaxLines
  BY DEF NextNothing, Inv, Eof
<1>2. /\ Len(lines) = Cardinality(UpTo(Newlines, pos))
      /\ content \in Seq(Chars) /\ pos \in 0..Len(content)
      /\ lines \in Seq(Seq(Chars)) /\ EndedLinesIntact
  BY <1>1 DEF Inv, LinesCounted
<1>3. Len(lines) = Cardinality(Newlines)
  <2>1. pos = Len(content)
    <3>1. PICK T : content \in Seq(T)
      BY <1>2
    <3>2. Len(content) \in Nat /\ Len(Rest) = 0
      BY <1>1, <3>1
    <3>3. pos < Len(content) => Len(Rest) = Len(content) - pos
      BY <1>2, <3>1, <3>2 DEF Rest
    <3>. QED
      BY <1>2, <3>2, <3>3
  <2>2. \A j : j \in UpTo(Newlines, pos) <=> j \in Newlines
    BY <2>1, NewlinesType, UpToMember
  <2>3. UpTo(Newlines, pos) = Newlines
    BY <2>2
  <2>. QED
    BY <1>2, <2>3
<1>4. /\ lines' = Append(lines, <<>>) /\ lines' \in Seq(Seq(Chars))
      /\ Reported'
      /\ phase' \in {"reading", "thrown"}
      /\ menu' # <<>> => MakesMenu'
  <2>1. <<>> \in Seq(Chars)
    OBVIOUS
  <2>. QED
    BY <1>1, <2>1, ParseKeeps
<1>5. /\ Newlines' = Newlines /\ Chars' = Chars
      /\ \A n : Written(n)' = Written(n)
  BY <1>1 DEF Newlines, Chars, Written
<1>6. /\ Len(lines) \in Nat /\ Len(lines') = N /\ DOMAIN lines' = 1..N
      /\ \A n \in 1..N : n # N => n \in DOMAIN lines /\ lines'[n] = lines[n]
  BY <1>2, <1>4
<1>7. EndedLinesIntact'
  <2>. SUFFICES ASSUME NEW n \in 1..N, n <= Cardinality(Newlines)
                PROVE  lines'[n] = Written(n)
    BY <1>5, <1>6 DEF EndedLinesIntact
  <2>1. n # N
    BY <1>3, <1>6
  <2>. QED
    BY <1>2, <1>6, <2>1 DEF EndedLinesIntact
<1>8. LinesCounted' /\ AllLinesRead' /\ NothingYet'
  BY <1>1, <1>3, <1>4, <1>5, <1>6 DEF LinesCounted, AllLinesRead, NothingYet, Eof
<1>9. Len(lines') <= MaxLines
  BY <1>3, <1>6, NewlinesType
<1>. QED
  BY <1>1, <1>2, <1>4, <1>5, <1>7, <1>8, <1>9 DEF Inv

LEMMA InvNextThrows == Inv /\ NextThrows => Inv'
<1>. SUFFICES ASSUME Inv, NextThrows PROVE Inv'
  OBVIOUS
<1>1. /\ phase' = "thrown"
      /\ UNCHANGED <<content, callbacks, input, pos, atEof, lines, menu, got>>
  BY DEF NextThrows
<1>2. Chars' = Chars /\ EndedLinesIntact' /\ Reported' /\ (MakesMenu' <=> MakesMenu)
  BY <1>1 DEF Inv, Chars, Newlines, EndedLinesIntact, Written, Reported, MakesMenu
<1>3. NothingYet' /\ LinesCounted' /\ AllLinesRead'
  BY <1>1 DEF NothingYet, LinesCounted, AllLinesRead
<1>. QED
  BY <1>1, <1>2, <1>3 DEF Inv

LEMMA InvLoopEnds == Inv /\ LoopEnds => Inv'
<1>. SUFFICES ASSUME Inv, LoopEnds PROVE Inv'
  OBVIOUS
<1>1. /\ phase = "reading" /\ Eof /\ phase' = "done"
      /\ menu' = IF MakesMenu THEN menu \o LastLine ELSE menu
      /\ UNCHANGED <<content, callbacks, input, pos, atEof, lines, got>>
  BY DEF LoopEnds
<1>2. /\ Chars' = Chars /\ EndedLinesIntact' /\ Reported' /\ (MakesMenu' <=> MakesMenu)
      /\ Newlines' = Newlines
  BY <1>1 DEF Inv, Chars, Newlines, EndedLinesIntact, Written, Reported, MakesMenu
<1>3. menu' # <<>> => MakesMenu
  BY <1>1, Zenon DEF Inv
<1>4. NothingYet' /\ LinesCounted' /\ AllLinesRead'
  BY <1>1, <1>2 DEF Inv, NothingYet, LinesCounted, AllLinesRead
<1>. QED
  BY <1>1, <1>2, <1>3, <1>4 DEF Inv

LEMMA InvStep == Inv /\ [Next]_vars => Inv'
<1>. SUFFICES ASSUME Inv, [Next]_vars PROVE Inv'
  OBVIOUS
<1>1. CASE UNCHANGED vars
  BY <1>1 DEF vars, Inv, Chars, Newlines, NothingYet, LinesCounted, AllLinesRead,
              EndedLinesIntact, Written, Reported, MakesMenu, Eof
<1>. QED
  BY <1>1, InvFeed, InvNextLine, InvNextNothing, InvNextThrows, InvLoopEnds DEF Next

LEMMA InvAlways == Spec => []Inv
BY InvInit, InvStep, PTL DEF Spec

-------------------------------------------------------------------------------
(* What the callbacks carry.                                               *)

\* A number that is taken is the one written, and fits a port.
LEMMA CallPort ==
  ASSUME NEW T, NEW line \in Seq(T), NEW n
  PROVE  LET f == Tokenize(line, Tab) IN
         /\ Call(n, f).port \in 0..MaxPort
         /\ LineKind(f) = "remote" /\ Len(f) = 4 => Call(n, f).port = Stoll(f[4])
<1>. DEFINE f == Tokenize(line, Tab)
<1>1. f \in Seq(Seq(T))
  BY TokenizeParts
<1>. HIDE DEF f
<1>2. MaxPort \in Nat /\ 70 <= MaxPort /\ DigitsWorth
  BY MaxPortAssumption, CharsAssumption DEF DigitsWorth
<1>3. Len(f) = 4 => /\ Strto(f[4], 0, MaxPort) \in 0..MaxPort
                    /\ ~ PortThrows(f[4]) => Strto(f[4], 0, MaxPort) = Stoll(f[4])
  <2>. SUFFICES ASSUME Len(f) = 4
                PROVE  /\ Strto(f[4], 0, MaxPort) \in 0..MaxPort
                       /\ ~ PortThrows(f[4]) => Strto(f[4], 0, MaxPort) = Stoll(f[4])
    OBVIOUS
  <2>1. f[4] \in Seq(T)
    <3>1. PICK U : U = Seq(T)
      OBVIOUS
    <3>2. f \in Seq(U)
      BY <1>1, <3>1
    <3>3. f[4] \in U
      <4>1. \A g \in Seq(U) : \A i \in 1..Len(g) : g[i] \in U
        OBVIOUS
      <4>2. 4 \in 1..Len(f)
        OBVIOUS
      <4>. QED
        BY <3>2, <4>1, <4>2
    <3>. QED
      BY <3>1, <3>3
  <2>. QED
    BY <1>2, <2>1, StrtoInRange DEF PortThrows
<1>4. LineKind(f) = "remote" /\ Len(f) = 4 => ~ PortThrows(f[4])
  BY DEF LineKind, LineKindOf
<1>5. Call(n, f).port = IF LineKind(f) = "remote" THEN PortOf(f) ELSE 0
  BY DEF Call
<1>6. Call(n, f).port \in 0..MaxPort
  BY <1>2, <1>3, <1>5 DEF PortOf
<1>7. LineKind(f) = "remote" /\ Len(f) = 4 => Call(n, f).port = Stoll(f[4])
  BY <1>3, <1>4, <1>5 DEF PortOf
<1>. QED
  BY <1>6, <1>7 DEF f

\* parse_line takes a line for a link to a local resource when it is one, and
\* takes the selector that is written.
LEMMA LocalIsLink ==
  ASSUME NEW T, NEW line \in Seq(T)
  PROVE  /\ LineKind(Tokenize(line, Tab)) = "local" <=> IsLink(line)
         /\ IsLink(line) => Tokenize(line, Tab)[2] = LinkIn(line)
<1>. DEFINE f == Tokenize(line, Tab)
            P == Occurrences(line, Tab)
<1>1. /\ P \in SUBSET (1..Len(line)) /\ P \in SUBSET Nat /\ IsFiniteSet(P)
      /\ Cardinality(P) \in Nat /\ Len(line) \in Nat
  BY OccurrencesType
<1>2. /\ Len(f) = Cardinality(P) + 1
      /\ \A n \in 1..(Cardinality(P) + 1) : f[n] = Part(line, Tab, n)
  BY TokenizeParts
<1>. HIDE DEF f
<1>3. LineKind(f) = "local" <=>
        Len(f) = 2 /\ ~ (Len(f[1]) < 2) /\ ~ Seqs!IsPrefix(URL, f[2])
  BY DEF LineKind, LineKindOf
<1>4. ASSUME NEW t, P = {t}
      PROVE  /\ t \in 1..Len(line) /\ Cardinality(P) = 1
             /\ f[1] = SubSeq(line, 1, t - 1) /\ Len(f[1]) = t - 1
             /\ f[2] = SubSeq(line, 1 + t, Len(line))
             /\ LinkIn(line) = SubSeq(line, 1 + t, Len(line))
  <2>1. t \in 1..Len(line) /\ Cardinality(P) = 1
    BY <1>1, <1>4, FS_Singleton
  <2>2. Nth(P, 1) = t
    <3>1. t <= t
      BY <2>1
    <3>2. \A j : j \in UpTo(P, t) <=> j \in P
      BY <1>4, <3>1, UpToMember, Zenon
    <3>3. UpTo(P, t) = P
      BY <3>2
    <3>4. Nth(P, Cardinality(UpTo(P, t))) = t
      BY <1>1, <1>4, NthIs
    <3>. QED
      BY <2>1, <3>3, <3>4
  <2>3. Part(line, Tab, 1) = SubSeq(line, 1, t - 1)
    BY <2>1, <2>2 DEF Part
  <2>4. Part(line, Tab, 2) = SubSeq(line, t + 1, Len(line))
    BY <2>1, <2>2 DEF Part
  <2>5. f[1] = SubSeq(line, 1, t - 1) /\ f[2] = SubSeq(line, t + 1, Len(line))
    BY <1>2, <2>1, <2>3, <2>4
  <2>6. Len(f[1]) = t - 1 /\ t + 1 = 1 + t
    BY <1>1, <2>1, <2>5
  <2>7. LinkIn(line) = SubSeq(line, 1 + t, Len(line))
    <3>1. (CHOOSE u \in Occurrences(line, Tab) : TRUE) = t
      BY <1>4
    <3>. QED
      BY <3>1 DEF LinkIn
  <2>. QED
    BY <2>1, <2>5, <2>6, <2>7
<1>5. Cardinality(P) = 1 => \E t : P = {t}
  BY <1>1, FS_Singleton
<1>6. LineKind(f) = "local" => IsLink(line)
  <2>. SUFFICES ASSUME LineKind(f) = "local" PROVE IsLink(line)
    OBVIOUS
  <2>1. Cardinality(P) = 1
    BY <1>1, <1>2, <1>3
  <2>2. PICK t : P = {t}
    BY <1>5, <2>1
  <2>3. /\ t \in 1..Len(line) /\ Len(f[1]) = t - 1
        /\ f[2] = LinkIn(line)
    BY <1>4, <2>2
  <2>4. t \in 3..Len(line)
    BY <1>1, <1>3, <2>3
  <2>. QED
    BY <1>3, <2>2, <2>3, <2>4 DEF IsLink
<1>7. IsLink(line) => LineKind(f) = "local" /\ f[2] = LinkIn(line)
  <2>. SUFFICES ASSUME IsLink(line) PROVE LineKind(f) = "local" /\ f[2] = LinkIn(line)
    OBVIOUS
  <2>1. PICK t \in 3..Len(line) : P = {t}
    BY DEF IsLink
  <2>2. /\ t \in 1..Len(line) /\ Cardinality(P) = 1 /\ Len(f[1]) = t - 1
        /\ f[2] = LinkIn(line)
    BY <1>4, <2>1
  <2>3. Len(f) = 2 /\ ~ (Len(f[1]) < 2)
    BY <1>1, <1>2, <2>1, <2>2
  <2>. QED
    BY <1>3, <2>2, <2>3 DEF IsLink
<1>. QED
  BY <1>6, <1>7 DEF f

-------------------------------------------------------------------------------
(* The menu: what it has for each line, and what a client should find.     *)

\* The characters that come into a menu besides those of the gophermap.
Signs == DOMAIN DigitValue \cup {SelfHost[i] : i \in DOMAIN SelfHost}
           \cup {NewLine, Tab, Return, InfoHost, "i", "h", ".", "1"}

\* The characters of a menu.
MenuChars == Chars \cup Signs

\* The name of the host is text without tabs and newlines, which the settings
\* do not check.
PlainHost == /\ SelfHost \in Seq({SelfHost[i] : i \in DOMAIN SelfHost})
             /\ Plain(SelfHost, Tab) /\ Plain(SelfHost, NewLine)

\* The fields a menu has for a line of the gophermap.
Fields(line) ==
  LET f == Tokenize(line, Tab) IN
  CASE LineKind(f) = "text" -> <<<<"i">> \o line, <<>>, <<InfoHost>>, <<"1">>>>
    [] LineKind(f) = "url" -> <<<<"h">> \o Tail(f[1]), f[2], SelfHost, Decimal(SelfPort)>>
    [] LineKind(f) = "local" -> <<f[1], VirtualPath, SelfHost, Decimal(SelfPort)>>
    [] LineKind(f) = "remote" -> <<f[1], f[2], f[3], Decimal(PortOf(f))>>

\* The line they make.
Shown(line) ==
  Four(Tab, Fields(line)[1], Fields(line)[2], Fields(line)[3], Fields(line)[4])

\* What a client should find in a line of this kind.
Found(line, kind) ==
  CASE kind = "text" -> <<<<"i">> \o line, <<>>, <<InfoHost>>, 1>>
    [] kind = "url" -> <<<<"h">> \o Tail(Part(line, Tab, 1)), Part(line, Tab, 2), SelfHost, SelfPort>>
    [] kind = "local" -> <<Part(line, Tab, 1), VirtualPath, SelfHost, SelfPort>>
    [] kind = "remote" -> <<Part(line, Tab, 1), Part(line, Tab, 2), Part(line, Tab, 3),
                            IF Cardinality(Occurrences(line, Tab)) = 3
                            THEN Stoll(Part(line, Tab, 4)) ELSE 70>>

\* No line has a newline.
LinesPlain == \A n \in DOMAIN lines : Plain(lines[n], NewLine)

\* The menu has a line for each line that was read, and the one that ends it.
MenuSoFar ==
  MakesMenu /\ phase # "thrown" =>
    /\ \A n \in DOMAIN lines : LineKind(Tokenize(lines[n], Tab)) # "badport"
    /\ menu \in Seq(MenuChars)
    /\ Count(menu, NewLine) = Len(lines) + (IF phase = "done" THEN 1 ELSE 0)
    /\ Part(menu, NewLine, Count(menu, NewLine) + 1) = <<>>
    /\ \A n \in DOMAIN lines : MenuLine(n) = Shown(lines[n]) \o <<Return>>
    /\ phase = "done" => MenuLine(Len(lines) + 1) = <<".", Return>>

-------------------------------------------------------------------------------
(* The characters and the numbers of a menu.                               *)

\* Three things are three at most.
LEMMA AtMostThree ==
  ASSUME NEW a, NEW b, NEW c
  PROVE  Cardinality({a, b, c}) <= 3
<1>1. IsFiniteSet({}) /\ Cardinality({}) = 0
  BY FS_EmptySet
<1>2. IsFiniteSet({a}) /\ Cardinality({a}) = 1
  BY FS_Singleton
<1>3. /\ IsFiniteSet({a} \cup {b})
      /\ Cardinality({a} \cup {b}) \in {1, 2}
  BY <1>2, FS_AddElement
<1>4. Cardinality(({a} \cup {b}) \cup {c}) <= 3
  BY <1>3, FS_AddElement
<1>5. ({a} \cup {b}) \cup {c} = {a, b, c}
  OBVIOUS
<1>. QED
  BY <1>4, <1>5

\* The characters that end lines and fields are told from the others.
LEMMA CharsApart ==
  /\ NewLine # Tab /\ NewLine # Return /\ Tab # Return /\ NewLine # InfoHost /\ Tab # InfoHost
  /\ NewLine \notin {"i", "h", ".", "1"} /\ Tab \notin {"i", "h", ".", "1"}
  /\ NewLine \notin DOMAIN DigitValue /\ Tab \notin DOMAIN DigitValue
<1>1. /\ Cardinality({NewLine, Tab, Return, InfoHost}) = 4
      /\ {NewLine, Tab, Return} \cap {"i", "h", ".", "1"} = {}
      /\ ({NewLine, Tab, Return, InfoHost, "-", "+"} \cup Spaces) \cap DOMAIN DigitValue = {}
  BY CharsAssumption
<1>2. ASSUME NEW a, NEW b, NEW c, {NewLine, Tab, Return, InfoHost} = {a, b, c} PROVE FALSE
  <2>1. Cardinality({a, b, c}) <= 3
    BY AtMostThree
  <2>. QED
    BY <1>1, <1>2, <2>1
<1>3. NewLine # Tab /\ NewLine # Return /\ NewLine # InfoHost
  <2>1. NewLine \in {Tab, Return, InfoHost} =>
          {NewLine, Tab, Return, InfoHost} = {Tab, Return, InfoHost}
    OBVIOUS
  <2>. QED
    BY <1>2, <2>1
<1>4. Tab # Return /\ Tab # InfoHost
  <2>1. Tab \in {NewLine, Return, InfoHost} =>
          {NewLine, Tab, Return, InfoHost} = {NewLine, Return, InfoHost}
    OBVIOUS
  <2>. QED
    BY <1>2, <2>1
<1>. QED
  BY <1>1, <1>3, <1>4

\* Digits are neither.
LEMMA DigitsPlain ==
  ASSUME NEW s \in Seq(DOMAIN DigitValue)
  PROVE  Plain(s, NewLine) /\ Plain(s, Tab)
<1>1. \A i \in DOMAIN s : s[i] \in DOMAIN DigitValue
  OBVIOUS
<1>. QED
  BY <1>1, CharsApart DEF Plain

\* The digits of a number: the last one after those of its tenth.
Digit(v) == CHOOSE c \in DOMAIN DigitValue : DigitValue[c] = v
Digits(f, n) == IF n < 10 THEN <<Digit(n)>> ELSE Append(f[n \div 10], Digit(n % 10))

\* A number is its tenth ten times, and a digit.
LEMMA Tenth ==
  ASSUME NEW n \in Nat, ~ (n < 10)
  PROVE  /\ n \div 10 \in Nat /\ n \div 10 < n /\ n % 10 \in 0..9
         /\ n = 10 * (n \div 10) + (n % 10)
OBVIOUS

\* Every digit has a character.
LEMMA DigitIs ==
  ASSUME NEW v \in 0..9
  PROVE  Digit(v) \in DOMAIN DigitValue /\ DigitValue[Digit(v)] = v
BY CharsAssumption DEF Digit

\* to_string writes a port in digits, and the number is the port.
THEOREM DecimalIs ==
  ASSUME NEW port \in 0..MaxPort
  PROVE  /\ Decimal(port) \in Seq(DOMAIN DigitValue) /\ Decimal(port) # <<>>
         /\ Stoll(Decimal(port)) = port
<1>. DEFINE D == DOMAIN DigitValue
            Table(f) == [n \in 0..MaxPort |-> Digits(f, n)]
            Solves(v, m) == \A n \in 0..m : v[n] = Digits(v, n)
            Missing == {m \in 0..MaxPort : \A v \in [0..m -> Seq(D)] : ~ Solves(v, m)}
<1>1. MaxPort \in Nat /\ DigitsWorth /\ DigitsApart
  BY MaxPortAssumption, CharsAssumption DEF DigitsWorth, DigitsApart
<1>2. ASSUME NEW f, NEW n \in Nat, n < 10 PROVE Digits(f, n) \in Seq(D) /\ Digits(f, n) = <<Digit(n)>>
  <2>1. Digit(n) \in D
    BY <1>2, DigitIs
  <2>. HIDE DEF D
  <2>. QED
    BY <1>2, <2>1 DEF Digits
<1>3. ASSUME NEW f, NEW n \in Nat, ~ (n < 10), f[n \div 10] \in Seq(D)
      PROVE  Digits(f, n) \in Seq(D) /\ Digits(f, n) = Append(f[n \div 10], Digit(n % 10))
  <2>1. Digit(n % 10) \in D
    BY <1>3, Tenth, DigitIs
  <2>. HIDE DEF D
  <2>. QED
    BY <1>3, <2>1 DEF Digits
<1>4. ASSUME Missing # {} PROVE FALSE
  <2>1. Missing \in SUBSET Nat
    BY <1>1
  <2>2. PICK m \in Missing : \A j \in Missing : m <= j
    <3>. HIDE DEF Missing
    <3>. QED
      BY <1>4, <2>1, Least
  <2>3. m \in 0..MaxPort /\ \A v \in [0..m -> Seq(D)] : ~ Solves(v, m)
    BY <2>2
  <2>4. PICK v \in [0..(m - 1) -> Seq(D)] : Solves(v, m - 1)
    <3>1. CASE m = 0
      <4>1. 0..(m - 1) = {}
        BY <3>1
      <4>. PICK v \in [0..(m - 1) -> Seq(D)] : TRUE
        <5>1. [n \in 0..(m - 1) |-> <<>>] \in [0..(m - 1) -> Seq(D)]
          BY <4>1
        <5>. QED
          BY <5>1
      <4>2. Solves(v, m - 1)
        BY <4>1
      <4>. QED
        BY <4>2
    <3>2. CASE m # 0
      <4>1. m - 1 \in 0..MaxPort /\ ~ (m <= m - 1)
        BY <1>1, <2>3, <3>2
      <4>2. m - 1 \notin Missing
        BY <2>2, <4>1
      <4>. HIDE DEF Solves
      <4>. QED
        BY <4>1, <4>2
    <3>. QED
      BY <3>1, <3>2
  <2>. DEFINE w == [n \in 0..m |-> IF n = m THEN Digits(v, m) ELSE v[n]]
  <2>5. m \in Nat /\ \A n \in 0..m : n = m \/ n \in 0..(m - 1)
    BY <1>1, <2>3
  <2>6. ASSUME NEW n \in 0..m PROVE Digits(w, n) = Digits(v, n)
    <3>1. CASE n < 10
      BY <2>5, <3>1 DEF Digits
    <3>2. CASE ~ (n < 10)
      <4>1. n \div 10 \in Nat /\ n \div 10 < n
        BY <2>5, <3>2, Tenth
      <4>2. n \div 10 \in 0..m /\ n \div 10 # m
        BY <2>5, <4>1
      <4>3. w[n \div 10] = v[n \div 10]
        BY <4>2
      <4>. HIDE DEF w
      <4>. QED
        BY <3>2, <4>3 DEF Digits
    <3>. QED
      BY <3>1, <3>2
  <2>7. Digits(v, m) \in Seq(D)
    <3>1. CASE m < 10
      BY <1>2, <2>5, <3>1
    <3>2. CASE ~ (m < 10)
      <4>1. m \div 10 \in 0..(m - 1)
        <5>1. m \div 10 \in Nat /\ m \div 10 < m
          BY <2>5, <3>2, Tenth
        <5>. QED
          BY <2>5, <5>1
      <4>2. v[m \div 10] \in Seq(D)
        BY <4>1
      <4>. QED
        BY <1>3, <2>5, <3>2, <4>2
    <3>. QED
      BY <3>1, <3>2
  <2>8. w \in [0..m -> Seq(D)]
    <3>. HIDE DEF D
    <3>1. \A n \in 0..m : (IF n = m THEN Digits(v, m) ELSE v[n]) \in Seq(D)
      BY <2>5, <2>7
    <3>. QED
      BY <3>1
  <2>9. Solves(w, m)
    <3>. SUFFICES ASSUME NEW n \in 0..m PROVE w[n] = Digits(w, n)
      OBVIOUS
    <3>1. CASE n = m
      <4>1. w[n] = Digits(v, m)
        BY <3>1
      <4>. HIDE DEF w
      <4>. QED
        BY <2>6, <3>1, <4>1
    <3>2. CASE n # m
      <4>1. w[n] = v[n]
        BY <3>2
      <4>2. v[n] = Digits(v, n)
        BY <2>4, <2>5, <3>2
      <4>. HIDE DEF w
      <4>. QED
        BY <2>6, <4>1, <4>2
    <3>. QED
      BY <3>1, <3>2
  <2>. HIDE DEF w, Solves
  <2>. QED
    BY <2>3, <2>8, <2>9
<1>5. PICK g \in [0..MaxPort -> Seq(D)] : Solves(g, MaxPort)
  <2>. HIDE DEF Solves
  <2>1. MaxPort \in 0..MaxPort
    BY <1>1
  <2>2. MaxPort \notin Missing
    <3>. HIDE DEF Missing
    <3>. QED
      BY <1>4
  <2>. QED
    BY <2>1, <2>2
<1>6. g = Table(g)
  <2>1. \A n \in 0..MaxPort : g[n] = Table(g)[n]
    BY <1>5
  <2>. QED
    BY <2>1
<1>. DEFINE f == CHOOSE v : v = Table(v)
<1>7. f = Table(f)
  <2>. HIDE DEF Table, Solves
  <2>. QED
    BY <1>6, Zenon
<1>8. Decimal(port) = f[port]
  BY DEF Decimal, Digits, Digit
<1>9. \A n \in 0..MaxPort : f[n] = Digits(f, n)
  <2>. HIDE DEF f
  <2>. QED
    BY <1>7
<1>. HIDE DEF f
<1>. DEFINE Right(n) == /\ f[n] \in Seq(D) /\ f[n] # <<>>
                        /\ ValueOf(f[n])[Len(f[n])] = n
            Wrong == {n \in 0..MaxPort : ~ Right(n)}
<1>10. ASSUME Wrong # {} PROVE FALSE
  <2>1. Wrong \in SUBSET Nat
    BY <1>1
  <2>2. PICK n \in Wrong : \A j \in Wrong : n <= j
    <3>. HIDE DEF Wrong
    <3>. QED
      BY <1>10, <2>1, Least
  <2>3. n \in 0..MaxPort /\ n \in Nat /\ ~ Right(n) /\ f[n] = Digits(f, n)
    BY <1>1, <1>9, <2>2
  <2>4. CASE n < 10
    <3>1. f[n] = <<Digit(n)>> /\ f[n] \in Seq(D)
      BY <1>2, <2>3, <2>4
    <3>2. Digit(n) \in D /\ DigitValue[Digit(n)] = n
      BY <2>3, <2>4, DigitIs
    <3>3. /\ ValueOf(f[n])[0] = 0
          /\ \A k \in 1..Len(f[n]) :
               ValueOf(f[n])[k] = 10 * ValueOf(f[n])[k - 1] + DigitValue[f[n][k]]
      BY <1>1, <3>1, ValueOfType
    <3>4. PICK s : s = f[n]
      OBVIOUS
    <3>5. Len(s) = 1 /\ s[1] = Digit(n) /\ s # <<>> /\ s \in Seq(D)
      BY <3>1, <3>4
    <3>6. ValueOf(s)[1] = n
      <4>1. 1 \in 1..Len(s) /\ 1 - 1 = 0
        BY <3>5
      <4>2. ValueOf(s)[1] = 10 * ValueOf(s)[1 - 1] + DigitValue[s[1]]
        BY <3>3, <3>4, <4>1
      <4>. QED
        BY <2>3, <3>2, <3>3, <3>4, <3>5, <4>1, <4>2
    <3>7. ValueOf(s)[Len(s)] = n
      BY <3>5, <3>6
    <3>. QED
      BY <2>3, <3>4, <3>5, <3>7
  <2>5. CASE ~ (n < 10)
    <3>1. PICK q : q = n \div 10
      OBVIOUS
    <3>2. PICK r : r = n % 10
      OBVIOUS
    <3>3. /\ q \in Nat /\ q < n /\ r \in 0..9 /\ n = 10 * q + r
      BY <2>3, <2>5, <3>1, <3>2, Tenth
    <3>4. q \in 0..MaxPort /\ ~ (n <= q)
      BY <1>1, <2>3, <3>3
    <3>5. Right(q)
      <4>1. q \notin Wrong
        BY <2>2, <3>4
      <4>. QED
        BY <3>4, <4>1
    <3>6. PICK t : t = f[q]
      OBVIOUS
    <3>7. t \in Seq(D) /\ t # <<>> /\ ValueOf(t)[Len(t)] = q
      BY <3>5, <3>6
    <3>8. f[n] = Append(t, Digit(r))
      BY <1>3, <2>3, <2>5, <3>1, <3>2, <3>6, <3>7
    <3>9. Digit(r) \in D /\ DigitValue[Digit(r)] = r
      BY <3>3, DigitIs
    <3>10. PICK s : s = Append(t, Digit(r))
      OBVIOUS
    <3>11. ValueOf(s)[Len(s)] = 10 * q + r
      <4>1. ValueOf(Append(t, Digit(r)))[Len(Append(t, Digit(r)))]
              = 10 * ValueOf(t)[Len(t)] + DigitValue[Digit(r)]
        BY <1>1, <3>7, <3>9, ValueOfAppend
      <4>. QED
        BY <3>7, <3>9, <3>10, <4>1
    <3>12. s \in Seq(D) /\ s # <<>>
      <4>. HIDE DEF D
      <4>. QED
        BY <3>7, <3>9, <3>10
    <3>. QED
      BY <2>3, <3>3, <3>8, <3>10, <3>11, <3>12
  <2>. QED
    BY <2>4, <2>5
<1>11. Right(port)
  BY <1>10
<1>. QED
  BY <1>1, <1>8, <1>11, StollDigits

-------------------------------------------------------------------------------
(* A line of a menu.                                                       *)

\* The end of a line, a character at a time.
LEMMA EolAdded ==
  ASSUME NEW T, Return \in T, NewLine \in T, NEW s \in Seq(T)
  PROVE  s \o Eol = (s \o <<Return>>) \o <<NewLine>>
<1>1. <<Return>> \in Seq(T) /\ <<NewLine>> \in Seq(T)
  OBVIOUS
<1>2. <<Return>> \o <<NewLine>> = Eol
  BY Spelt, Zenon DEF Eol
<1>3. (s \o <<Return>>) \o <<NewLine>> = s \o (<<Return>> \o <<NewLine>>)
  BY <1>1, JoinAssoc
<1>. QED
  BY <1>2, <1>3, Zenon

\* What comes into a menu besides the gophermap ends no line and no field.
LEMMA SignsPlain ==
  ASSUME NEW T, Signs \subseteq T, PlainHost
  PROVE  /\ NewLine \in T /\ Tab \in T /\ Return \in T
         /\ SelfHost \in Seq(T) /\ Plain(SelfHost, NewLine) /\ Plain(SelfHost, Tab)
         /\ \A c \in {"i", "h", ".", "1", InfoHost} :
              <<c>> \in Seq(T) /\ Plain(<<c>>, NewLine) /\ Plain(<<c>>, Tab)
         /\ \A s \in Seq(DOMAIN DigitValue) :
              s \in Seq(T) /\ Plain(s, NewLine) /\ Plain(s, Tab)
         /\ <<>> \in Seq(T) /\ Plain(<<>>, NewLine) /\ Plain(<<>>, Tab)
<1>1. NewLine \in T /\ Tab \in T /\ Return \in T
  BY DEF Signs
<1>2. SelfHost \in Seq(T) /\ Plain(SelfHost, NewLine) /\ Plain(SelfHost, Tab)
  <2>1. \A i \in DOMAIN SelfHost : SelfHost[i] \in T
    BY DEF Signs
  <2>2. SelfHost \in Seq({SelfHost[i] : i \in DOMAIN SelfHost})
    BY DEF PlainHost
  <2>. QED
    BY <2>1, <2>2 DEF PlainHost
<1>3. ASSUME NEW c \in {"i", "h", ".", "1", InfoHost}
      PROVE  <<c>> \in Seq(T) /\ Plain(<<c>>, NewLine) /\ Plain(<<c>>, Tab)
  <2>1. c \in T /\ c # NewLine /\ c # Tab
    BY <1>3, CharsApart DEF Signs
  <2>. QED
    BY <2>1 DEF Plain
<1>4. ASSUME NEW s \in Seq(DOMAIN DigitValue)
      PROVE  s \in Seq(T) /\ Plain(s, NewLine) /\ Plain(s, Tab)
  <2>1. DOMAIN DigitValue \subseteq T
    BY DEF Signs
  <2>. QED
    BY <2>1, DigitsPlain
<1>5. <<>> \in Seq(T) /\ Plain(<<>>, NewLine) /\ Plain(<<>>, Tab)
  BY DEF Plain
<1>. QED
  BY <1>1, <1>2, <1>3, <1>4, <1>5

\* The tokens of a line are its parts.
LEMMA Tokens ==
  ASSUME NEW T, NEW line \in Seq(T), Plain(line, NewLine)
  PROVE  /\ Cardinality(Occurrences(line, Tab)) \in Nat
         /\ Len(Tokenize(line, Tab)) = Cardinality(Occurrences(line, Tab)) + 1
         /\ \A n \in 1..Len(Tokenize(line, Tab)) :
              /\ Tokenize(line, Tab)[n] = Part(line, Tab, n)
              /\ Tokenize(line, Tab)[n] \in Seq(T)
              /\ Plain(Tokenize(line, Tab)[n], NewLine)
              /\ Plain(Tokenize(line, Tab)[n], Tab)
<1>1. PICK f : f = Tokenize(line, Tab)
  OBVIOUS
<1>2. /\ Len(f) = Cardinality(Occurrences(line, Tab)) + 1
      /\ \A n \in 1..(Cardinality(Occurrences(line, Tab)) + 1) : f[n] = Part(line, Tab, n)
  BY <1>1, TokenizeParts
<1>3. Cardinality(Occurrences(line, Tab)) \in Nat
  BY OccurrencesType
<1>4. ASSUME NEW n \in 1..Len(f)
      PROVE  /\ f[n] = Part(line, Tab, n) /\ f[n] \in Seq(T)
             /\ Plain(f[n], NewLine) /\ Plain(f[n], Tab)
  <2>1. n \in 1..(Count(line, Tab) + 1) /\ f[n] = Part(line, Tab, n)
    BY <1>2 DEF Count
  <2>2. /\ Part(line, Tab, n) \in Seq(T) /\ Plain(Part(line, Tab, n), Tab)
        /\ Plain(Part(line, Tab, n), NewLine)
    BY <2>1, PartPlain
  <2>. QED
    BY <2>1, <2>2
<1>. QED
  BY <1>1, <1>2, <1>3, <1>4

\* Four fields are those a menu has for a line, and those a client should find.
Cut(T, line, a, b, c, d) ==
  LET f == Tokenize(line, Tab) IN
  /\ a \in Seq(T) /\ b \in Seq(T) /\ c \in Seq(T) /\ d \in Seq(T)
  /\ Plain(a, NewLine) /\ Plain(b, NewLine) /\ Plain(c, NewLine) /\ Plain(d, NewLine)
  /\ Plain(b, Tab) /\ Plain(c, Tab) /\ Plain(d, Tab)
  /\ Plain(a, Tab) \/ (LineKind(f) = "text" /\ ~ Plain(line, Tab))
  /\ Fields(line) = <<a, b, c, d>>
  /\ ItemLine(line, f) = Four(Tab, a, b, c, d) \o Eol
  /\ Found(line, LineKind(f)) = <<a, b, c, Stoll(d)>>

\* text() passes the line on.
LEMMA CutText ==
  ASSUME NEW T, Signs \subseteq T, PlainHost,
         NEW line \in Seq(T), Plain(line, NewLine),
         LineKind(Tokenize(line, Tab)) = "text"
  PROVE  Cut(T, line, <<"i">> \o line, <<>>, <<InfoHost>>, <<"1">>)
<1>1. /\ NewLine \in T /\ Tab \in T /\ Return \in T
      /\ \A c \in {"i", "1", InfoHost} :
           <<c>> \in Seq(T) /\ Plain(<<c>>, NewLine) /\ Plain(<<c>>, Tab)
      /\ <<>> \in Seq(T) /\ Plain(<<>>, NewLine) /\ Plain(<<>>, Tab)
  BY SignsPlain
<1>. DEFINE a == <<"i">> \o line
<1>2. a \in Seq(T) /\ Plain(a, NewLine)
  BY <1>1, PlainJoint
<1>3. Plain(line, Tab) => Plain(a, Tab)
  BY <1>1, PlainJoint
<1>4. ItemLine(line, Tokenize(line, Tab)) = Four(Tab, a, <<>>, <<InfoHost>>, <<"1">>) \o Eol
  <2>1. ItemLine(line, Tokenize(line, Tab)) = (a \o <<Tab, Tab, InfoHost, Tab, "1">>) \o Eol
    BY DEF ItemLine, TextLine
  <2>. HIDE DEF a
  <2>2. <<Tab>> \in Seq(T) /\ <<InfoHost>> \in Seq(T) /\ <<"1">> \in Seq(T)
    BY <1>1
  <2>3. <<Tab, Tab, InfoHost, Tab, "1">> = <<Tab>> \o <<Tab>> \o <<InfoHost>> \o <<Tab>> \o <<"1">>
    BY Spelt
  <2>4. a \o (<<Tab>> \o <<Tab>> \o <<InfoHost>> \o <<Tab>> \o <<"1">>)
          = a \o <<Tab>> \o <<Tab>> \o <<InfoHost>> \o <<Tab>> \o <<"1">>
    <3>1. a \o (<<Tab>> \o <<Tab>>) = a \o <<Tab>> \o <<Tab>>
      BY <1>2, <2>2, JoinAssoc
    <3>2. <<Tab>> \o <<Tab>> \in Seq(T)
      BY <2>2
    <3>3. a \o (<<Tab>> \o <<Tab>> \o <<InfoHost>>) = a \o (<<Tab>> \o <<Tab>>) \o <<InfoHost>>
      BY <1>2, <2>2, <3>2, JoinAssoc
    <3>4. <<Tab>> \o <<Tab>> \o <<InfoHost>> \in Seq(T)
      BY <2>2, <3>2
    <3>5. a \o (<<Tab>> \o <<Tab>> \o <<InfoHost>> \o <<Tab>>)
            = a \o (<<Tab>> \o <<Tab>> \o <<InfoHost>>) \o <<Tab>>
      BY <1>2, <2>2, <3>4, JoinAssoc
    <3>6. <<Tab>> \o <<Tab>> \o <<InfoHost>> \o <<Tab>> \in Seq(T)
      BY <2>2, <3>4
    <3>7. a \o (<<Tab>> \o <<Tab>> \o <<InfoHost>> \o <<Tab>> \o <<"1">>)
            = a \o (<<Tab>> \o <<Tab>> \o <<InfoHost>> \o <<Tab>>) \o <<"1">>
      BY <1>2, <2>2, <3>6, JoinAssoc
    <3>. QED
      BY <3>1, <3>3, <3>5, <3>7, Zenon
  <2>5. a \o <<Tab>> \o <<>> = a \o <<Tab>>
    <3>1. a \o <<Tab>> \in Seq(T)
      BY <1>2, <2>2
    <3>. QED
      BY <3>1, JoinEmpty
  <2>6. Four(Tab, a, <<>>, <<InfoHost>>, <<"1">>)
          = a \o <<Tab>> \o <<>> \o <<Tab>> \o <<InfoHost>> \o <<Tab>> \o <<"1">>
    BY Zenon DEF Four
  <2>. QED
    BY <2>1, <2>3, <2>4, <2>5, <2>6, Zenon
<1>5. Stoll(<<"1">>) = 1
  <2>1. DigitsWorth /\ DigitsApart /\ "1" \in DOMAIN DigitValue /\ DigitValue["1"] = 1
    BY CharsAssumption DEF DigitsWorth, DigitsApart
  <2>2. PICK s : s = <<"1">>
    OBVIOUS
  <2>3. s \in Seq(DOMAIN DigitValue) /\ Len(s) = 1 /\ s[1] = "1" /\ s # <<>>
    BY <2>1, <2>2
  <2>4. Stoll(s) = ValueOf(s)[Len(s)]
    BY <2>1, <2>3, StollDigits
  <2>5. /\ ValueOf(s)[0] = 0
        /\ \A k \in 1..Len(s) : ValueOf(s)[k] = 10 * ValueOf(s)[k - 1] + DigitValue[s[k]]
    BY <2>1, <2>3, ValueOfType
  <2>6. 1 \in 1..Len(s) /\ 1 - 1 = 0
    BY <2>3
  <2>7. ValueOf(s)[1] = 10 * ValueOf(s)[0] + DigitValue[s[1]]
    BY <2>5, <2>6
  <2>8. Stoll(s) = 1
    BY <2>1, <2>3, <2>4, <2>5, <2>7
  <2>. QED
    BY <2>2, <2>8
<1>6. Fields(line) = <<a, <<>>, <<InfoHost>>, <<"1">>>>
  BY DEF Fields
<1>7. Found(line, "text") = <<a, <<>>, <<InfoHost>>, 1>>
  BY DEF Found
<1>. HIDE DEF a
<1>. QED
  BY <1>1, <1>2, <1>3, <1>4, <1>5, <1>6, <1>7 DEF Cut, a

\* How many fields a line of each kind has.
LEMMA KindFields ==
  ASSUME NEW f, Len(f) \in Nat, LineKind(f) \in {"url", "local", "remote"}
  PROVE  /\ Len(f) \in 2..4 /\ ~ (Len(f[1]) < 2)
         /\ LineKind(f) = "remote" => Len(f) \in 3..4
BY DEF LineKind, LineKindOf

\* What the other kinds have in common: the type and the name.
LEMMA FirstFields ==
  ASSUME NEW T, NEW line \in Seq(T), Plain(line, NewLine),
         NEW f, f = Tokenize(line, Tab), LineKind(f) \in {"url", "local", "remote"}
  PROVE  /\ Len(f) = Cardinality(Occurrences(line, Tab)) + 1 /\ Len(f) \in 2..4
         /\ Cardinality(Occurrences(line, Tab)) \in Nat
         /\ LineKind(f) = "remote" => Len(f) \in 3..4
         /\ \A n \in 1..Len(f) : /\ f[n] = Part(line, Tab, n) /\ f[n] \in Seq(T)
                                 /\ Plain(f[n], NewLine) /\ Plain(f[n], Tab)
         /\ <<f[1][1]>> \o Tail(f[1]) = f[1]
         /\ Tail(f[1]) \in Seq(T) /\ Plain(Tail(f[1]), NewLine) /\ Plain(Tail(f[1]), Tab)
<1>1. /\ Len(f) = Cardinality(Occurrences(line, Tab)) + 1
      /\ Cardinality(Occurrences(line, Tab)) \in Nat
      /\ \A n \in 1..Len(f) : /\ f[n] = Part(line, Tab, n) /\ f[n] \in Seq(T)
                              /\ Plain(f[n], NewLine) /\ Plain(f[n], Tab)
  BY Tokens
<1>2. /\ Len(f) \in 2..4 /\ ~ (Len(f[1]) < 2)
      /\ LineKind(f) = "remote" => Len(f) \in 3..4
  <2>1. Len(f) \in Nat
    BY <1>1
  <2>. QED
    BY <2>1, KindFields, Zenon
<1>3. PICK g : g = f[1]
  OBVIOUS
<1>4. g \in Seq(T) /\ Plain(g, NewLine) /\ Plain(g, Tab) /\ Len(g) >= 2
  <2>1. 1 \in 1..Len(f)
    BY <1>2
  <2>2. f[1] \in Seq(T) /\ Plain(f[1], NewLine) /\ Plain(f[1], Tab)
    BY <1>1, <2>1
  <2>3. Len(g) \in Nat
    BY <1>3, <2>2
  <2>. QED
    BY <1>2, <1>3, <2>2, <2>3
<1>5. /\ <<g[1]>> \o Tail(g) = g /\ Tail(g) \in Seq(T)
      /\ Plain(Tail(g), NewLine) /\ Plain(Tail(g), Tab)
  BY <1>4, HeadTail
<1>. QED
  BY <1>1, <1>2, <1>3, <1>5

\* A port in a menu.
LEMMA PortShown ==
  ASSUME NEW T, Signs \subseteq T, PlainHost, NEW port \in 0..MaxPort
  PROVE  /\ Decimal(port) \in Seq(T) /\ Plain(Decimal(port), NewLine) /\ Plain(Decimal(port), Tab)
         /\ Stoll(Decimal(port)) = port
<1>1. Decimal(port) \in Seq(DOMAIN DigitValue) /\ Stoll(Decimal(port)) = port
  BY DecimalIs
<1>. QED
  BY <1>1, SignsPlain

\* NodeLine writes its fields.
LEMMA NodeLineIs ==
  ASSUME NEW type, NEW name, NEW selector, NEW host, NEW port
  PROVE  NodeLine(type, name, selector, host, port)
           = Four(Tab, <<type>> \o name, selector, host, Decimal(port)) \o Eol
BY DEF NodeLine, Four

\* A link out of gopher is given to the own host, which serves the redirection.
LEMMA CutUrl ==
  ASSUME NEW T, Signs \subseteq T, PlainHost,
         NEW line \in Seq(T), Plain(line, NewLine),
         NEW f, f = Tokenize(line, Tab), LineKind(f) = "url"
  PROVE  Cut(T, line, <<"h">> \o Tail(f[1]), f[2], SelfHost, Decimal(SelfPort))
<1>1. /\ Len(f) \in 2..4
      /\ \A n \in 1..Len(f) : /\ f[n] = Part(line, Tab, n) /\ f[n] \in Seq(T)
                              /\ Plain(f[n], NewLine) /\ Plain(f[n], Tab)
      /\ <<f[1][1]>> \o Tail(f[1]) = f[1]
      /\ Tail(f[1]) \in Seq(T) /\ Plain(Tail(f[1]), NewLine) /\ Plain(Tail(f[1]), Tab)
  BY FirstFields
<1>2. 1 \in 1..Len(f) /\ 2 \in 1..Len(f)
  <2>1. \A n \in 2..4 : 1 \in 1..n /\ 2 \in 1..n
    OBVIOUS
  <2>. QED
    BY <1>1, <2>1, Zenon
<1>3. /\ SelfHost \in Seq(T) /\ Plain(SelfHost, NewLine) /\ Plain(SelfHost, Tab)
      /\ <<"h">> \in Seq(T) /\ Plain(<<"h">>, NewLine) /\ Plain(<<"h">>, Tab)
  BY SignsPlain
<1>4. PICK d : d = Decimal(SelfPort)
  OBVIOUS
<1>5. d \in Seq(T) /\ Plain(d, NewLine) /\ Plain(d, Tab) /\ Stoll(d) = SelfPort
  BY <1>4, SelfAssumption, PortShown
<1>6. PICK a : a = <<"h">> \o Tail(f[1])
  OBVIOUS
<1>7. a \in Seq(T) /\ Plain(a, NewLine) /\ Plain(a, Tab)
  <2>1. /\ <<"h">> \o Tail(f[1]) \in Seq(T) /\ Plain(<<"h">> \o Tail(f[1]), NewLine)
        /\ Plain(<<"h">> \o Tail(f[1]), Tab)
    BY <1>1, <1>3, PlainJoint
  <2>. QED
    BY <1>6, <2>1, Zenon
<1>8. Fields(line) = <<a, f[2], SelfHost, d>>
  BY <1>4, <1>6 DEF Fields
<1>9. ItemLine(line, f) = Four(Tab, a, f[2], SelfHost, d) \o Eol
  <2>1. ItemLine(line, f) = NodeLine("h", Tail(f[1]), f[2], SelfHost, SelfPort)
    BY DEF ItemLine
  <2>. QED
    BY <1>4, <1>6, <2>1, NodeLineIs, Zenon
<1>10. Found(line, "url") = <<a, f[2], SelfHost, SelfPort>>
  <2>1. Found(line, "url") = <<<<"h">> \o Tail(Part(line, Tab, 1)), Part(line, Tab, 2), SelfHost, SelfPort>>
    BY DEF Found
  <2>. QED
    BY <1>1, <1>2, <1>6, <2>1
<1>11. f[2] \in Seq(T) /\ Plain(f[2], NewLine) /\ Plain(f[2], Tab)
  BY <1>1, <1>2
<1>12. Cut(T, line, a, f[2], SelfHost, d)
  BY <1>3, <1>5, <1>7, <1>8, <1>9, <1>10, <1>11, Zenon DEF Cut
<1>. QED
  BY <1>4, <1>6, <1>12, Zenon

\* A link to a resource of the own host is given the virtual path of it.
LEMMA CutLocal ==
  ASSUME NEW T, Signs \subseteq T, PlainHost,
         NEW line \in Seq(T), Plain(line, NewLine),
         NEW f, f = Tokenize(line, Tab), LineKind(f) = "local"
  PROVE  Cut(T, line, f[1], VirtualPath, SelfHost, Decimal(SelfPort))
<1>1. /\ Len(f) \in 2..4
      /\ \A n \in 1..Len(f) : /\ f[n] = Part(line, Tab, n) /\ f[n] \in Seq(T)
                              /\ Plain(f[n], NewLine) /\ Plain(f[n], Tab)
      /\ <<f[1][1]>> \o Tail(f[1]) = f[1]
  BY FirstFields
<1>2. 1 \in 1..Len(f)
  BY <1>1
<1>3. /\ SelfHost \in Seq(T) /\ Plain(SelfHost, NewLine) /\ Plain(SelfHost, Tab)
      /\ VirtualPath \in Seq(T) /\ Plain(VirtualPath, NewLine) /\ Plain(VirtualPath, Tab)
  BY SignsPlain, SelfAssumption
<1>4. PICK d : d = Decimal(SelfPort)
  OBVIOUS
<1>5. d \in Seq(T) /\ Plain(d, NewLine) /\ Plain(d, Tab) /\ Stoll(d) = SelfPort
  BY <1>4, SelfAssumption, PortShown
<1>6. Fields(line) = <<f[1], VirtualPath, SelfHost, d>>
  BY <1>4 DEF Fields
<1>7. ItemLine(line, f) = Four(Tab, f[1], VirtualPath, SelfHost, d) \o Eol
  <2>1. ItemLine(line, f) = NodeLine(f[1][1], Tail(f[1]), VirtualPath, SelfHost, SelfPort)
    BY DEF ItemLine
  <2>2. ItemLine(line, f)
          = Four(Tab, <<f[1][1]>> \o Tail(f[1]), VirtualPath, SelfHost, d) \o Eol
    BY <1>4, <2>1, NodeLineIs, Zenon
  <2>. QED
    BY <1>1, <2>2, Zenon
<1>8. Found(line, "local") = <<f[1], VirtualPath, SelfHost, SelfPort>>
  <2>1. Found(line, "local") = <<Part(line, Tab, 1), VirtualPath, SelfHost, SelfPort>>
    BY DEF Found
  <2>. QED
    BY <1>1, <1>2, <2>1
<1>9. f[1] \in Seq(T) /\ Plain(f[1], NewLine) /\ Plain(f[1], Tab)
  BY <1>1, <1>2
<1>10. Cut(T, line, f[1], VirtualPath, SelfHost, d)
  BY <1>3, <1>5, <1>6, <1>7, <1>8, <1>9, Zenon DEF Cut
<1>. QED
  BY <1>4, <1>10, Zenon

\* A link to another host is passed on as it is written.
LEMMA CutRemote ==
  ASSUME NEW T, Signs \subseteq T, PlainHost,
         NEW line \in Seq(T), Plain(line, NewLine),
         NEW f, f = Tokenize(line, Tab), LineKind(f) = "remote"
  PROVE  Cut(T, line, f[1], f[2], f[3], Decimal(PortOf(f)))
<1>1. /\ Len(f) = Cardinality(Occurrences(line, Tab)) + 1 /\ Len(f) \in 3..4
      /\ Cardinality(Occurrences(line, Tab)) \in Nat
      /\ \A n \in 1..Len(f) : /\ f[n] = Part(line, Tab, n) /\ f[n] \in Seq(T)
                              /\ Plain(f[n], NewLine) /\ Plain(f[n], Tab)
      /\ <<f[1][1]>> \o Tail(f[1]) = f[1]
  BY FirstFields
<1>2. /\ 1 \in 1..Len(f) /\ 2 \in 1..Len(f) /\ 3 \in 1..Len(f)
      /\ Len(f) = 4 => 4 \in 1..Len(f)
      /\ Len(f) = 4 <=> Cardinality(Occurrences(line, Tab)) = 3
  BY <1>1
<1>3. /\ PortOf(f) \in 0..MaxPort
      /\ PortOf(f) = IF Len(f) = 4 THEN Stoll(f[4]) ELSE 70
  <2>1. /\ Call(1, f).port \in 0..MaxPort
        /\ LineKind(f) = "remote" /\ Len(f) = 4 => Call(1, f).port = Stoll(f[4])
    BY CallPort
  <2>2. Call(1, f).port = PortOf(f)
    BY DEF Call
  <2>3. Len(f) # 4 => PortOf(f) = 70
    BY DEF PortOf
  <2>. QED
    BY <2>1, <2>2, <2>3
<1>4. PICK d : d = Decimal(PortOf(f))
  OBVIOUS
<1>5. d \in Seq(T) /\ Plain(d, NewLine) /\ Plain(d, Tab) /\ Stoll(d) = PortOf(f)
  BY <1>3, <1>4, PortShown
<1>6. Fields(line) = <<f[1], f[2], f[3], d>>
  BY <1>4 DEF Fields
<1>7. ItemLine(line, f) = Four(Tab, f[1], f[2], f[3], d) \o Eol
  <2>1. ItemLine(line, f) = NodeLine(f[1][1], Tail(f[1]), f[2], f[3], PortOf(f))
    BY DEF ItemLine
  <2>2. ItemLine(line, f) = Four(Tab, <<f[1][1]>> \o Tail(f[1]), f[2], f[3], d) \o Eol
    BY <1>4, <2>1, NodeLineIs, Zenon
  <2>. QED
    BY <1>1, <2>2, Zenon
<1>8. Found(line, "remote") = <<f[1], f[2], f[3], PortOf(f)>>
  <2>1. Found(line, "remote") =
          <<Part(line, Tab, 1), Part(line, Tab, 2), Part(line, Tab, 3),
            IF Cardinality(Occurrences(line, Tab)) = 3 THEN Stoll(Part(line, Tab, 4)) ELSE 70>>
    BY DEF Found
  <2>2. (IF Cardinality(Occurrences(line, Tab)) = 3 THEN Stoll(Part(line, Tab, 4)) ELSE 70)
          = PortOf(f)
    BY <1>1, <1>2, <1>3
  <2>3. f[1] = Part(line, Tab, 1) /\ f[2] = Part(line, Tab, 2) /\ f[3] = Part(line, Tab, 3)
    BY <1>1, <1>2
  <2>. QED
    BY <2>1, <2>2, <2>3, Zenon
<1>9. /\ f[1] \in Seq(T) /\ Plain(f[1], NewLine) /\ Plain(f[1], Tab)
      /\ f[2] \in Seq(T) /\ Plain(f[2], NewLine) /\ Plain(f[2], Tab)
      /\ f[3] \in Seq(T) /\ Plain(f[3], NewLine) /\ Plain(f[3], Tab)
  BY <1>1, <1>2
<1>10. Cut(T, line, f[1], f[2], f[3], d)
  BY <1>5, <1>6, <1>7, <1>8, <1>9, Zenon DEF Cut
<1>. QED
  BY <1>4, <1>10, Zenon

\* A line that the loop takes is cut into what a client should find.
LEMMA LineCut ==
  ASSUME NEW T, Signs \subseteq T, PlainHost,
         NEW line \in Seq(T), Plain(line, NewLine),
         LineKind(Tokenize(line, Tab)) # "badport"
  PROVE  \E a, b, c, d : Cut(T, line, a, b, c, d)
<1>1. PICK f : f = Tokenize(line, Tab)
  OBVIOUS
<1>2. LineKind(f) \in {"text", "url", "local", "remote"}
  BY <1>1, LineKinds
<1>3. CASE LineKind(f) = "text"
  <2>1. Cut(T, line, <<"i">> \o line, <<>>, <<InfoHost>>, <<"1">>)
    BY <1>1, <1>3, CutText
  <2>. QED
    BY <2>1, Zenon
<1>4. CASE LineKind(f) = "url"
  <2>1. Cut(T, line, <<"h">> \o Tail(f[1]), f[2], SelfHost, Decimal(SelfPort))
    BY <1>1, <1>4, CutUrl
  <2>. QED
    BY <2>1, Zenon
<1>5. CASE LineKind(f) = "local"
  <2>1. Cut(T, line, f[1], VirtualPath, SelfHost, Decimal(SelfPort))
    BY <1>1, <1>5, CutLocal
  <2>. QED
    BY <2>1, Zenon
<1>6. CASE LineKind(f) = "remote"
  <2>1. Cut(T, line, f[1], f[2], f[3], Decimal(PortOf(f)))
    BY <1>1, <1>6, CutRemote
  <2>. QED
    BY <2>1, Zenon
<1>. QED
  BY <1>2, <1>3, <1>4, <1>5, <1>6

\* What a menu has for a line is one line.
LEMMA ShownIs ==
  ASSUME NEW T, Signs \subseteq T, PlainHost,
         NEW line \in Seq(T), Plain(line, NewLine),
         LineKind(Tokenize(line, Tab)) # "badport"
  PROVE  /\ Shown(line) \o <<Return>> \in Seq(T) /\ Plain(Shown(line) \o <<Return>>, NewLine)
         /\ ItemLine(line, Tokenize(line, Tab)) = (Shown(line) \o <<Return>>) \o <<NewLine>>
<1>1. PICK a, b, c, d : Cut(T, line, a, b, c, d)
  BY LineCut
<1>2. /\ a \in Seq(T) /\ b \in Seq(T) /\ c \in Seq(T) /\ d \in Seq(T)
      /\ Plain(a, NewLine) /\ Plain(b, NewLine) /\ Plain(c, NewLine) /\ Plain(d, NewLine)
      /\ Fields(line) = <<a, b, c, d>>
      /\ ItemLine(line, Tokenize(line, Tab)) = Four(Tab, a, b, c, d) \o Eol
  BY <1>1, Zenon DEF Cut
<1>3. NewLine \in T /\ Tab \in T /\ Return \in T /\ NewLine # Tab /\ NewLine # Return
  BY SignsPlain, CharsApart
<1>4. Shown(line) = Four(Tab, a, b, c, d)
  BY <1>2 DEF Shown
<1>5. Shown(line) \in Seq(T) /\ Plain(Shown(line), NewLine)
  <2>1. Four(Tab, a, b, c, d) \in Seq(T) /\ Plain(Four(Tab, a, b, c, d), NewLine)
    BY <1>2, <1>3, FourPlain
  <2>. QED
    BY <1>4, <2>1
<1>6. <<Return>> \in Seq(T) /\ Plain(<<Return>>, NewLine)
  BY <1>3 DEF Plain
<1>7. Shown(line) \o <<Return>> \in Seq(T) /\ Plain(Shown(line) \o <<Return>>, NewLine)
  BY <1>5, <1>6, PlainJoint
<1>8. Shown(line) \o Eol = (Shown(line) \o <<Return>>) \o <<NewLine>>
  BY <1>3, <1>5, EolAdded
<1>. QED
  BY <1>2, <1>4, <1>7, <1>8, Zenon

-------------------------------------------------------------------------------
(* A turn of the loop, and the menu.                                       *)

\* A line that ends is added to those that have ended.
LEMMA LineAdded ==
  ASSUME NEW T, NewLine \in T, NEW s \in Seq(T), NEW x \in Seq(T), Plain(x, NewLine),
         Part(s, NewLine, Count(s, NewLine) + 1) = <<>>
  PROVE  LET t == s \o (x \o <<NewLine>>) IN
         /\ t \in Seq(T) /\ Count(s, NewLine) \in Nat
         /\ Count(t, NewLine) = Count(s, NewLine) + 1
         /\ \A k \in 1..Count(s, NewLine) : Part(t, NewLine, k) = Part(s, NewLine, k)
         /\ Part(t, NewLine, Count(s, NewLine) + 1) = x
         /\ Part(t, NewLine, Count(s, NewLine) + 2) = <<>>
<1>1. <<NewLine>> \in Seq(T)
  OBVIOUS
<1>2. s \o (x \o <<NewLine>>) = (s \o x) \o <<NewLine>>
  BY <1>1, JoinAssoc
<1>. DEFINE u == s \o x
            t == u \o <<NewLine>>
<1>3. u \in Seq(T) /\ Joins(u, s, x)
  BY ConcatJoins
<1>. HIDE DEF u
<1>4. t \in Seq(T) /\ Joins(t, u, <<NewLine>>)
  BY <1>1, <1>3, ConcatJoins
<1>. HIDE DEF t
<1>5. /\ Count(s, NewLine) \in Nat
      /\ Count(t, NewLine) = Count(s, NewLine) + 1
      /\ \A k \in 1..Count(s, NewLine) : Part(t, NewLine, k) = Part(s, NewLine, k)
      /\ Part(t, NewLine, Count(s, NewLine) + 1) = x
      /\ Part(t, NewLine, Count(s, NewLine) + 2) = <<>>
  BY <1>3, <1>4, PartAdded
<1>6. s \o (x \o <<NewLine>>) = t
  BY <1>2 DEF t, u
<1>. QED
  BY <1>4, <1>5, <1>6

\* getline's line has no newline but the last character, which is cut off.
LEMMA GetlinePlain ==
  ASSUME NEW T, content \in Seq(T), pos \in 0..Len(content), Rest # <<>>
  PROVE  Plain(Chopped(Getline), NewLine)
<1>1. PICK rest : rest = Rest
  OBVIOUS
<1>2. rest \in Seq(T) /\ Len(rest) \in Nat \ {0}
  BY <1>1 DEF Rest
<1>3. CASE Occurrences(rest, NewLine) = {}
  <2>1. Chopped(Getline) = SubSeq(rest, 1, Len(rest) - 1)
    BY <1>1, <1>3 DEF Getline, Chopped
  <2>2. \A i \in 1..Len(rest) : rest[i] # NewLine
    BY <1>2, <1>3 DEF Occurrences
  <2>3. \A i \in DOMAIN SubSeq(rest, 1, Len(rest) - 1) :
          i \in 1..Len(rest) /\ SubSeq(rest, 1, Len(rest) - 1)[i] = rest[i]
    BY <1>2
  <2>. QED
    BY <2>1, <2>2, <2>3 DEF Plain
<1>4. CASE Occurrences(rest, NewLine) # {}
  <2>1. 1 \in 1..Len(rest) /\ \E j \in 1..Len(rest) : rest[j] = NewLine
    BY <1>2, <1>4 DEF Occurrences
  <2>2. PICK m : m = Memchr(rest, NewLine)[1]
    OBVIOUS
  <2>3. m \in 1..Len(rest) /\ \A k \in 1..(m - 1) : rest[k] # NewLine
    BY <1>2, <2>1, <2>2, MemchrFinds
  <2>4. Getline = SubSeq(rest, 1, m)
    BY <1>1, <1>4, <2>2 DEF Getline
  <2>5. PICK g : g = SubSeq(rest, 1, m)
    OBVIOUS
  <2>6. g \in Seq(T) /\ Len(g) = m /\ \A i \in 1..m : g[i] = rest[i]
    BY <1>2, <2>3, <2>5
  <2>7. PICK h : h = SubSeq(g, 1, m - 1)
    OBVIOUS
  <2>8. DOMAIN h = 1..(m - 1) /\ \A i \in 1..(m - 1) : h[i] = g[i] /\ i \in 1..m
    BY <2>3, <2>6, <2>7
  <2>9. Chopped(Getline) = h
    BY <2>4, <2>5, <2>6, <2>7 DEF Chopped
  <2>. QED
    BY <2>3, <2>6, <2>8, <2>9 DEF Plain
<1>. QED
  BY <1>3, <1>4

\* parse_line adds a line to the menu, or throws.
LEMMA MenuParse ==
  ASSUME Inv, LinesPlain, MenuSoFar, PlainHost, phase = "reading",
         NEW line \in Seq(Chars), Plain(line, NewLine), Parse(line),
         UNCHANGED <<content, callbacks>>
  PROVE  LinesPlain' /\ MenuSoFar'
<1>1. /\ lines \in Seq(Seq(Chars)) /\ lines' = Append(lines, line)
      /\ Chars' = Chars /\ MenuChars' = MenuChars /\ (MakesMenu' <=> MakesMenu)
  BY DEF Inv, Parse, Chars, MenuChars, Signs, MakesMenu
<1>. DEFINE N == Len(lines) + 1
            f == Tokenize(line, Tab)
<1>2. /\ Len(lines) \in Nat /\ Len(lines') = N /\ DOMAIN lines = 1..Len(lines)
      /\ DOMAIN lines' = 1..N
      /\ \A n \in 1..N : n # N => n \in 1..Len(lines) /\ lines'[n] = lines[n]
      /\ lines'[N] = line
  BY <1>1
<1>3. LinesPlain'
  <2>. SUFFICES ASSUME NEW n \in 1..N PROVE Plain(lines'[n], NewLine)
    BY <1>2 DEF LinesPlain
  <2>. QED
    BY <1>2 DEF LinesPlain
<1>. HIDE DEF f
<1>4. CASE LineKind(f) = "badport"
  <2>1. phase' = "thrown"
    BY <1>4 DEF Parse, f
  <2>. QED
    BY <1>3, <2>1 DEF MenuSoFar
<1>5. CASE ~ MakesMenu
  BY <1>1, <1>3, <1>5 DEF MenuSoFar
<1>6. CASE LineKind(f) # "badport" /\ MakesMenu
  <2>1. menu' = menu \o ItemLine(line, f) /\ phase' = "reading"
    BY <1>6, Zenon DEF Parse, f
  <2>2. /\ \A n \in 1..Len(lines) : LineKind(Tokenize(lines[n], Tab)) # "badport"
        /\ menu \in Seq(MenuChars)
        /\ Count(menu, NewLine) = Len(lines)
        /\ Part(menu, NewLine, Count(menu, NewLine) + 1) = <<>>
        /\ \A n \in 1..Len(lines) : Part(menu, NewLine, n) = Shown(lines[n]) \o <<Return>>
    <3>1. MakesMenu /\ phase # "thrown" /\ phase # "done"
      BY <1>6
    <3>2. /\ \A n \in DOMAIN lines : LineKind(Tokenize(lines[n], Tab)) # "badport"
          /\ menu \in Seq(MenuChars)
          /\ Count(menu, NewLine) = Len(lines) + 0
          /\ Part(menu, NewLine, Count(menu, NewLine) + 1) = <<>>
          /\ \A n \in DOMAIN lines : Part(menu, NewLine, n) = Shown(lines[n]) \o <<Return>>
      BY <3>1 DEF MenuSoFar, MenuLine
    <3>. QED
      BY <1>2, <3>2
  <2>3. PICK T : T = MenuChars
    OBVIOUS
  <2>4. Signs \subseteq T /\ line \in Seq(T) /\ NewLine \in T
    <3>1. Chars \subseteq T /\ Signs \subseteq T
      BY <2>3 DEF MenuChars
    <3>. QED
      BY <3>1 DEF Signs
  <2>5. PICK x : x = Shown(line) \o <<Return>>
    OBVIOUS
  <2>6. x \in Seq(T) /\ Plain(x, NewLine) /\ ItemLine(line, f) = x \o <<NewLine>>
    BY <1>6, <2>4, <2>5, ShownIs DEF f
  <2>7. /\ menu' \in Seq(T)
        /\ Count(menu', NewLine) = Count(menu, NewLine) + 1
        /\ \A k \in 1..Count(menu, NewLine) : Part(menu', NewLine, k) = Part(menu, NewLine, k)
        /\ Part(menu', NewLine, Count(menu, NewLine) + 1) = x
        /\ Part(menu', NewLine, Count(menu, NewLine) + 2) = <<>>
    <3>1. menu' = menu \o (x \o <<NewLine>>)
      BY <2>1, <2>6, Zenon
    <3>2. menu \in Seq(T)
      BY <2>2, <2>3
    <3>3. LET t == menu \o (x \o <<NewLine>>) IN
          /\ t \in Seq(T) /\ Count(menu, NewLine) \in Nat
          /\ Count(t, NewLine) = Count(menu, NewLine) + 1
          /\ \A k \in 1..Count(menu, NewLine) : Part(t, NewLine, k) = Part(menu, NewLine, k)
          /\ Part(t, NewLine, Count(menu, NewLine) + 1) = x
          /\ Part(t, NewLine, Count(menu, NewLine) + 2) = <<>>
      BY <2>2, <2>4, <2>6, <3>2, LineAdded
    <3>. QED
      BY <3>1, <3>3
  <2>8. /\ menu' \in Seq(MenuChars)
        /\ Count(menu', NewLine) = N
        /\ Part(menu', NewLine, N + 1) = <<>>
        /\ Part(menu', NewLine, N) = x
        /\ \A n \in 1..Len(lines) : Part(menu', NewLine, n) = Shown(lines[n]) \o <<Return>>
    <3>1. N + 1 = Len(lines) + 2
      BY <1>2
    <3>. QED
      BY <2>2, <2>3, <2>7, <3>1
  <2>9. ASSUME NEW n \in 1..N
        PROVE  /\ LineKind(Tokenize(lines'[n], Tab)) # "badport"
               /\ Part(menu', NewLine, n) = Shown(lines'[n]) \o <<Return>>
    <3>1. CASE n = N
      BY <1>2, <1>6, <2>5, <2>8, <3>1 DEF f
    <3>2. CASE n # N
      BY <1>2, <2>2, <2>8, <3>2
    <3>. QED
      BY <3>1, <3>2
  <2>10. /\ \A n \in DOMAIN lines' : LineKind(Tokenize(lines'[n], Tab)) # "badport"
         /\ \A n \in DOMAIN lines' : MenuLine(n)' = Shown(lines'[n]) \o <<Return>>
    BY <1>2, <2>9 DEF MenuLine
  <2>11. phase' # "done" /\ Len(lines') + 0 = N
    BY <1>2, <2>1
  <2>12. MenuSoFar'
    BY <1>1, <1>2, <2>1, <2>8, <2>10, <2>11 DEF MenuSoFar
  <2>. QED
    BY <1>3, <2>12
<1>. QED
  BY <1>4, <1>5, <1>6

\* No line and no menu yet.
LEMMA MenuInit == Init => LinesPlain /\ MenuSoFar
<1>. SUFFICES ASSUME Init PROVE LinesPlain /\ MenuSoFar
  OBVIOUS
<1>1. lines = <<>> /\ menu = <<>> /\ phase = "feed"
  BY DEF Init
<1>2. DOMAIN lines = {} /\ Len(lines) = 0 /\ menu \in Seq(MenuChars)
  BY <1>1
<1>3. Plain(menu, NewLine)
  BY <1>1 DEF Plain
<1>4. Count(menu, NewLine) = 0 /\ Part(menu, NewLine, 1) = menu
  BY <1>2, <1>3, PlainPart
<1>5. Part(menu, NewLine, Count(menu, NewLine) + 1) = <<>>
  BY <1>1, <1>4
<1>. QED
  BY <1>1, <1>2, <1>4, <1>5 DEF LinesPlain, MenuSoFar

\* The end of the loop adds the line that ends the menu.
LEMMA MenuEnds ==
  ASSUME Inv, LinesPlain, MenuSoFar, PlainHost, LoopEnds
  PROVE  LinesPlain' /\ MenuSoFar'
<1>1. /\ phase = "reading" /\ phase' = "done" /\ lines' = lines
      /\ menu' = IF MakesMenu THEN menu \o LastLine ELSE menu
      /\ content' = content /\ callbacks' = callbacks
  BY DEF LoopEnds
<1>2. LinesPlain' /\ MenuChars' = MenuChars /\ (MakesMenu' <=> MakesMenu)
  BY <1>1 DEF LinesPlain, Chars, MenuChars, MakesMenu
<1>3. CASE ~ MakesMenu
  BY <1>2, <1>3 DEF MenuSoFar
<1>4. CASE MakesMenu
  <2>1. /\ \A n \in DOMAIN lines : LineKind(Tokenize(lines[n], Tab)) # "badport"
        /\ menu \in Seq(MenuChars)
        /\ Count(menu, NewLine) = Len(lines) + 0
        /\ Part(menu, NewLine, Count(menu, NewLine) + 1) = <<>>
        /\ \A n \in DOMAIN lines : Part(menu, NewLine, n) = Shown(lines[n]) \o <<Return>>
    <3>1. MakesMenu /\ phase # "thrown" /\ phase # "done"
      BY <1>1, <1>4
    <3>. QED
      BY <3>1 DEF MenuSoFar, MenuLine
  <2>2. Len(lines) \in Nat /\ DOMAIN lines = 1..Len(lines)
    BY DEF Inv
  <2>3. PICK T : T = MenuChars
    OBVIOUS
  <2>4. NewLine \in T /\ Return \in T /\ "." \in T /\ NewLine # Return /\ NewLine # "."
    BY <2>3, CharsApart DEF MenuChars, Signs
  <2>5. PICK x : x = <<".", Return>>
    OBVIOUS
  <2>6. x \in Seq(T) /\ Plain(x, NewLine)
    BY <2>4, <2>5 DEF Plain
  <2>7. LastLine = x \o <<NewLine>>
    <3>1. <<".">> \in Seq(T)
      BY <2>4
    <3>2. <<".">> \o Eol = (<<".">> \o <<Return>>) \o <<NewLine>>
      BY <2>4, <3>1, EolAdded
    <3>3. <<".">> \o <<Return>> = <<".", Return>>
      BY Spelt
    <3>. QED
      BY <2>5, <3>2, <3>3, Zenon DEF LastLine
  <2>8. menu' = menu \o (x \o <<NewLine>>)
    BY <1>1, <1>4, <2>7, Zenon
  <2>9. LET t == menu \o (x \o <<NewLine>>) IN
        /\ t \in Seq(T) /\ Count(menu, NewLine) \in Nat
        /\ Count(t, NewLine) = Count(menu, NewLine) + 1
        /\ \A k \in 1..Count(menu, NewLine) : Part(t, NewLine, k) = Part(menu, NewLine, k)
        /\ Part(t, NewLine, Count(menu, NewLine) + 1) = x
        /\ Part(t, NewLine, Count(menu, NewLine) + 2) = <<>>
    <3>1. menu \in Seq(T)
      BY <2>1, <2>3
    <3>. QED
      BY <2>1, <2>4, <2>6, <3>1, LineAdded
  <2>10. /\ menu' \in Seq(T)
         /\ Count(menu', NewLine) = Len(lines) + 1
         /\ \A k \in 1..Len(lines) : Part(menu', NewLine, k) = Part(menu, NewLine, k)
         /\ Part(menu', NewLine, Len(lines) + 1) = x
         /\ Part(menu', NewLine, Len(lines) + 2) = <<>>
    <3>1. PICK t : t = menu \o (x \o <<NewLine>>)
      OBVIOUS
    <3>2. /\ t \in Seq(T) /\ Count(t, NewLine) = Count(menu, NewLine) + 1
          /\ \A k \in 1..Count(menu, NewLine) : Part(t, NewLine, k) = Part(menu, NewLine, k)
          /\ Part(t, NewLine, Count(menu, NewLine) + 1) = x
          /\ Part(t, NewLine, Count(menu, NewLine) + 2) = <<>>
      BY <2>9, <3>1, Zenon
    <3>3. menu' = t /\ Count(menu, NewLine) = Len(lines)
      BY <2>1, <2>2, <2>8, <3>1
    <3>. QED
      BY <2>2, <3>2, <3>3
  <2>11. /\ \A n \in DOMAIN lines' : LineKind(Tokenize(lines'[n], Tab)) # "badport"
         /\ \A n \in DOMAIN lines' : MenuLine(n)' = Shown(lines'[n]) \o <<Return>>
         /\ Part(menu', NewLine, Len(lines') + 1) = <<".", Return>>
         /\ Part(menu', NewLine, Count(menu', NewLine) + 1) = <<>>
         /\ menu' \in Seq(MenuChars')
    <3>1. Count(menu', NewLine) + 1 = Len(lines) + 2
      BY <2>2, <2>10
    <3>. QED
      BY <1>1, <1>2, <2>1, <2>2, <2>3, <2>5, <2>10, <3>1 DEF MenuLine
  <2>12. MenuSoFar'
    BY <1>1, <2>10, <2>11 DEF MenuSoFar, MenuLine
  <2>. QED
    BY <1>2, <2>12
<1>. QED
  BY <1>3, <1>4

\* Every step leaves a menu that reads back so far.
LEMMA MenuStep ==
  ASSUME Inv, LinesPlain, MenuSoFar, PlainHost, [Next]_vars
  PROVE  LinesPlain' /\ MenuSoFar'
<1>1. CASE UNCHANGED vars
  BY <1>1 DEF vars, LinesPlain, MenuSoFar, MenuLine, MenuChars, Chars, MakesMenu
<1>2. CASE Feed
  <2>1. /\ phase = "feed" /\ phase' \in {"reading", "thrown"}
        /\ UNCHANGED <<content, callbacks, lines, menu>>
    BY <1>2 DEF Feed
  <2>. QED
    BY <2>1 DEF LinesPlain, MenuSoFar, MenuLine, MenuChars, Chars, MakesMenu
<1>3. CASE NextLine
  <2>1. /\ phase = "reading" /\ ~ Eof /\ Rest # <<>>
        /\ Parse(Chopped(Getline)) /\ UNCHANGED <<content, callbacks>>
    BY <1>3 DEF NextLine
  <2>2. content \in Seq(Chars) /\ pos \in 0..Len(content) /\ (pos = 0 \/ pos \in Newlines)
    BY <2>1 DEF Inv, LinesCounted
  <2>3. Chopped(Getline) \in Seq(Chars) /\ Plain(Chopped(Getline), NewLine)
    <3>1. PICK T : T = Chars
      OBVIOUS
    <3>. QED
      BY <2>1, <2>2, <3>1, GetlineTakes, GetlinePlain
  <2>4. PICK line : line = Chopped(Getline)
    OBVIOUS
  <2>5. line \in Seq(Chars) /\ Plain(line, NewLine) /\ Parse(line)
    BY <2>1, <2>3, <2>4, Zenon
  <2>. QED
    BY <2>1, <2>5, MenuParse
<1>4. CASE NextNothing
  <2>1. phase = "reading" /\ Parse(<<>>) /\ UNCHANGED <<content, callbacks>>
    BY <1>4 DEF NextNothing
  <2>2. <<>> \in Seq(Chars) /\ Plain(<<>>, NewLine)
    BY DEF Plain
  <2>. QED
    BY <2>1, <2>2, MenuParse
<1>5. CASE NextThrows
  <2>1. phase' = "thrown" /\ lines' = lines
    BY <1>5 DEF NextThrows
  <2>. QED
    BY <2>1 DEF LinesPlain, MenuSoFar
<1>6. CASE LoopEnds
  BY <1>6, MenuEnds
<1>. QED
  BY <1>1, <1>2, <1>3, <1>4, <1>5, <1>6 DEF Next

-------------------------------------------------------------------------------
(* A client cuts the menu.                                                 *)

\* Front and Last take a string apart again.
LEMMA LastOfJoint ==
  ASSUME NEW T, NEW s \in Seq(T), NEW c \in T
  PROVE  Seqs!Last(s \o <<c>>) = c /\ Seqs!Front(s \o <<c>>) = s
<1>1. <<c>> \in Seq(T)
  OBVIOUS
<1>2. PICK t : t = s \o <<c>>
  OBVIOUS
<1>3. t \in Seq(T) /\ Joins(t, s, <<c>>)
  BY <1>1, <1>2, ConcatJoins
<1>4. Len(s) \in Nat /\ Len(t) = Len(s) + 1 /\ t[Len(s) + 1] = c /\ \A i \in 1..Len(s) : t[i] = s[i]
  BY <1>3 DEF Joins
<1>5. SubSeq(t, 1, Len(t) - 1) = s
  <2>1. PICK u : u = SubSeq(t, 1, Len(s))
    OBVIOUS
  <2>2. u \in Seq(T) /\ Len(u) = Len(s) /\ \A i \in 1..Len(s) : u[i] = s[i]
    BY <1>3, <1>4, <2>1
  <2>3. u = s
    BY <2>2
  <2>. QED
    BY <1>4, <2>1, <2>3
<1>. QED
  BY <1>2, <1>4, <1>5 DEF Seqs!Last, Seqs!Front

\* What a client makes of the lines of the menu.
LEMMA MenuRead ==
  ASSUME Inv, LinesPlain, MenuSoFar, PlainHost
  PROVE  MenuReadsBack
<1>. SUFFICES ASSUME phase = "done", MakesMenu PROVE
       /\ Cardinality(Occurrences(menu, NewLine)) = Len(lines) + 1
       /\ \A n \in 1..(Len(lines) + 1) :
            /\ Seqs!Last(MenuLine(n)) = Return
            /\ Seqs!Front(MenuLine(n)) = <<".">> <=> n = Len(lines) + 1
       /\ \A n \in DOMAIN lines :
            \/ /\ Occurrences(lines[n], Tab) # {}
               /\ \E c \in got : c.line = n /\ c.kind = "text"
            \/ /\ 1 + Cardinality(Occurrences(MenuLine(n), Tab)) = 4
               /\ Item(n) = <<MenuField(n, 1), MenuField(n, 2), MenuField(n, 3),
                              Stoll(MenuField(n, 4))>>
  BY DEF MenuReadsBack
<1>1. /\ \A n \in DOMAIN lines : LineKind(Tokenize(lines[n], Tab)) # "badport"
      /\ Count(menu, NewLine) = Len(lines) + 1
      /\ \A n \in DOMAIN lines : MenuLine(n) = Shown(lines[n]) \o <<Return>>
      /\ MenuLine(Len(lines) + 1) = <<".", Return>>
  BY DEF MenuSoFar
<1>2. PICK T : T = MenuChars
  OBVIOUS
<1>3. Signs \subseteq T /\ Chars \subseteq T
  BY <1>2 DEF MenuChars
<1>4. /\ lines \in Seq(Seq(Chars)) /\ Len(lines) \in Nat /\ DOMAIN lines = 1..Len(lines)
      /\ \A n \in DOMAIN lines : lines[n] \in Seq(Chars) /\ Plain(lines[n], NewLine)
  BY DEF Inv, LinesPlain
<1>5. /\ NewLine \in T /\ Tab \in T /\ Return \in T /\ "." \in T
      /\ NewLine # Tab /\ Tab # Return
  BY <1>3, CharsApart DEF Signs
<1>6. ASSUME NEW n \in DOMAIN lines
      PROVE  \E a, b, c, d : /\ Cut(T, lines[n], a, b, c, d)
                             /\ Shown(lines[n]) = Four(Tab, a, b, c, d)
                             /\ Shown(lines[n]) \in Seq(T)
                             /\ Len(Shown(lines[n])) >= 3
  <2>1. lines[n] \in Seq(T) /\ Plain(lines[n], NewLine)
    BY <1>3, <1>4
  <2>2. PICK a, b, c, d : Cut(T, lines[n], a, b, c, d)
    BY <1>1, <1>3, <2>1, LineCut
  <2>3. /\ a \in Seq(T) /\ b \in Seq(T) /\ c \in Seq(T) /\ d \in Seq(T)
        /\ Plain(a, NewLine) /\ Plain(b, NewLine) /\ Plain(c, NewLine) /\ Plain(d, NewLine)
        /\ Fields(lines[n]) = <<a, b, c, d>>
    BY <2>2, Zenon DEF Cut
  <2>4. Shown(lines[n]) = Four(Tab, a, b, c, d)
    BY <2>3 DEF Shown
  <2>5. Four(Tab, a, b, c, d) \in Seq(T) /\ Len(Four(Tab, a, b, c, d)) >= 3
    BY <1>5, <2>3, FourPlain
  <2>6. Shown(lines[n]) \in Seq(T) /\ Len(Shown(lines[n])) >= 3
    BY <2>4, <2>5, Zenon
  <2>. QED
    BY <2>2, <2>4, <2>6, Zenon
<1>7. ASSUME NEW n \in DOMAIN lines
      PROVE  Seqs!Last(MenuLine(n)) = Return /\ Seqs!Front(MenuLine(n)) = Shown(lines[n])
  <2>1. Shown(lines[n]) \in Seq(T)
    BY <1>6
  <2>2. /\ Seqs!Last(Shown(lines[n]) \o <<Return>>) = Return
        /\ Seqs!Front(Shown(lines[n]) \o <<Return>>) = Shown(lines[n])
    BY <1>5, <2>1, LastOfJoint
  <2>. QED
    BY <1>1, <2>2, Zenon
<1>8. ASSUME NEW n \in 1..(Len(lines) + 1)
      PROVE  /\ Seqs!Last(MenuLine(n)) = Return
             /\ Seqs!Front(MenuLine(n)) = <<".">> <=> n = Len(lines) + 1
  <2>1. CASE n = Len(lines) + 1
    <3>1. <<".">> \o <<Return>> = <<".", Return>>
      BY Spelt
    <3>2. <<".">> \in Seq(T)
      BY <1>5
    <3>3. Seqs!Last(<<".">> \o <<Return>>) = Return /\ Seqs!Front(<<".">> \o <<Return>>) = <<".">>
      BY <1>5, <3>2, LastOfJoint
    <3>4. MenuLine(n) = <<".">> \o <<Return>>
      BY <1>1, <2>1, <3>1, Zenon
    <3>. QED
      BY <2>1, <3>3, <3>4, Zenon
  <2>2. CASE n # Len(lines) + 1
    <3>1. n \in DOMAIN lines
      BY <1>4, <2>2
    <3>2. Len(Shown(lines[n])) >= 3
      BY <1>6, <3>1
    <3>3. Shown(lines[n]) # <<".">>
      <4>1. ~ (Len(<<".">>) >= 3)
        OBVIOUS
      <4>. QED
        BY <3>2, <4>1, Zenon
    <3>. QED
      BY <1>7, <2>2, <3>1, <3>3
  <2>. QED
    BY <2>1, <2>2
<1>9. ASSUME NEW n \in DOMAIN lines
      PROVE  \/ /\ Occurrences(lines[n], Tab) # {}
                /\ \E c \in got : c.line = n /\ c.kind = "text"
             \/ /\ 1 + Cardinality(Occurrences(MenuLine(n), Tab)) = 4
                /\ Item(n) = <<MenuField(n, 1), MenuField(n, 2), MenuField(n, 3),
                               Stoll(MenuField(n, 4))>>
  <2>. DEFINE kind == LineKind(Tokenize(lines[n], Tab))
  <2>1. \E c \in got : c.line = n /\ c.kind = kind
    <3>1. kind \in callbacks
      <4>1. kind \in Kinds /\ callbacks = Kinds
        BY <1>1, <1>9, LineKinds, LoopsPass DEF Inv, Kinds
      <4>. QED
        BY <4>1
    <3>2. Call(n, Tokenize(lines[n], Tab)) \in got
      BY <3>1 DEF Inv, Reported, Reports
    <3>. QED
      BY <3>2 DEF Call
  <2>2. \A c \in got : c.line = n => c.kind = kind
    <3>. SUFFICES ASSUME NEW c \in got, c.line = n PROVE c.kind = kind
      OBVIOUS
    <3>1. PICK m \in DOMAIN lines : c = Call(m, Tokenize(lines[m], Tab))
      BY DEF Inv, Reported, Reports
    <3>2. c.line = m /\ c.kind = LineKind(Tokenize(lines[m], Tab))
      BY <3>1 DEF Call
    <3>. QED
      BY <3>2
  <2>3. (CHOOSE c \in got : c.line = n).kind = kind
    BY <2>1, <2>2
  <2>. HIDE DEF kind
  <2>4. Item(n) = Found(lines[n], kind)
    BY <2>3, Zenon DEF Item, Found
  <2>5. PICK a, b, c, d : /\ Cut(T, lines[n], a, b, c, d)
                          /\ Shown(lines[n]) = Four(Tab, a, b, c, d)
                          /\ Shown(lines[n]) \in Seq(T)
    BY <1>6
  <2>6. /\ a \in Seq(T) /\ b \in Seq(T) /\ c \in Seq(T) /\ d \in Seq(T)
        /\ Plain(b, Tab) /\ Plain(c, Tab) /\ Plain(d, Tab)
        /\ Plain(a, Tab) \/ (kind = "text" /\ ~ Plain(lines[n], Tab))
        /\ Found(lines[n], kind) = <<a, b, c, Stoll(d)>>
    BY <2>5, Zenon DEF Cut, kind
  <2>7. CASE kind = "text" /\ ~ Plain(lines[n], Tab)
    <3>1. Occurrences(lines[n], Tab) # {}
      BY <2>7 DEF Plain, Occurrences
    <3>. QED
      BY <2>1, <2>7, <3>1
  <2>8. CASE Plain(a, Tab)
    <3>1. PICK s : s = Shown(lines[n])
      OBVIOUS
    <3>2. /\ s \in Seq(T) /\ Count(s, Tab) = 3
          /\ Part(s, Tab, 1) = a /\ Part(s, Tab, 2) = b
          /\ Part(s, Tab, 3) = c /\ Part(s, Tab, 4) = d
      <4>1. /\ Count(Four(Tab, a, b, c, d), Tab) = 3
            /\ Part(Four(Tab, a, b, c, d), Tab, 1) = a /\ Part(Four(Tab, a, b, c, d), Tab, 2) = b
            /\ Part(Four(Tab, a, b, c, d), Tab, 3) = c /\ Part(Four(Tab, a, b, c, d), Tab, 4) = d
        BY <1>5, <2>6, <2>8, FourParts
      <4>. QED
        BY <2>5, <3>1, <4>1, Zenon
    <3>3. Count(s \o <<Return>>, Tab) = 3
      <4>1. <<Return>> \in Seq(T) /\ Plain(<<Return>>, Tab)
        BY <1>5 DEF Plain
      <4>2. PICK u : u = s \o <<Return>>
        OBVIOUS
      <4>3. u \in Seq(T) /\ Joins(u, s, <<Return>>)
        BY <3>2, <4>1, <4>2, ConcatJoins
      <4>4. Count(u, Tab) = Count(s, Tab)
        BY <3>2, <4>1, <4>3, CountStays
      <4>. QED
        BY <3>2, <4>2, <4>4
    <3>4. 1 + Cardinality(Occurrences(MenuLine(n), Tab)) = 4
      <4>1. MenuLine(n) = s \o <<Return>>
        BY <1>1, <3>1, Zenon
      <4>2. Cardinality(Occurrences(MenuLine(n), Tab)) = 3
        BY <3>3, <4>1, Zenon DEF Count
      <4>. QED
        BY <4>2
    <3>5. \A k : MenuField(n, k) = Part(s, Tab, k)
      BY <1>7, <3>1, Zenon DEF MenuField
    <3>6. <<MenuField(n, 1), MenuField(n, 2), MenuField(n, 3), Stoll(MenuField(n, 4))>>
            = <<a, b, c, Stoll(d)>>
      BY <3>2, <3>5
    <3>. QED
      BY <2>4, <2>6, <3>4, <3>6, Zenon
  <2>. QED
    BY <2>6, <2>7, <2>8
<1>. QED
  BY <1>1, <1>8, <1>9 DEF Count

-------------------------------------------------------------------------------
(* The turns of the loop.                                                  *)

\* How many steps the loop can still take.
StepsLeft == CASE phase = "feed" -> Cardinality(Newlines) + 3
               [] phase = "reading" -> Cardinality(Newlines) + 2 - Len(lines)
               [] OTHER -> 0

\* The bound on the lines leaves next() its last one.
BoundNotMet == phase = "reading" /\ ~ Eof => Len(lines) < MaxLines

\* There is never less than none left, and one as long as the loop reads.
LEMMA StepsLeftType ==
  ASSUME Inv
  PROVE  StepsLeft \in Nat /\ (phase = "reading" => StepsLeft > 0) /\ BoundNotMet
<1>1. /\ Cardinality(Newlines) \in Nat /\ Cardinality(Newlines) + 2 <= MaxLines /\ MaxLines \in Nat
      /\ Cardinality(UpTo(Newlines, pos)) \in Nat
      /\ Cardinality(UpTo(Newlines, pos)) <= Cardinality(Newlines)
      /\ Len(lines) \in Nat
  BY NewlinesType DEF Inv
<1>2. phase = "reading" => Len(lines) <= Cardinality(Newlines) + 1
  BY <1>1 DEF Inv, LinesCounted, AllLinesRead
<1>3. BoundNotMet
  BY <1>1 DEF Inv, LinesCounted, BoundNotMet
<1>4. CASE phase = "feed"
  BY <1>1, <1>3, <1>4 DEF StepsLeft
<1>5. CASE phase = "reading"
  BY <1>1, <1>2, <1>3, <1>5 DEF StepsLeft
<1>6. CASE phase \notin {"feed", "reading"}
  BY <1>3, <1>6 DEF StepsLeft
<1>. QED
  BY <1>4, <1>5, <1>6

\* Every step takes one.
LEMMA StepTakesOne ==
  ASSUME Inv, Inv', Next
  PROVE  StepsLeft' < StepsLeft
<1>1. /\ StepsLeft \in Nat /\ (phase = "reading" => StepsLeft > 0)
      /\ Cardinality(Newlines) \in Nat /\ Len(lines) \in Nat
  BY StepsLeftType, NewlinesType DEF Inv
<1>2. Newlines' = Newlines
  <2>1. content' = content
    BY DEF Next, Feed, NextLine, NextNothing, NextThrows, LoopEnds
  <2>. QED
    BY <2>1 DEF Newlines
<1>3. CASE phase = "feed"
  <2>1. phase' \in {"reading", "thrown"} /\ lines' = lines /\ lines = <<>>
    BY <1>3 DEF Inv, NothingYet, Next, Feed, NextLine, NextNothing, NextThrows, LoopEnds
  <2>2. StepsLeft = Cardinality(Newlines) + 3
    BY <1>3 DEF StepsLeft
  <2>3. Len(lines') = 0
    BY <2>1
  <2>4. phase' = "reading" => StepsLeft' = Cardinality(Newlines) + 2 - 0
    BY <1>2, <2>3 DEF StepsLeft
  <2>5. phase' = "thrown" => StepsLeft' = 0
    BY DEF StepsLeft
  <2>. QED
    BY <1>1, <2>1, <2>2, <2>4, <2>5
<1>4. CASE phase = "reading"
  <2>1. \/ phase' \in {"done", "thrown"}
        \/ phase' = "reading" /\ \E line : lines' = Append(lines, line)
    BY <1>4, Zenon DEF Next, Feed, NextLine, NextNothing, NextThrows, LoopEnds, Parse
  <2>2. phase' \in {"done", "thrown"} => StepsLeft' = 0
    BY DEF StepsLeft
  <2>3. ASSUME phase' = "reading", NEW line, lines' = Append(lines, line)
        PROVE  StepsLeft' < StepsLeft
    <3>1. Len(lines') = Len(lines) + 1
      BY <2>3 DEF Inv
    <3>2. /\ StepsLeft' = Cardinality(Newlines) + 2 - Len(lines')
          /\ StepsLeft = Cardinality(Newlines) + 2 - Len(lines)
      BY <1>2, <1>4, <2>3 DEF StepsLeft
    <3>. QED
      BY <1>1, <3>1, <3>2
  <2>. QED
    BY <1>1, <1>4, <2>1, <2>2, <2>3
<1>5. phase \in {"feed", "reading"}
  BY DEF Next, Feed, NextLine, NextNothing, NextThrows, LoopEnds
<1>. QED
  BY <1>3, <1>4, <1>5

-------------------------------------------------------------------------------
(* The theorems.                                                           *)

\* The callbacks made are about the lines read, are among those the loop
\* passes, and carry ports; the loop reads no more lines than the file allows.
THEOREM TextTypeCorrect == Spec => []TypeOK
<1>1. Inv => TypeOK
  <2>. SUFFICES ASSUME Inv PROVE TypeOK
    OBVIOUS
  <2>1. PICK T : lines \in Seq(Seq(T))
    BY DEF Inv
  <2>2. callbacks \subseteq Kinds
    BY LoopsPass DEF Inv
  <2>3. ASSUME NEW c \in got
        PROVE  c.line \in DOMAIN lines /\ c.kind \in Kinds \cap callbacks /\ c.port \in 0..MaxPort
    <3>1. PICK n \in DOMAIN lines : /\ LineKind(Tokenize(lines[n], Tab)) \in callbacks
                                    /\ c = Call(n, Tokenize(lines[n], Tab))
      BY DEF Inv, Reported, Reports
    <3>2. lines[n] \in Seq(T)
      BY <2>1
    <3>3. c.port \in 0..MaxPort
      BY <3>1, <3>2, CallPort
    <3>4. c.line = n /\ c.kind = LineKind(Tokenize(lines[n], Tab))
      BY <3>1 DEF Call
    <3>. QED
      BY <2>2, <3>1, <3>3, <3>4
  <2>. QED
    BY <2>3 DEF Inv, TypeOK
<1>. QED
  BY <1>1, InvAlways, PTL

\* Reader gives the loop every line of the file that a newline ends, whole,
\* without the newline, and in order.
THEOREM TextEndedLinesIntact == Spec => []EndedLinesIntact
<1>1. Inv => EndedLinesIntact
  BY DEF Inv
<1>. QED
  BY <1>1, InvAlways, PTL

\* strto and parse_line never pass on another port than the one written.
THEOREM TextPortsAsWritten == Spec => []PortsAsWritten
<1>1. Inv => PortsAsWritten
  <2>. SUFFICES ASSUME Inv, NEW c \in got, c.kind = "remote",
                       Len(Tokenize(lines[c.line], Tab)) = 4
                PROVE  c.port = Stoll(Tokenize(lines[c.line], Tab)[4])
    BY DEF PortsAsWritten
  <2>1. PICK T : lines \in Seq(Seq(T))
    BY DEF Inv
  <2>2. PICK n \in DOMAIN lines : c = Call(n, Tokenize(lines[n], Tab))
    BY DEF Inv, Reported, Reports
  <2>3. lines[n] \in Seq(T)
    BY <2>1
  <2>4. c.line = n /\ c.kind = LineKind(Tokenize(lines[n], Tab))
    BY <2>2 DEF Call
  <2>. QED
    BY <2>2, <2>3, <2>4, CallPort
<1>. QED
  BY <1>1, InvAlways, PTL

\* The loop that runs to the end reports the links of the file, all of them and
\* nothing else.
THEOREM TextLinksReported == Spec => []LinksReported
<1>1. Inv => LinksReported
  <2>. SUFFICES ASSUME Inv, phase = "done"
                PROVE  {<<c.line, c.selector>> :
                          c \in {c \in got : c.kind = "local" /\ c.line <= Cardinality(Newlines)}}
                         = WrittenLinks
    BY DEF LinksReported
  <2>. DEFINE count == Cardinality(Newlines)
              calls == {c \in got : c.kind = "local" /\ c.line <= count}
  <2>1. /\ count \in Nat /\ Len(lines) = count + 1 /\ DOMAIN lines = 1..(count + 1)
        /\ lines \in Seq(Seq(Chars)) /\ "local" \in callbacks
    BY NewlinesType, LoopsPass DEF Inv, AllLinesRead
  <2>2. PICK T : lines \in Seq(Seq(T))
    BY <2>1
  <2>3. \A n \in 1..count : n \in DOMAIN lines /\ n <= count
    BY <2>1
  <2>4. \A n \in DOMAIN lines : n <= count => n \in 1..count
    BY <2>1
  <2>5. \A n \in 1..count : lines[n] = Written(n) /\ lines[n] \in Seq(T)
    <3>1. \A n \in DOMAIN lines : n <= count => lines[n] = Written(n)
      BY DEF Inv, EndedLinesIntact
    <3>2. \A n \in DOMAIN lines : lines[n] \in Seq(T)
      BY <2>2
    <3>. HIDE DEF count
    <3>. QED
      BY <2>3, <3>1, <3>2, Zenon
  <2>. HIDE DEF count
  <2>6. \A c : c \in got <=>
          \E n \in DOMAIN lines : /\ LineKind(Tokenize(lines[n], Tab)) \in callbacks
                                  /\ c = Call(n, Tokenize(lines[n], Tab))
    BY Zenon DEF Inv, Reported, Reports
  <2>7. \A n, f : /\ Call(n, f).line = n /\ Call(n, f).kind = LineKind(f)
                  /\ LineKind(f) = "local" => Call(n, f).selector = f[2]
    BY DEF Call
  <2>8. ASSUME NEW n \in 1..count
        PROVE  /\ LineKind(Tokenize(lines[n], Tab)) = "local" <=> IsLink(Written(n))
               /\ IsLink(Written(n)) => Tokenize(lines[n], Tab)[2] = LinkIn(Written(n))
    BY <2>5, LocalIsLink
  <2>9. ASSUME NEW c \in calls
        PROVE  <<c.line, c.selector>> \in WrittenLinks
    <3>1. PICK n \in DOMAIN lines : c = Call(n, Tokenize(lines[n], Tab))
      BY <2>6
    <3>2. c.line = n /\ LineKind(Tokenize(lines[n], Tab)) = "local" /\ n \in 1..count
      BY <2>4, <2>7, <3>1
    <3>3. IsLink(Written(n)) /\ c.selector = LinkIn(Written(n))
      BY <2>7, <2>8, <3>1, <3>2
    <3>. QED
      BY <3>2, <3>3 DEF WrittenLinks, count
  <2>10. ASSUME NEW n \in 1..count, IsLink(Written(n))
         PROVE  \E c \in calls : <<c.line, c.selector>> = <<n, LinkIn(Written(n))>>
    <3>1. PICK c : c = Call(n, Tokenize(lines[n], Tab))
      OBVIOUS
    <3>2. c.line = n /\ c.kind = "local" /\ c.selector = LinkIn(Written(n))
      BY <2>7, <2>8, <2>10, <3>1
    <3>3. c \in got
      BY <2>1, <2>3, <2>6, <2>8, <2>10, <3>1
    <3>. QED
      BY <2>3, <3>2, <3>3
  <2>. HIDE DEF calls
  <2>11. \A w : w \in {<<c.line, c.selector>> : c \in calls} <=>
                  \E c \in calls : w = <<c.line, c.selector>>
    OBVIOUS
  <2>12. \A w : w \in WrittenLinks <=>
                  \E n \in 1..count : IsLink(Written(n)) /\ w = <<n, LinkIn(Written(n))>>
    BY DEF WrittenLinks, count
  <2>13. {<<c.line, c.selector>> : c \in calls} = WrittenLinks
    <3>1. \A w : w \in {<<c.line, c.selector>> : c \in calls} <=> w \in WrittenLinks
      BY <2>9, <2>10, <2>11, <2>12
    <3>. QED
      BY <3>1
  <2>. QED
    BY <2>13 DEF calls, count
<1>. QED
  BY <1>1, InvAlways, PTL

\* A client that cuts the menu at its newlines and tabs gets back the links,
\* hosts and ports of the gophermap, and no text ends the menu early: for
\* every file, if the name of the host is text without tabs and newlines.
THEOREM TextMenuReadsBack ==
  ASSUME PlainHost
  PROVE  Spec => []MenuReadsBack
<1>1. Init => LinesPlain /\ MenuSoFar
  BY MenuInit
<1>2. Inv /\ LinesPlain /\ MenuSoFar /\ [Next]_vars => LinesPlain' /\ MenuSoFar'
  BY MenuStep
<1>3. Inv /\ LinesPlain /\ MenuSoFar => MenuReadsBack
  BY MenuRead
<1>. QED
  BY <1>1, <1>2, <1>3, InvAlways, PTL DEF Spec

\* The loop comes to an end within a number of steps that the file gives, one
\* more than it has lines and one to open it: next() neither reads a line twice
\* nor hands out empty ones for ever, and MaxLines is never what stops it.
THEOREM TextLoopEnds ==
  Spec => /\ [](StepsLeft \in Nat /\ BoundNotMet)
          /\ [][StepsLeft' < StepsLeft]_vars
<1>1. Inv => StepsLeft \in Nat /\ BoundNotMet
  BY StepsLeftType
<1>2. Inv /\ Inv' /\ [Next]_vars => [StepsLeft' < StepsLeft]_vars
  BY StepTakesOne
<1>. QED
  BY <1>1, <1>2, InvAlways, PTL DEF Spec
===============================================================================
