----------------------------- MODULE GophermapText -----------------------------
(***************************************************************************)
(* Reading a gophermap: util::Reader (src/src/util/fileread.cc) gives the  *)
(* lines of the file to Parser::parse_line (src/src/map_parser.cc), which  *)
(* cuts them with tokenize and reads ports with strto (src/src/util/str.h) *)
(* and calls back.  The two loops of the program that do this are          *)
(* Loader::scan and NodeGopherMap::make_writer; they differ in which       *)
(* callbacks they pass.                                                    *)
(*                                                                         *)
(* One action is one turn of the loop.  GopherMap takes over from here     *)
(* with lines as sequences of fields.                                      *)
(***************************************************************************)
EXTENDS MenuWriter, ParseLine
Seqs == INSTANCE SequencesExt

CONSTANTS
  Contents,       \* the files read, as sequences of characters
  Loops,          \* the callbacks each loop of the program passes
  VirtualPath,    \* what virtual_path_of answers
  SelfHost, SelfPort, \* settings.self
  MaxLines,       \* bound: more lines than a file of Contents has
  ReadFails       \* whether getline may fail

ASSUME ContentsAssumption ==
  /\ MaxLines \in Nat
  /\ \A c \in Contents : /\ c \in Seq({c[i] : i \in DOMAIN c})
                         /\ Cardinality(Occurrences(c, NewLine)) + 2 <= MaxLines
\* A port, and what define() makes of a number of paths.
ASSUME SelfAssumption == SelfPort \in 0..MaxPort /\ VirtualPath \in Seq(DOMAIN DigitValue)
ASSUME LoopsAssumption == Loops \subseteq {{"local"}, {"local", "remote", "url", "text"}}

VARIABLES
  content,    \* the file
  callbacks,  \* the loop that reads it
  input,      \* Reader::input: "null", or "open"
  pos,        \* how many characters getline has taken
  atEof,      \* feof(input)
  phase,      \* "feed", "reading", "done"; "thrown": an exception left the loop
  lines,      \* history: the lines parse_line was given
  menu,       \* the buffer of the MenuWriter, when the loop has one
  got         \* history: the callbacks made, with the number of the line

vars == <<content, callbacks, input, pos, atEof, phase, lines, menu, got>>

Init == /\ content \in Contents
        /\ callbacks \in Loops
        /\ input = "null"
        /\ pos = 0
        /\ atEof = FALSE
        /\ phase = "feed"
        /\ lines = <<>>
        /\ menu = <<>>
        /\ got = {}

-------------------------------------------------------------------------------
(* Parser::parse_line on the characters of a line.                         *)

URL == <<"U", "R", "L", ":">>

PortThrows(field) == StrtoThrows(field, 0, MaxPort) # "none"

\* What parse_line makes of a line of the fields f.
LineKind(f) ==
  LineKindOf(Len(f), Len(f[1]) < 2, Len(f) > 1 /\ Seqs!IsPrefix(URL, f[2]),
             Len(f) = 4 => ~ PortThrows(f[4]))

\* The port of a remote link; 70 unless the line has one.
PortOf(f) == IF Len(f) = 4 THEN Strto(f[4], 0, MaxPort) ELSE 70

\* The callback it makes for line number n.
Call(n, f) ==
  LET kind == LineKind(f) IN
  [line |-> n, kind |-> kind,
   selector |-> IF kind = "text" THEN <<>> ELSE f[2],
   port |-> IF kind = "remote" THEN PortOf(f) ELSE 0]

\* What the callbacks of make_writer append to the menu for a line.
ItemLine(line, f) ==
  LET name == Tail(f[1]) IN
  CASE LineKind(f) = "text" -> TextLine(line)
    [] LineKind(f) = "url" -> NodeLine("h", name, f[2], SelfHost, SelfPort)
    [] LineKind(f) = "local" -> NodeLine(f[1][1], name, VirtualPath, SelfHost, SelfPort)
    [] LineKind(f) = "remote" -> NodeLine(f[1][1], name, f[2], f[3], PortOf(f))

\* The loop of make_writer; the one of the load passes one callback.
MakesMenu == "text" \in callbacks

\* Mutant of Passed: the test for a callback is forgotten.
PassedAlways(kind) == kind \in {"local", "remote", "url", "text"}

\* Whether the loop passes a callback for lines of this kind.
Passed(kind) == kind \in callbacks

Parse(line) ==
  /\ lines' = Append(lines, line)
  /\ \E f \in {Tokenize(line, Tab)} :
       IF LineKind(f) = "badport"
       THEN /\ phase' = "thrown"
            /\ UNCHANGED <<menu, got>>
       ELSE /\ menu' = IF MakesMenu THEN menu \o ItemLine(line, f) ELSE menu
            /\ got' = IF Passed(LineKind(f))
                      THEN got \cup {Call(Len(lines) + 1, f)} ELSE got
            /\ UNCHANGED phase

-------------------------------------------------------------------------------
(* util::Reader                                                            *)

Rest == SubSeq(content, pos + 1, Len(content))

\* What getline takes: up to a newline, or to the end of the file.
Getline == IF Occurrences(Rest, NewLine) = {} THEN Rest
           ELSE SubSeq(Rest, 1, Memchr(Rest, NewLine)[1])

\* Mutant of Chopped: the newline is left at the end of the line.
ChoppedNot(raw) == raw

\* The last character is overwritten, whatever it is.
Chopped(raw) == SubSeq(raw, 1, Len(raw) - 1)

\* Mutant of Eof: it does not see that next() has closed the file.
EofOfFile == atEof

\* Reader::eof()
Eof == input = "null" \/ atEof

\* Reader::feed; fopen may fail.
Feed == /\ phase = "feed"
        /\ \/ phase' = "reading" /\ input' = "open"
           \/ phase' = "thrown" /\ UNCHANGED input
        /\ UNCHANGED <<content, callbacks, pos, atEof, lines, menu, got>>

\* next() finds a line.  getline sees the end of the file only when no
\* newline stops it.
NextLine == /\ phase = "reading"
            /\ ~ Eof
            /\ input = "open"
            /\ Rest # <<>>
            /\ pos' = pos + Len(Getline)
            /\ atEof' = (Occurrences(Rest, NewLine) = {})
            /\ \E line \in {Chopped(Getline)} : Parse(line)
            /\ UNCHANGED <<content, callbacks, input>>

\* next() finds nothing left: it closes the file, unless that was done, and
\* returns a StrRef to nothing, which the loop parses.
NextNothing == /\ phase = "reading"
               /\ ~ Eof
               /\ input = "open" => Rest = <<>>
               /\ Len(lines) < MaxLines
               /\ input' = "null"
               /\ Parse(<<>>)
               /\ UNCHANGED <<content, callbacks, pos, atEof>>

\* getline fails, and next() throws.
NextThrows == /\ phase = "reading"
              /\ ~ Eof
              /\ input = "open"
              /\ ReadFails
              /\ phase' = "thrown"
              /\ UNCHANGED <<content, callbacks, input, pos, atEof, lines, menu, got>>

\* The loop ends; got_line then calls write_to, and so before_write, on the
\* menu.
LoopEnds == /\ phase = "reading"
            /\ Eof
            /\ phase' = "done"
            /\ menu' = IF MakesMenu THEN menu \o LastLine ELSE menu
            /\ UNCHANGED <<content, callbacks, input, pos, atEof, lines, got>>

Next == Feed \/ NextLine \/ NextNothing \/ NextThrows \/ LoopEnds

Spec == Init /\ [][Next]_vars

\* The loop runs on: it waits for nobody.
FairSpec == Spec /\ WF_vars(Next)

-------------------------------------------------------------------------------
(* What the file says, told from the positions of its characters.          *)

Newlines == Occurrences(content, NewLine)

\* The text of line n.
Written(n) == Part(content, NewLine, n)

\* A link to a local resource: a type, a name, one tab and the selector.
LinkIn(line) == SubSeq(line, 1 + CHOOSE t \in Occurrences(line, Tab) : TRUE, Len(line))
IsLink(line) == /\ \E t \in 3..Len(line) : Occurrences(line, Tab) = {t}
                /\ ~ Seqs!IsPrefix(URL, LinkIn(line))

WrittenLinks == {<<n, LinkIn(Written(n))>> :
                   n \in {n \in 1..Cardinality(Newlines) : IsLink(Written(n))}}

Kinds == {"text", "url", "local", "remote"}

TypeOK == /\ callbacks \in Loops
          /\ input \in {"null", "open"}
          /\ pos \in 0..Len(content)
          /\ atEof \in BOOLEAN
          /\ phase \in {"feed", "reading", "done", "thrown"}
          /\ Len(lines) <= MaxLines
          /\ menu # <<>> => MakesMenu
          /\ \A c \in got : /\ c.line \in DOMAIN lines
                            /\ c.kind \in Kinds \cap callbacks
                            /\ c.port \in 0..MaxPort

\* "Returns a StrRef over the next line [...] does not have a trailing
\* new-line symbol" (fileread.h:27): the lines next() returns are those of
\* the file, in order.
NextReturnsLine == \A n \in DOMAIN lines : lines[n] = Written(n)

\* The same for the lines that end with a newline, all the code guarantees.
EndedLinesIntact ==
  \A n \in DOMAIN lines : n <= Cardinality(Newlines) => lines[n] = Written(n)

\* A loop that runs to the end has reported every link of the file, each once,
\* with the selector that is written there, and nothing else as a link: the
\* reader, tokenize and parse_line agree on where lines and fields end.
LinksReported ==
  phase = "done" =>
    {<<c.line, c.selector>> :
       c \in {c \in got : c.kind = "local" /\ c.line <= Cardinality(Newlines)}}
      = WrittenLinks

\* A remote link never gets another port than the one written: a number that
\* does not fit ends the loop instead of wrapping around (str.h:48).
PortsAsWritten ==
  \A c \in got : LET f == Tokenize(lines[c.line], Tab) IN
    c.kind = "remote" /\ Len(f) = 4 => c.port = Stoll(f[4])

\* What a client makes of a line of a menu: the four fields of "Type User_Name
\* Tab Selector Tab Host Tab Port CR-LF" (rfc1436.txt:679).
MenuLine(n) == Part(menu, NewLine, n)
MenuField(n, k) == Part(Seqs!Front(MenuLine(n)), Tab, k)

\* What it should find for line n of the gophermap.
Item(n) ==
  LET line == lines[n]
      field(k) == Part(line, Tab, k)
      kind == (CHOOSE c \in got : c.line = n).kind
  IN CASE kind = "text" -> <<<<"i">> \o line, <<>>, <<InfoHost>>, 1>>
       [] kind = "url" -> <<<<"h">> \o Tail(field(1)), field(2), SelfHost, SelfPort>>
       [] kind = "local" -> <<field(1), VirtualPath, SelfHost, SelfPort>>
       [] kind = "remote" -> <<field(1), field(2), field(3),
                               IF Cardinality(Occurrences(line, Tab)) = 3
                               THEN Stoll(field(4)) ELSE 70>>

\* A menu has a line for each line of the gophermap and one that ends it; a
\* client that cuts it at its newlines and tabs gets back the links, hosts and
\* ports of the gophermap, and no text ends the menu early.  Only a text that
\* has tabs, which parse_line passes on as it is (map_parser.cc:36, 44), shifts
\* the fields of its line.
MenuReadsBack ==
  phase = "done" /\ MakesMenu =>
    /\ Cardinality(Occurrences(menu, NewLine)) = Len(lines) + 1
    /\ \A n \in 1..(Len(lines) + 1) :
         Seqs!Last(MenuLine(n)) = Return /\ (Seqs!Front(MenuLine(n)) = <<".">> <=> n = Len(lines) + 1)
    /\ \A n \in DOMAIN lines :
         LET fields == 1 + Cardinality(Occurrences(MenuLine(n), Tab)) IN
         \/ /\ Occurrences(lines[n], Tab) # {}
            /\ \E c \in got : c.line = n /\ c.kind = "text"
         \/ /\ fields = 4
            /\ Item(n) = <<MenuField(n, 1), MenuField(n, 2), MenuField(n, 3),
                           Stoll(MenuField(n, 4))>>

\* Whatever the file, the loop comes to an end: on a newline at the very end,
\* where feof() does not show it yet, and on an empty file.
LoopTerminates == phase = "reading" ~> phase \in {"done", "thrown"}
===============================================================================
