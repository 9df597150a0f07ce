------------------------------ MODULE LineReader ------------------------------
(***************************************************************************)
(* What src/src/gopher/proto.h promises of gopher::proto::Reader, the      *)
(* asynchronous line reader: once read_from has been called, exactly one   *)
(* of the ReadParams callbacks ends the read, and each of them tells the   *)
(* truth about the byte stream of the peer (proto.h, lines 49-104).        *)
(*                                                                         *)
(*   - got_line: a whole line has been received, and it is the first one,  *)
(*     without its line terminator;                                        *)
(*   - got_eof: the peer has closed its side, and sent no whole line;      *)
(*   - got_timeout, got_error: inactivity, or an error of the system or    *)
(*     of the got_line callback itself.                                    *)
(*                                                                         *)
(* ProtoReader is the translation of the code, and is checked, and proved, *)
(* to implement this specification when requests are short enough.         *)
(***************************************************************************)
EXTENDS Naturals, Sequences

CONSTANTS
  Streams     \* the byte streams a peer may send

VARIABLES
  reading,    \* a read is in progress: read_from called, not yet terminated
  stream,     \* all the bytes the peer of the current read sends
  fin,        \* whether the peer closes its side after them
  calls,      \* the callbacks made for the current read, in order
  line        \* the line given to got_line

vars == <<reading, stream, fin, calls, line>>

-------------------------------------------------------------------------------
(* Lines of a byte stream.  A line ends with "lf"; a "cr" right before the *)
(* "lf" belongs to the terminator.                                         *)

HasLine(s) == \E i \in 1..Len(s) : s[i] = "lf"

IsFirstLf(s, i) == /\ i \in 1..Len(s)
                   /\ s[i] = "lf"
                   /\ \A j \in 1..(i - 1) : s[j] # "lf"

\* The text of the line that ends with the "lf" at position i.
LineUpTo(s, i) == IF i > 1 /\ s[i - 1] = "cr"
                  THEN SubSeq(s, 1, i - 2)
                  ELSE SubSeq(s, 1, i - 1)

\* text is the first line of s
IsFirstLine(s, text) == \E i \in 1..Len(s) :
                          IsFirstLf(s, i) /\ text = LineUpTo(s, i)

-------------------------------------------------------------------------------
Init == /\ reading = FALSE
        /\ stream = << >>
        /\ fin = FALSE
        /\ calls = << >>
        /\ line = << >>

\* A read starts on some socket.
Start == /\ ~ reading
         /\ reading' = TRUE
         /\ stream' \in Streams
         /\ fin' \in BOOLEAN
         /\ calls' = << >>
         /\ line' = << >>

\* The read ends with the callbacks cs.
Finish(cs) == /\ reading
              /\ reading' = FALSE
              /\ calls' = cs
              /\ UNCHANGED <<stream, fin>>

\* The callback receives the first line; it may itself throw, which is
\* then reported as an error.
GotLine == /\ Finish(<<"line">>) \/ Finish(<<"line", "error">>)
           /\ IsFirstLine(stream, line')

GotEof == /\ fin
          /\ ~ HasLine(stream)
          /\ Finish(<<"eof">>)
          /\ UNCHANGED line

GotTimeout == Finish(<<"timeout">>) /\ UNCHANGED line

GotError == Finish(<<"error">>) /\ UNCHANGED line

Next == Start \/ GotLine \/ GotEof \/ GotTimeout \/ GotError

Spec == Init /\ [][Next]_vars
===============================================================================
