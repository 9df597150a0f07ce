------------------------------ MODULE ProtoReader ------------------------------
(***************************************************************************)
(* gopher::proto::Reader (src/src/gopher/proto.cc): the asynchronous       *)
(* reader that waits for a line on a client socket.                        *)
(*                                                                         *)
(* One Reader object and the socket it reads from.  Every action is one    *)
(* call of read_from or one invocation of cb_read by libevent, from its    *)
(* first to its last statement, the ReadParams callback it makes included. *)
(* The process is single threaded, so that nothing interleaves inside an   *)
(* invocation; what interleaves between them is how the peer's bytes are   *)
(* cut in chunks, inactivity, and errors of the system.                    *)
(***************************************************************************)
EXTENDS Naturals, Sequences

CONSTANTS
  BufLen,     \* the buflen the Reader is constructed with (256 in session.cc)
  MaxStream,  \* bound: how many bytes a peer sends
  MaxReads,   \* bound: how many times read_from is called (once in session.cc)
  Answers,    \* how got_line may end (always "stop" or "throw" in session.cc)
  AddFails    \* whether libevent's event_add may fail

ASSUME BufLenAssumption == BufLen \in Nat
ASSUME BoundsAssumption == MaxStream \in Nat /\ MaxReads \in Nat
ASSUME AnswersAssumption == Answers \subseteq {"stop", "again", "throw"}
ASSUME AddFailsAssumption == AddFails \in BOOLEAN

VARIABLES
  buffer,     \* Reader::buffer, zero-filled by the vector's constructor
  cursor,     \* Reader::cursor, where the next chunk goes
  ev,         \* Reader::ev_read: "null", "added" (pending in libevent), "idle"
              \* (allocated, but unknown to libevent), "crash" (dereferenced
              \* while null: the process is gone)
  stream,     \* the bytes the peer of this read sends, from first to last
  fin,        \* whether the peer closes its side after them
  taken,      \* how many of them the reader has taken from the socket
  reads,      \* how many reads have been started
  calls,      \* the callbacks made for the current read, in order
  line        \* the line given to got_line

vars == <<buffer, cursor, ev, stream, fin, taken, reads, calls, line>>

\* What a peer sends: carriage returns, line feeds, any other byte.
Sent == {"chr", "cr", "lf"}
Bytes == Sent \cup {"nul"}
Streams == UNION {[1..n -> Sent] : n \in 0..MaxStream}

\* buflen plus the two bytes of the line terminator
Size == BufLen + 2
Slots == 0..(Size - 1)
\* Mutant of Room: the cursor is forgotten.
RoomIgnoresCursor == Size

Room == Size - cursor

-------------------------------------------------------------------------------
Init == /\ buffer = [i \in Slots |-> "nul"]
        /\ cursor = 0
        /\ ev = "null"
        /\ stream = << >>
        /\ fin = FALSE
        /\ taken = 0
        /\ reads = 0
        /\ calls = << >>
        /\ line = << >>

\* Reader::schedule, on an allocated event.  When event_add fails an
\* IOError is constructed, but nothing throws it.
Schedule == ev' \in IF AddFails THEN {"added", "idle"} ELSE {"added"}

\* Reader::end
End == /\ cursor' = 0
       /\ ev' = "null"

\* Reader::read_from on a reader that is not busy: a fresh event is
\* allocated for the socket of a new peer.
ReadFrom == /\ ev = "null"
            /\ reads < MaxReads
            /\ reads' = reads + 1
            /\ Schedule
            /\ stream' \in Streams
            /\ fin' \in BOOLEAN
            /\ taken' = 0
            /\ calls' = << >>
            /\ line' = << >>
            /\ UNCHANGED <<buffer, cursor>>

\* Mutant of CbTimeout: end(), and nobody is told.
CbTimeoutSilent == /\ ev = "added"
                   /\ End
                   /\ UNCHANGED <<buffer, stream, fin, taken, reads, calls, line>>

\* cb_read with EV_TIMEOUT: end(), then got_timeout.
CbTimeout == /\ ev = "added"
             /\ End
             /\ calls' = <<"timeout">>
             /\ UNCHANGED <<buffer, stream, fin, taken, reads, line>>

\* cb_read with EV_READ, and read(2) fails: end(), then got_error.
CbReadFails == /\ ev = "added"
               /\ End
               /\ calls' = <<"error">>
               /\ UNCHANGED <<buffer, stream, fin, taken, reads, line>>

\* The socket is readable when the peer has sent more or has closed.
Readable == taken < Len(stream) \/ fin

\* read(2) returns 0 at the end of the stream, and also when it is asked
\* for 0 bytes.  read_chunk cannot tell one from the other.
CbEof == /\ ev = "added"
         /\ Readable
         /\ taken = Len(stream) \/ Room = 0
         /\ End
         /\ calls' = <<"eof">>
         /\ UNCHANGED <<buffer, stream, fin, taken, reads, line>>

\* The chunk sizes read(2) may return, and the buffer after a chunk of n.
Chunks == {n \in 1..Room : taken + n <= Len(stream)}

\* Mutant of Filled: the chunk is read at the start of the buffer.
FilledFromStart(n) == [i \in Slots |-> IF i < n THEN stream[taken + i + 1]
                                               ELSE buffer[i]]

Filled(n) == [i \in Slots |->
                IF i \in cursor..(cursor + n - 1)
                THEN stream[taken + (i - cursor) + 1]
                ELSE buffer[i]]

\* Mutant of Hits: the search stops one byte early.
HitsShort(n) == {i \in cursor..(Size - n - 2) : Filled(n)[i] = "lf"}

\* The slots where memchr(start, '\n', room - size) finds a newline, after
\* a chunk of n bytes.
Hits(n) == {i \in cursor..(Size - n - 1) : Filled(n)[i] = "lf"}

\* A chunk in which read_chunk sees no newline: it waits for more.
CbChunk(n) == /\ ev = "added"
              /\ n \in Chunks
              /\ Hits(n) = {}
              /\ buffer' = Filled(n)
              /\ cursor' = cursor + n
              /\ taken' = taken + n
              /\ Schedule
              /\ UNCHANGED <<stream, fin, reads, calls, line>>

\* Mutants of LineEnd: the carriage return is kept; a byte is always dropped.
LineEndKeepsCr(buf, nl) == nl
LineEndDropsByte(buf, nl) == IF nl > 0 THEN nl - 1 ELSE nl

\* Where the terminating '\0' is written when the newline is in slot nl.
LineEnd(buf, nl) == IF nl > 0 /\ buf[nl - 1] = "cr" THEN nl - 1 ELSE nl

\* A chunk in which read_chunk sees a newline, the first one in slot nl:
\* got_line is called, then end(); on "again" schedule() follows, and calls
\* event_add on the null event.  When got_line throws, cb_read calls end()
\* and then got_error.
CbLine(n, nl) ==
  /\ ev = "added"
  /\ n \in Chunks
  /\ nl \in Hits(n)
  /\ \A i \in Hits(n) : nl <= i
  /\ LET end == LineEnd(Filled(n), nl) IN
       /\ buffer' = [Filled(n) EXCEPT ![end] = "nul"]
       /\ line' = [i \in 1..end |-> Filled(n)[i - 1]]
  /\ cursor' = 0
  /\ taken' = taken + n
  /\ \E answer \in Answers :
       /\ ev' = IF answer = "again" THEN "crash" ELSE "null"
       /\ calls' = IF answer = "throw" THEN <<"line", "error">> ELSE <<"line">>
  /\ UNCHANGED <<stream, fin, reads>>

CbRead == \/ CbTimeout
          \/ CbReadFails
          \/ CbEof
          \/ \E n \in 1..Size : CbChunk(n)
          \/ \E n \in 1..Size, nl \in Slots : CbLine(n, nl)

Next == ReadFrom \/ CbRead

Spec == Init /\ [][Next]_vars

\* libevent invokes the callback of a pending event when its socket is
\* readable, and after the timeout (5 seconds in session.cc) at the latest.
Fairness == WF_vars(CbRead)

FairSpec == Spec /\ Fairness

-------------------------------------------------------------------------------
Contract == INSTANCE LineReader WITH reading <- ev \in {"added", "idle"}

Busy == ev = "added"

\* The callbacks one read may make.
CallSequences == {<< >>, <<"line">>, <<"line", "error">>, <<"eof">>,
                  <<"timeout">>, <<"error">>}

TypeOK == /\ buffer \in [Slots -> Bytes]
          /\ cursor \in 0..Size
          /\ ev \in {"null", "added", "idle", "crash"}
          /\ stream \in Streams
          /\ fin \in BOOLEAN
          /\ taken \in 0..Len(stream)
          /\ reads \in 0..MaxReads
          /\ calls \in CallSequences
          /\ line \in Seq(Bytes)

\* While a read is in progress the first cursor slots of the buffer hold
\* exactly the bytes taken from the socket, in order: chunks are neither
\* lost, nor duplicated, nor overwritten, however the stream is cut.
BufferedIsTaken == Busy => /\ taken = cursor
                           /\ \A i \in 1..taken : buffer[i - 1] = stream[i]

\* What got_line is given is text the peer sent from the beginning of the
\* stream, up to a line feed, with one carriage return dropped: read_chunk
\* never mixes in bytes that were not received.
LineWasSent == calls # << >> /\ calls[1] = "line" =>
                 \E i \in 1..taken : /\ stream[i] = "lf"
                                     /\ line = Contract!LineUpTo(stream, i)

\* A whole line never sits in the buffer while the reader waits for more
\* ("got_line gets called if a whole line is received", proto.h:54).
NoLineMissed == Busy => \A i \in 1..taken : stream[i] # "lf"

\* read_from "will eventually trigger one of the functions of the ReadParams
\* structure" (proto.h:90): a read in progress is eventually terminated,
\* unless event_add failed in schedule(), which does not throw the IOError it
\* makes of that (proto.cc:92): then nobody is ever told.
ReadTerminates == reads > 0 ~> (calls # << >> \/ ev = "idle")

\* The reader implements what proto.h promises.
ImplementsContract == Contract!Spec
===============================================================================
