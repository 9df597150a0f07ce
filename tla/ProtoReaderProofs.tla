--------------------------- MODULE ProtoReaderProofs ---------------------------
(***************************************************************************)
(* Theorems about ProtoReader, for every value of the constants.           *)
(***************************************************************************)
EXTENDS ProtoReader, TLAPS

USE BufLenAssumption, BoundsAssumption, AnswersAssumption, AddFailsAssumption

\* The buffer always has room for a line terminator.
LEMMA SizeNat == Size \in Nat /\ Size >= 2
  BY DEF Size

\* What a peer sends is a sequence of bytes.
LEMMA StreamsType ==
  ASSUME NEW s \in Streams
  PROVE  /\ Len(s) \in 0..MaxStream
         /\ DOMAIN s = 1..Len(s)
         /\ \A i \in 1..Len(s) : s[i] \in Sent
         /\ s \in Seq(Sent)
<1>1. PICK n \in 0..MaxStream : s \in [1..n -> Sent]
  BY DEF Streams
<1>2. s \in Seq(Sent) /\ Len(s) = n
  BY <1>1
<1>. QED
  BY <1>1, <1>2

\* Filling the buffer with a chunk keeps its type.
LEMMA FilledType ==
  ASSUME TypeOK, NEW n \in Chunks
  PROVE  Filled(n) \in [Slots -> Bytes]
<1>1. \A i \in 1..Len(stream) : stream[i] \in Bytes
  BY StreamsType DEF TypeOK, Bytes
<1>2. /\ n \in 1..Room /\ taken + n <= Len(stream)
      /\ cursor \in 0..Size /\ taken \in 0..Len(stream) /\ Len(stream) \in Nat
  BY StreamsType DEF Chunks, TypeOK
<1>3. ASSUME NEW i \in Slots, i \in cursor..(cursor + n - 1)
      PROVE  stream[taken + (i - cursor) + 1] \in Bytes
  <2>1. taken + (i - cursor) + 1 \in 1..Len(stream)
    BY <1>2, <1>3, SizeNat DEF Room, Slots
  <2>. QED
    BY <2>1, <1>1
<1>. QED
  BY <1>3 DEF Filled, TypeOK

-------------------------------------------------------------------------------
(* Type correctness. *)

\* Init establishes the type invariant.
LEMMA TypeInit == Init => TypeOK
<1>. SUFFICES ASSUME Init PROVE TypeOK
  OBVIOUS
<1>1. stream \in Streams
  <2>1. << >> \in [1..0 -> Sent]
    OBVIOUS
  <2>2. 0 \in 0..MaxStream
    OBVIOUS
  <2>. QED
    BY <2>1, <2>2 DEF Streams, Init
<1>2. buffer \in [Slots -> Bytes]
  BY DEF Init, Bytes
<1>3. taken \in 0..Len(stream) /\ line \in Seq(Bytes)
  BY DEF Init
<1>4. calls \in CallSequences
  BY Zenon DEF Init, CallSequences
<1>5. cursor \in 0..Size /\ reads \in 0..MaxReads
  <2>1. cursor = 0 /\ reads = 0
    BY DEF Init
  <2>. QED
    BY <2>1, SizeNat
<1>6. fin \in BOOLEAN /\ ev \in {"null", "added", "idle", "crash"}
  BY DEF Init
<1>. QED
  BY <1>1, <1>2, <1>3, <1>4, <1>5, <1>6 DEF TypeOK

\* Every step preserves the type invariant.
LEMMA TypeStep == TypeOK /\ [Next]_vars => TypeOK'
<1>. SUFFICES ASSUME TypeOK, [Next]_vars
              PROVE  TypeOK'
  OBVIOUS
<1>. USE SizeNat
<1>1. CASE ReadFrom
  <2>1. Len(stream') \in Nat
    BY <1>1, StreamsType DEF ReadFrom
  <2>. QED
    BY <1>1, <2>1 DEF ReadFrom, Schedule, TypeOK, CallSequences
<1>2. CASE CbTimeout
  BY <1>2 DEF CbTimeout, End, TypeOK, CallSequences
<1>3. CASE CbReadFails
  BY <1>3 DEF CbReadFails, End, TypeOK, CallSequences
<1>4. CASE CbEof
  BY <1>4 DEF CbEof, End, TypeOK, CallSequences
<1>5. ASSUME NEW n \in 1..Size, CbChunk(n)
      PROVE  TypeOK'
  <2>1. Filled(n) \in [Slots -> Bytes]
    BY <1>5, FilledType DEF CbChunk
  <2>2. cursor + n \in 0..Size /\ taken + n \in 0..Len(stream)
    BY <1>5, StreamsType DEF CbChunk, Chunks, Room, TypeOK
  <2>. QED
    BY <1>5, <2>1, <2>2 DEF CbChunk, Schedule, TypeOK
<1>6. ASSUME NEW n \in 1..Size, NEW nl \in Slots, CbLine(n, nl)
      PROVE  TypeOK'
  <2>. DEFINE end == LineEnd(Filled(n), nl)
  <2>1. Filled(n) \in [Slots -> Bytes]
    BY <1>6, FilledType DEF CbLine
  <2>2. end \in Slots
    BY DEF LineEnd, Slots
  <2>3. [Filled(n) EXCEPT ![end] = "nul"] \in [Slots -> Bytes]
    BY <2>1, <2>2 DEF Bytes
  <2>4. [i \in 1..end |-> Filled(n)[i - 1]] \in Seq(Bytes)
    <3>1. \A i \in 1..end : Filled(n)[i - 1] \in Bytes
      BY <2>1, <2>2 DEF Slots
    <3>. QED
      BY <3>1, <2>2 DEF Slots
  <2>5. taken + n \in 0..Len(stream)
    BY <1>6, StreamsType DEF CbLine, Chunks, Room, TypeOK
  <2>6. /\ buffer' = [Filled(n) EXCEPT ![end] = "nul"]
        /\ line' = [i \in 1..end |-> Filled(n)[i - 1]]
        /\ cursor' = 0 /\ taken' = taken + n
        /\ UNCHANGED <<stream, fin, reads>>
    BY <1>6 DEF CbLine
  <2>7. /\ ev' \in {"null", "crash"}
        /\ calls' \in CallSequences
    BY <1>6 DEF CbLine, CallSequences
  <2>. HIDE DEF end
  <2>. QED
    BY <2>3, <2>4, <2>5, <2>6, <2>7 DEF TypeOK
<1>7. CASE UNCHANGED vars
  BY <1>7 DEF vars, TypeOK
<1>. QED
  BY <1>1, <1>2, <1>3, <1>4, <1>5, <1>6, <1>7 DEF Next, CbRead

\* Every variable of the reader keeps its type; in particular the cursor
\* never leaves the buffer, whatever the chunks read(2) returns.
THEOREM ReaderTypeCorrect == Spec => []TypeOK
  BY TypeInit, TypeStep, PTL DEF Spec

-------------------------------------------------------------------------------
(* What the buffer holds. *)

\* After a chunk the buffer holds the bytes taken so far, and its other slots
\* are as they were.
LEMMA FilledIsTaken ==
  ASSUME TypeOK, Busy, BufferedIsTaken, NEW n \in Chunks
  PROVE  /\ \A i \in 1..(taken + n) : Filled(n)[i - 1] = stream[i]
         /\ \A i \in Slots : i >= cursor + n => Filled(n)[i] = buffer[i]
         /\ cursor = taken /\ cursor + n <= Size /\ taken + n <= Len(stream)
         /\ n \in Nat \ {0} /\ taken \in Nat /\ Len(stream) \in 0..MaxStream
<1>1. /\ n \in 1..Room /\ taken + n <= Len(stream) /\ cursor = taken
      /\ cursor \in 0..Size /\ Len(stream) \in 0..MaxStream
      /\ \A i \in 1..taken : buffer[i - 1] = stream[i]
  BY StreamsType DEF Chunks, TypeOK, BufferedIsTaken
<1>2. ASSUME NEW i \in 1..(taken + n)
      PROVE  Filled(n)[i - 1] = stream[i]
  <2>1. i - 1 \in Slots
    BY <1>1, SizeNat DEF Slots, Room
  <2>2. CASE i <= taken
    <3>1. ~ (i - 1 \in cursor..(cursor + n - 1))
      BY <1>1, <2>2, SizeNat
    <3>. QED
      BY <1>1, <2>1, <2>2, <3>1 DEF Filled
  <2>3. CASE i > taken
    <3>1. i - 1 \in cursor..(cursor + n - 1) /\ taken + ((i - 1) - cursor) + 1 = i
      BY <1>1, <2>3, SizeNat
    <3>. QED
      BY <2>1, <3>1 DEF Filled
  <2>. QED
    BY <1>1, <2>2, <2>3, SizeNat
<1>3. ASSUME NEW i \in Slots, i >= cursor + n
      PROVE  Filled(n)[i] = buffer[i]
  <2>1. ~ (i \in cursor..(cursor + n - 1))
    BY <1>1, <1>3, SizeNat DEF Slots
  <2>. QED
    BY <2>1 DEF Filled
<1>. QED
  BY <1>1, <1>2, <1>3, SizeNat DEF Room

\* The inductive invariant of a reader, used any number of times.
BufferInv == /\ TypeOK
             /\ ev = "null" => cursor = 0
             /\ BufferedIsTaken

\* The initial buffer is empty.
LEMMA BufferInit == Init => BufferInv
  BY TypeInit DEF Init, BufferInv, BufferedIsTaken, Busy

\* Every step keeps the buffer equal to what was taken.
LEMMA BufferStep == BufferInv /\ [Next]_vars => BufferInv'
<1>. SUFFICES ASSUME BufferInv, [Next]_vars
              PROVE  /\ (ev = "null" => cursor = 0)'
                     /\ BufferedIsTaken'
  BY TypeStep DEF BufferInv
<1>. USE DEF Busy
<1>1. CASE ReadFrom
  BY <1>1 DEF ReadFrom, Schedule, BufferInv, BufferedIsTaken
<1>2. CASE CbTimeout \/ CbReadFails \/ CbEof
  BY <1>2 DEF CbTimeout, CbReadFails, CbEof, End, BufferedIsTaken
<1>3. ASSUME NEW n \in 1..Size, CbChunk(n)
      PROVE  /\ (ev = "null" => cursor = 0)'
             /\ BufferedIsTaken'
  <2>1. /\ buffer' = Filled(n) /\ cursor' = cursor + n /\ taken' = taken + n
        /\ stream' = stream /\ ev' \in {"added", "idle"} /\ n \in Chunks
    BY <1>3 DEF CbChunk, Schedule
  <2>2. /\ \A i \in 1..(taken + n) : Filled(n)[i - 1] = stream[i]
        /\ cursor = taken
    BY <1>3, <2>1, FilledIsTaken DEF CbChunk, BufferInv
  <2>. QED
    BY <2>1, <2>2 DEF BufferedIsTaken
<1>4. ASSUME NEW n \in 1..Size, NEW nl \in Slots, CbLine(n, nl)
      PROVE  /\ (ev = "null" => cursor = 0)'
             /\ BufferedIsTaken'
  BY <1>4 DEF CbLine, BufferedIsTaken
<1>5. CASE UNCHANGED vars
  BY <1>5 DEF vars, BufferInv, BufferedIsTaken
<1>. QED
  BY <1>1, <1>2, <1>3, <1>4, <1>5 DEF Next, CbRead

\* While a read is in progress the buffer holds exactly the bytes taken from
\* the socket, for any chunking of any stream, on any number of reads.
THEOREM ReaderKeepsBytes == Spec => []BufferedIsTaken
<1>1. BufferInv => BufferedIsTaken
  BY DEF BufferInv
<1>. QED
  BY BufferInit, BufferStep, <1>1, PTL DEF Spec

-------------------------------------------------------------------------------
(* A reader that reads once, as the one of a session does: the slots it has  *)
(* not filled are blank, so that memchr, which also searches beyond the      *)
(* chunk, finds no newline there.                                            *)

Blank == /\ reads = 0 => ev = "null" /\ \A i \in Slots : buffer[i] # "lf"
         /\ Busy => \A i \in Slots : i >= cursor => buffer[i] # "lf"

FreshInv == /\ BufferInv
            /\ Blank
            /\ LineWasSent

\* On a blank buffer the newline memchr finds is one of the chunk's bytes,
\* and the text before it is what the peer sent.
LEMMA LineFound ==
  ASSUME BufferInv, Blank, NEW n \in Chunks, NEW nl \in Hits(n), Busy
  PROVE  /\ nl + 1 \in (taken + 1)..(taken + n)
         /\ nl \in Slots
         /\ stream[nl + 1] = "lf"
         /\ LET end == LineEnd(Filled(n), nl) IN
              [i \in 1..end |-> Filled(n)[i - 1]]
                = Contract!LineUpTo(stream, nl + 1)
<1>. DEFINE end == LineEnd(Filled(n), nl)
<1>1. /\ \A i \in 1..(taken + n) : Filled(n)[i - 1] = stream[i]
      /\ \A i \in Slots : i >= cursor + n => Filled(n)[i] = buffer[i]
      /\ cursor = taken /\ cursor + n <= Size /\ taken + n <= Len(stream)
      /\ n \in Nat \ {0} /\ taken \in Nat /\ Len(stream) \in Nat
  BY FilledIsTaken DEF BufferInv
<1>2. nl \in cursor..(Size - n - 1) /\ Filled(n)[nl] = "lf" /\ nl \in Slots
  BY <1>1, SizeNat DEF Hits, Slots
<1>3. nl < cursor + n
  <2>1. SUFFICES ASSUME nl >= cursor + n PROVE FALSE
    BY <1>1, <1>2, SizeNat DEF Slots
  <2>2. nl \in Nat /\ nl >= cursor
    BY <1>1, <1>2, <2>1, SizeNat DEF Slots
  <2>3. buffer[nl] = "lf"
    BY <1>1, <1>2, <2>1
  <2>. QED
    BY <1>2, <2>2, <2>3 DEF Blank
<1>4. nl + 1 \in (taken + 1)..(taken + n) /\ nl \in Nat
  BY <1>1, <1>2, <1>3, SizeNat DEF Slots
<1>5. stream[nl + 1] = "lf"
  BY <1>1, <1>2, <1>4
<1>6. stream \in Seq(Sent)
  BY StreamsType DEF BufferInv, TypeOK
<1>7. CASE nl > 0 /\ stream[nl] = "cr"
  <2>1. end = nl - 1
    BY <1>1, <1>4, <1>7 DEF LineEnd
  <2>2. Contract!LineUpTo(stream, nl + 1) = SubSeq(stream, 1, nl - 1)
    BY <1>4, <1>7 DEF Contract!LineUpTo
  <2>3. SubSeq(stream, 1, nl - 1) = [i \in 1..(nl - 1) |-> stream[i]]
    BY <1>1, <1>4, <1>6, <1>7
  <2>4. \A i \in 1..(nl - 1) : Filled(n)[i - 1] = stream[i]
    BY <1>1, <1>4
  <2>. QED
    BY <1>2, <1>4, <1>5, <2>1, <2>2, <2>3, <2>4
<1>8. CASE ~ (nl > 0 /\ stream[nl] = "cr")
  <2>1. end = nl
    BY <1>1, <1>4, <1>8 DEF LineEnd
  <2>2. Contract!LineUpTo(stream, nl + 1) = SubSeq(stream, 1, nl)
    BY <1>4, <1>8 DEF Contract!LineUpTo
  <2>3. SubSeq(stream, 1, nl) = [i \in 1..nl |-> stream[i]]
    BY <1>1, <1>4, <1>6
  <2>4. \A i \in 1..nl : Filled(n)[i - 1] = stream[i]
    BY <1>1, <1>4
  <2>. QED
    BY <1>2, <1>4, <1>5, <2>1, <2>2, <2>3, <2>4
<1>. QED
  BY <1>7, <1>8

\* A reader that was never started is blank.
LEMMA FreshInit == Init => FreshInv
<1>1. Init => Blank
  BY SizeNat DEF Init, Blank, Busy, Slots
<1>2. Init => LineWasSent
  BY Zenon DEF Init, LineWasSent
<1>. QED
  BY <1>1, <1>2, BufferInit DEF FreshInv

\* As long as read_from is called once, every step keeps the slots after the
\* cursor blank while it reads, and gives got_line what was sent.
LEMMA FreshStep ==
  ASSUME MaxReads <= 1
  PROVE  FreshInv /\ [Next]_vars => FreshInv'
<1>. SUFFICES ASSUME FreshInv, [Next]_vars
              PROVE  Blank' /\ LineWasSent'
  BY BufferStep DEF FreshInv
<1>. USE DEF Busy
<1>1. CASE ReadFrom
  <2>1. reads = 0 /\ reads' = 1
    BY <1>1 DEF ReadFrom, FreshInv, BufferInv, TypeOK
  <2>2. Blank'
    BY <1>1, <2>1 DEF ReadFrom, FreshInv, Blank
  <2>3. LineWasSent'
    BY <1>1, Zenon DEF ReadFrom, LineWasSent
  <2>. QED
    BY <2>2, <2>3
<1>2. CASE CbTimeout \/ CbReadFails \/ CbEof
  <2>1. Blank'
    BY <1>2 DEF CbTimeout, CbReadFails, CbEof, End, FreshInv, Blank
  <2>2. calls' \in {<<"timeout">>, <<"error">>, <<"eof">>}
    BY <1>2 DEF CbTimeout, CbReadFails, CbEof
  <2>3. LineWasSent'
    BY <2>2 DEF LineWasSent
  <2>. QED
    BY <2>1, <2>3
<1>3. ASSUME NEW n \in 1..Size, CbChunk(n)
      PROVE  Blank' /\ LineWasSent'
  <2>1. /\ buffer' = Filled(n) /\ cursor' = cursor + n /\ n \in Chunks
        /\ ev = "added" /\ UNCHANGED <<stream, reads, calls, line>>
        /\ taken' = taken + n
    BY <1>3 DEF CbChunk
  <2>2. /\ \A i \in Slots : i >= cursor + n => Filled(n)[i] = buffer[i]
        /\ n \in Nat /\ taken \in Nat /\ cursor \in Nat
    BY <2>1, FilledIsTaken DEF FreshInv, BufferInv
  <2>3. reads # 0 /\ \A i \in Slots : i >= cursor => buffer[i] # "lf"
    BY <2>1 DEF FreshInv, Blank
  <2>4. Blank'
    BY <2>1, <2>2, <2>3, SizeNat DEF Blank, Slots
  <2>5. LineWasSent'
    BY <2>1, <2>2 DEF FreshInv, LineWasSent
  <2>. QED
    BY <2>4, <2>5
<1>4. ASSUME NEW n \in 1..Size, NEW nl \in Slots, CbLine(n, nl)
      PROVE  Blank' /\ LineWasSent'
  <2>1. /\ ev = "added" /\ ev' \in {"null", "crash"} /\ n \in Chunks
        /\ nl \in Hits(n) /\ taken' = taken + n
        /\ UNCHANGED <<stream, reads>>
    BY <1>4 DEF CbLine
  <2>2. line' = Contract!LineUpTo(stream, nl + 1)
    BY <1>4, <2>1, LineFound DEF CbLine, FreshInv
  <2>3. nl + 1 \in 1..taken' /\ stream[nl + 1] = "lf"
    <3>1. n \in Nat /\ taken \in Nat
      BY <2>1, FilledIsTaken DEF FreshInv, BufferInv
    <3>2. nl + 1 \in (taken + 1)..(taken + n) /\ stream[nl + 1] = "lf"
      BY <2>1, LineFound DEF FreshInv
    <3>. QED
      BY <2>1, <3>1, <3>2
  <2>4. Blank'
    BY <2>1 DEF FreshInv, Blank
  <2>5. LineWasSent'
    BY <2>1, <2>2, <2>3 DEF LineWasSent, Contract!LineUpTo
  <2>. QED
    BY <2>4, <2>5
<1>5. CASE UNCHANGED vars
  BY <1>5 DEF vars, FreshInv, Blank, LineWasSent, Contract!LineUpTo
<1>. QED
  BY <1>1, <1>2, <1>3, <1>4, <1>5 DEF Next, CbRead

\* A reader used for one read never hands got_line a byte that the peer did
\* not send, nor skips one, however long the stream is.
THEOREM ReaderLineWasSent ==
  ASSUME MaxReads <= 1
  PROVE  Spec => []LineWasSent
<1>1. FreshInv => LineWasSent
  BY DEF FreshInv
<1>. QED
  BY FreshInit, FreshStep, <1>1, PTL DEF Spec

-------------------------------------------------------------------------------
(* Requests of at most half the buffer, on a reader that reads once.         *)

ShortInv == FreshInv /\ NoLineMissed

\* In a short request the bytes memchr searches after a chunk of n include
\* the whole chunk.
LEMMA WindowCoversChunk ==
  ASSUME 2 * MaxStream <= Size, BufferInv, Busy, NEW n \in Chunks,
         NEW i \in (taken + 1)..(taken + n), stream[i] = "lf"
  PROVE  i - 1 \in Hits(n)
<1>1. /\ \A j \in 1..(taken + n) : Filled(n)[j - 1] = stream[j]
      /\ cursor = taken /\ taken + n <= Len(stream)
      /\ n \in Nat \ {0} /\ taken \in Nat /\ Len(stream) \in 0..MaxStream
  BY FilledIsTaken DEF BufferInv
<1>2. i - 1 \in cursor..(Size - n - 1)
  BY <1>1, SizeNat
<1>3. Filled(n)[i - 1] = "lf"
  BY <1>1
<1>. QED
  BY <1>2, <1>3 DEF Hits

\* The newline of a short request that read_chunk finds is its first one.
LEMMA FirstLineFound ==
  ASSUME 2 * MaxStream <= Size, ShortInv, Busy, NEW n \in Chunks,
         NEW nl \in Hits(n), \A i \in Hits(n) : nl <= i
  PROVE  Contract!IsFirstLine(stream, Contract!LineUpTo(stream, nl + 1))
<1>1. /\ taken + n <= Len(stream) /\ n \in Nat /\ taken \in Nat
      /\ Len(stream) \in Nat
  BY FilledIsTaken DEF ShortInv, FreshInv, BufferInv
<1>2. nl + 1 \in (taken + 1)..(taken + n) /\ stream[nl + 1] = "lf"
      /\ nl \in Nat
  <2>1. /\ nl + 1 \in (taken + 1)..(taken + n) /\ stream[nl + 1] = "lf"
        /\ nl \in Slots
    BY LineFound DEF ShortInv, FreshInv
  <2>. QED
    BY <2>1, SizeNat DEF Slots
<1>3. ASSUME NEW j \in 1..nl, stream[j] = "lf" PROVE FALSE
  <2>1. j > taken
    BY <1>1, <1>3 DEF ShortInv, NoLineMissed
  <2>2. j \in (taken + 1)..(taken + n)
    BY <1>1, <1>2, <2>1
  <2>3. j - 1 \in Hits(n)
    BY <1>3, <2>2, WindowCoversChunk DEF ShortInv, FreshInv
  <2>. QED
    BY <1>1, <1>2, <2>3
<1>4. Contract!IsFirstLf(stream, nl + 1)
  BY <1>1, <1>2, <1>3 DEF Contract!IsFirstLf
<1>. QED
  BY <1>1, <1>2, <1>4 DEF Contract!IsFirstLine

\* A step that leaves a short request in the buffer has seen no newline in it.
LEMMA ShortStep ==
  ASSUME MaxReads <= 1, 2 * MaxStream <= Size
  PROVE  ShortInv /\ [Next]_vars => ShortInv'
<1>. SUFFICES ASSUME ShortInv, [Next]_vars
              PROVE  NoLineMissed'
  BY FreshStep DEF ShortInv
<1>. USE DEF Busy
<1>1. CASE ReadFrom
  BY <1>1 DEF ReadFrom, NoLineMissed
<1>2. CASE CbTimeout \/ CbReadFails \/ CbEof
  BY <1>2 DEF CbTimeout, CbReadFails, CbEof, End, NoLineMissed
<1>3. ASSUME NEW n \in 1..Size, CbChunk(n)
      PROVE  NoLineMissed'
  <2>1. /\ taken' = taken + n /\ stream' = stream /\ ev = "added"
        /\ n \in Chunks /\ Hits(n) = {}
    BY <1>3 DEF CbChunk
  <2>2. n \in Nat /\ taken \in Nat
    BY <2>1, FilledIsTaken DEF ShortInv, FreshInv, BufferInv
  <2>3. ASSUME NEW i \in 1..(taken + n)
        PROVE  stream[i] # "lf"
    <3>1. CASE i <= taken
      BY <2>1, <2>2, <3>1 DEF ShortInv, NoLineMissed
    <3>2. CASE i > taken
      <4>1. i \in (taken + 1)..(taken + n)
        BY <2>2, <3>2
      <4>. QED
        BY <2>1, <4>1, WindowCoversChunk DEF ShortInv, FreshInv
    <3>. QED
      BY <2>2, <3>1, <3>2
  <2>. QED
    BY <2>1, <2>3 DEF NoLineMissed
<1>4. ASSUME NEW n \in 1..Size, NEW nl \in Slots, CbLine(n, nl)
      PROVE  NoLineMissed'
  BY <1>4 DEF CbLine, NoLineMissed
<1>5. CASE UNCHANGED vars
  BY <1>5 DEF vars, ShortInv, NoLineMissed
<1>. QED
  BY <1>1, <1>2, <1>3, <1>4, <1>5 DEF Next, CbRead

\* Nothing has been received at first.
LEMMA ShortInit == Init => ShortInv
  BY FreshInit DEF Init, ShortInv, NoLineMissed, Busy

\* A whole line of a request of at most half the buffer is never left in the
\* buffer, however the request is cut in chunks.
THEOREM ShortLineNotMissed ==
  ASSUME MaxReads <= 1, 2 * MaxStream <= Size
  PROVE  Spec => []NoLineMissed
<1>1. ShortInv => NoLineMissed
  BY DEF ShortInv
<1>. QED
  BY ShortInit, ShortStep, <1>1, PTL DEF Spec

\* Every step of the reader is a step of what proto.h promises.
LEMMA ContractStep ==
  ASSUME MaxReads <= 1, 2 * MaxStream <= Size, ShortInv, [Next]_vars
  PROVE  [Contract!Next]_(Contract!vars)
<1>. USE DEF Busy
<1>1. CASE ReadFrom
  BY <1>1 DEF ReadFrom, Schedule, Contract!Next, Contract!Start
<1>2. CASE CbTimeout
  BY <1>2 DEF CbTimeout, End, Contract!Next, Contract!GotTimeout, Contract!Finish
<1>3. CASE CbReadFails
  BY <1>3 DEF CbReadFails, End, Contract!Next, Contract!GotError, Contract!Finish
<1>4. CASE CbEof
  <2>1. /\ taken = cursor /\ taken \in 0..Len(stream)
        /\ Len(stream) \in 0..MaxStream
    BY <1>4, StreamsType
    DEF CbEof, ShortInv, FreshInv, BufferInv, BufferedIsTaken, TypeOK
  <2>2. taken = Len(stream)
    BY <1>4, <2>1, SizeNat DEF CbEof, Room
  <2>3. fin /\ ~ Contract!HasLine(stream)
    BY <1>4, <2>1, <2>2
    DEF CbEof, Readable, ShortInv, NoLineMissed, Contract!HasLine
  <2>. QED
    BY <1>4, <2>3 DEF CbEof, End, Contract!Next, Contract!GotEof, Contract!Finish
<1>5. ASSUME NEW n \in 1..Size, CbChunk(n)
      PROVE  UNCHANGED Contract!vars
  BY <1>5 DEF CbChunk, Schedule, Contract!vars
<1>6. ASSUME NEW n \in 1..Size, NEW nl \in Slots, CbLine(n, nl)
      PROVE  Contract!GotLine
  <2>1. /\ ev = "added" /\ ev' \in {"null", "crash"} /\ n \in Chunks
        /\ nl \in Hits(n) /\ \A i \in Hits(n) : nl <= i
        /\ calls' = <<"line">> \/ calls' = <<"line", "error">>
        /\ UNCHANGED <<stream, fin>>
    BY <1>6 DEF CbLine
  <2>2. line' = Contract!LineUpTo(stream, nl + 1)
    BY <1>6, <2>1, LineFound DEF CbLine, ShortInv, FreshInv
  <2>3. Contract!IsFirstLine(stream, line')
    BY <2>1, <2>2, FirstLineFound
  <2>. QED
    BY <2>1, <2>3 DEF Contract!GotLine, Contract!Finish
<1>7. CASE UNCHANGED vars
  BY <1>7 DEF vars, Contract!vars
<1>. QED
  BY <1>1, <1>2, <1>3, <1>4, <1>5, <1>6, <1>7 DEF Next, CbRead, Contract!Next

\* A reader that reads once implements what proto.h promises of it, when the
\* request is at most half the buffer: got_line gets the first line, got_eof
\* is only called when the peer closed without sending one.
THEOREM ReaderImplementsContract ==
  ASSUME MaxReads <= 1, 2 * MaxStream <= Size
  PROVE  Spec => ImplementsContract
<1>1. Init => Contract!Init
  BY DEF Init, Contract!Init
<1>2. ShortInv /\ [Next]_vars => [Contract!Next]_(Contract!vars)
  BY ContractStep
<1>. QED
  BY ShortInit, ShortStep, <1>1, <1>2, PTL
  DEF Spec, ImplementsContract, Contract!Spec
===============================================================================
