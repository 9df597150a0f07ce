--------------------------- MODULE GopherServerProofs ---------------------------
(***************************************************************************)
(* The server of GopherServer, proved for any number of connections and    *)
(* descriptors, any buffer and any reply: no callback outlives its         *)
(* session, the three views of the descriptors agree, every byte goes      *)
(* where it should, a session ends alone, and the whole implements         *)
(* GopherService.                                                          *)
(***************************************************************************)
EXTENDS GopherServer, TLAPS

USE NoneAssumption, SizeAssumption, RepliesAssumption, FaultsAssumption

\* A Session object exists exactly while its connection is open.
LiveIsOpen == \A c \in Conns : outcome[c] = "open" <=> Alive(c)

\* What ~Session leaves of the reader and the writer.
DeadIsEmpty ==
  \A c \in Conns : ~ Alive(c) => /\ writer[c] = "none"
                                 /\ fdesc[c] = NoFd
                                 /\ cursor[c] = 0

\* A FileWriter has a file, and nothing else has.
FileWriterHasFile == \A c \in Conns : writer[c] = "file" <=> fdesc[c] # NoFd

\* There is no reply to a request that was not made.
NotAskedYet ==
  \A c \in Conns :
    outcome[c] = "waiting" \/ (outcome[c] = "open" /\ writer[c] = "none")
    => size[c] = 0 /\ sent[c] = 0

Inv == /\ TypeOK
       /\ EventsOwned
       /\ FdAccounting
       /\ BytesAccounted
       /\ LiveIsOpen
       /\ DeadIsEmpty
       /\ FileWriterHasFile
       /\ NotAskedYet

-------------------------------------------------------------------------------
(* The steps of the server, as the proofs need them.                       *)

\* The session of c ends, after n more bytes of its reply, by a callback that
\* may have lost a free descriptor.
SessionEnds(c, why, n) ==
  /\ Serving
  /\ Alive(c)
  /\ why \in Outcomes \ {"waiting", "open"}
  /\ n \in 0..(size[c] - sent[c])
  /\ why = "served" => n = size[c] - sent[c] /\ writer[c] # "none"
  /\ \E tbl \in [Fds -> FdUses] :
       /\ \A f \in Fds : \/ tbl[f] = fdTable[f]
                         \/ fdTable[f] = Free /\ tbl[f] = <<"leaked", NoConn>>
       /\ Close(c, why, tbl)
  /\ sent' = [sent EXCEPT ![c] = @ + n]
  /\ UNCHANGED <<phase, size>>

\* A reply of n bytes to c is ready, by LineBytes or by LineFile.
ReplyStarts(c, kind, n) ==
  /\ Asked(c)
  /\ StartWriting(c, kind, n)
  /\ fileLeft' \in [Conns -> 0..MaxReply]
  /\ \/ kind = "bytes" /\ UNCHANGED <<fdTable, fdesc>>
     \/ /\ kind = "file"
        /\ \E f \in FreeFds : /\ fdTable' = [fdTable EXCEPT ![f] = <<"file", c>>]
                              /\ fdesc' = [fdesc EXCEPT ![c] = f]

\* The server goes on to another phase, and nothing else happens.
PhaseChanges ==
  /\ Serving
  /\ phase' \in {"exiting", "aborted", "stuck"}
  /\ UNCHANGED <<fdTable, sessions, outcome, clsock, events, wvars, size, sent>>

-------------------------------------------------------------------------------
(* What the parts of Inv say of a session whose callback runs.             *)

\* A session that exists has a descriptor of its own, under which the table
\* has it.
LEMMA AliveOwnsSocket ==
  ASSUME Inv, NEW c \in Conns, Alive(c)
  PROVE  /\ clsock[c] \in Fds
         /\ sessions[clsock[c]] = c
         /\ fdTable[clsock[c]] = <<"sock", c>>
         /\ outcome[c] = "open"
         /\ fdesc[c] # clsock[c]
<1>1. clsock[c] \in Fds
  BY DEF Inv, TypeOK, Alive
<1>2. sessions[clsock[c]] = c /\ outcome[c] = "open"
  BY <1>1 DEF Inv, OneSession, FdAccounting, LiveIsOpen
<1>3. fdTable[clsock[c]] = <<"sock", c>>
  BY <1>1 DEF Inv, FdAccounting
<1>4. fdesc[c] # clsock[c]
  <2>. SUFFICES ASSUME fdesc[c] = clsock[c] PROVE FALSE
    OBVIOUS
  <2>1. fdTable[clsock[c]] = <<"file", c>>
    BY <1>1 DEF Inv, FdAccounting
  <2>. QED
    BY <2>1, <1>3
<1>. QED
  BY <1>1, <1>2, <1>3, <1>4

\* cb_read runs on a session that exists, that no reply was made for, and
\* that waits for nothing else.
LEMMA ReaderAlive ==
  ASSUME Inv, NEW c \in Conns, Reading(c)
  PROVE  /\ Alive(c)
         /\ writer[c] = "none"
         /\ fdesc[c] = NoFd
         /\ size[c] = 0
         /\ sent[c] = 0
         /\ \A e \in events : e.conn = c => e = Event("read", c, clsock[c])
<1>1. Event("read", c, clsock[c]) \in events
  BY DEF Reading
<1>2. /\ Event("read", c, clsock[c]).conn = c
      /\ Event("read", c, clsock[c]).kind = "read"
      /\ Event("read", c, clsock[c]).fd = clsock[c]
  BY DEF Event
<1>3. writer[c] = "none"
  BY <1>1, <1>2 DEF Inv, EventsOwned
<1>4. Event("read", c, clsock[c]).fd \in Fds
  BY <1>1 DEF Inv, TypeOK
<1>5. Alive(c)
  BY <1>2, <1>4 DEF Alive
<1>6. fdesc[c] = NoFd
  BY <1>3 DEF Inv, FileWriterHasFile
<1>7. size[c] = 0 /\ sent[c] = 0
  BY <1>3, <1>5, AliveOwnsSocket DEF Inv, NotAskedYet
<1>8. ASSUME NEW e \in events, e.conn = c
      PROVE  e = Event("read", c, clsock[c])
  BY <1>3, <1>8 DEF Inv, TypeOK, EventsOwned, Event
<1>. QED
  BY <1>3, <1>5, <1>6, <1>7, <1>8

\* cb_write runs on a session that exists and is answering, on the socket
\* of its own client.
LEMMA WriterAlive ==
  ASSUME Inv, NEW c \in Conns, Writing(c)
  PROVE  /\ Alive(c)
         /\ writer[c] # "none"
         /\ PeerOf(c) = c
         /\ sent[c] + toSend[c] = size[c]
         /\ \A e \in events : e.conn = c => e = Event("write", c, clsock[c])
<1>1. Event("write", c, clsock[c]) \in events
  BY DEF Writing
<1>2. /\ Event("write", c, clsock[c]).conn = c
      /\ Event("write", c, clsock[c]).kind = "write"
      /\ Event("write", c, clsock[c]).fd = clsock[c]
  BY DEF Event
<1>3. writer[c] # "none"
  BY <1>1, <1>2 DEF Inv, EventsOwned
<1>4. Event("write", c, clsock[c]).fd \in Fds
  BY <1>1 DEF Inv, TypeOK
<1>5. Alive(c)
  BY <1>2, <1>4 DEF Alive
<1>6. PeerOf(c) = c
  BY <1>5, AliveOwnsSocket DEF PeerOf
<1>7. sent[c] + toSend[c] = size[c]
  BY <1>3 DEF Inv, BytesAccounted
<1>8. ASSUME NEW e \in events, e.conn = c
      PROVE  e = Event("write", c, clsock[c])
  BY <1>3, <1>8 DEF Inv, TypeOK, EventsOwned, Event
<1>. QED
  BY <1>3, <1>5, <1>6, <1>7, <1>8

\* The numbers a chunk leaves.
LEMMA TakenBounds ==
  ASSUME Inv, NEW c \in Conns, Writing(c), NEW n \in Taken(c)
  PROVE  /\ n \in Nat
         /\ n <= toSend[c]
         /\ Remaining(c, n) \in 0..MaxReply
         /\ sent[c] + n + Remaining(c, n) = size[c]
         /\ writer[c] = "file" => n <= fileLeft[c]
<1>1. /\ toSend[c] \in 0..MaxReply
      /\ sent[c] \in 0..MaxReply
      /\ writer[c] \in {"bytes", "file"}
      /\ sent[c] + toSend[c] = size[c]
  BY WriterAlive DEF Inv, TypeOK
<1>. QED
  BY <1>1 DEF Taken, Remaining

\* Session::close() destroys the session it is called on, and no other.
LEMMA CloseDestroysOne ==
  ASSUME Inv, NEW c \in Conns, Alive(c), NEW why, NEW tbl, Close(c, why, tbl)
  PROVE  /\ sessions' = [f \in Fds |-> IF f = clsock[c] THEN NoConn ELSE sessions[f]]
         /\ Destroy({c}, tbl)
         /\ outcome' = [outcome EXCEPT ![c] = why]
<1>1. /\ clsock[c] \in Fds
      /\ sessions[clsock[c]] = c
  BY AliveOwnsSocket
<1>2. {sessions[f] : f \in Erased(clsock[c])} \ {NoConn} = {c}
  BY <1>1 DEF Erased
<1>3. \A f : f \in Erased(clsock[c]) <=> f = clsock[c]
  BY DEF Erased
<1>. QED
  BY <1>2, <1>3 DEF Close

-------------------------------------------------------------------------------
(* Inv is inductive.                                                       *)

\* What is left after a session has ended.
LEMMA EndEffect ==
  ASSUME Inv, NEW c \in Conns, NEW why, NEW n, SessionEnds(c, why, n)
  PROVE  /\ sessions' = [f \in Fds |-> IF f = clsock[c] THEN NoConn ELSE sessions[f]]
         /\ outcome' = [outcome EXCEPT ![c] = why]
         /\ clsock' = [d \in Conns |-> IF d = c THEN NoFd ELSE clsock[d]]
         /\ fdesc' = [d \in Conns |-> IF d = c THEN NoFd ELSE fdesc[d]]
         /\ cursor' = [d \in Conns |-> IF d = c THEN 0 ELSE cursor[d]]
         /\ writer' = [d \in Conns |-> IF d = c THEN "none" ELSE writer[d]]
         /\ toSend' = [d \in Conns |-> IF d = c THEN 0 ELSE toSend[d]]
         /\ fileLeft' = [d \in Conns |-> IF d = c THEN 0 ELSE fileLeft[d]]
         /\ spin' = [d \in Conns |-> IF d = c THEN FALSE ELSE spin[d]]
         /\ events' = {e \in events : e.conn # c}
         /\ \E tbl \in [Fds -> FdUses] :
              /\ \A f \in Fds : \/ tbl[f] = fdTable[f]
                                \/ fdTable[f] = Free /\ tbl[f] = <<"leaked", NoConn>>
              /\ fdTable' = [f \in Fds |-> IF f = clsock[c] \/ f = fdesc[c]
                                           THEN Free ELSE tbl[f]]
<1>1. PICK tbl \in [Fds -> FdUses] :
        /\ \A f \in Fds : \/ tbl[f] = fdTable[f]
                          \/ fdTable[f] = Free /\ tbl[f] = <<"leaked", NoConn>>
        /\ Close(c, why, tbl)
  BY DEF SessionEnds
<1>2. /\ sessions' = [f \in Fds |-> IF f = clsock[c] THEN NoConn ELSE sessions[f]]
      /\ Destroy({c}, tbl)
      /\ outcome' = [outcome EXCEPT ![c] = why]
  BY <1>1, CloseDestroysOne DEF SessionEnds
<1>3. fdTable' = [f \in Fds |-> IF f = clsock[c] \/ f = fdesc[c]
                               THEN Free ELSE tbl[f]]
  BY <1>2 DEF Destroy, ClosedBy
<1>. QED
  BY <1>1, <1>2, <1>3 DEF Destroy, EventsWithout

\* The end of a session.
LEMMA EndPreserves ==
  ASSUME Inv, NEW c \in Conns, NEW why, NEW n, SessionEnds(c, why, n)
  PROVE  Inv'
<1>1. /\ sessions' = [f \in Fds |-> IF f = clsock[c] THEN NoConn ELSE sessions[f]]
      /\ outcome' = [outcome EXCEPT ![c] = why]
      /\ UNCHANGED <<phase, size>>
      /\ sent' = [sent EXCEPT ![c] = @ + n]
      /\ sent[c] + n <= size[c]
      /\ n \in Nat
      /\ why = "served" => sent[c] + n = size[c]
      /\ why \in Outcomes \ {"waiting", "open"}
  <2>1. sent[c] \in Nat /\ size[c] \in Nat
    BY DEF Inv, TypeOK
  <2>2. /\ n \in 0..(size[c] - sent[c])
        /\ why \in Outcomes \ {"waiting", "open"}
        /\ why = "served" => n = size[c] - sent[c]
        /\ sent' = [sent EXCEPT ![c] = @ + n]
        /\ UNCHANGED <<phase, size>>
    BY DEF SessionEnds
  <2>3. /\ n \in Nat
        /\ sent[c] + n <= size[c]
        /\ why = "served" => sent[c] + n = size[c]
    BY <2>1, <2>2
  <2>4. /\ sessions' = [f \in Fds |-> IF f = clsock[c] THEN NoConn ELSE sessions[f]]
        /\ outcome' = [outcome EXCEPT ![c] = why]
    BY EndEffect
  <2>. QED
    BY <2>2, <2>3, <2>4
<1>2. /\ clsock' = [d \in Conns |-> IF d = c THEN NoFd ELSE clsock[d]]
      /\ fdesc' = [d \in Conns |-> IF d = c THEN NoFd ELSE fdesc[d]]
      /\ cursor' = [d \in Conns |-> IF d = c THEN 0 ELSE cursor[d]]
      /\ writer' = [d \in Conns |-> IF d = c THEN "none" ELSE writer[d]]
      /\ toSend' = [d \in Conns |-> IF d = c THEN 0 ELSE toSend[d]]
      /\ fileLeft' = [d \in Conns |-> IF d = c THEN 0 ELSE fileLeft[d]]
      /\ spin' = [d \in Conns |-> IF d = c THEN FALSE ELSE spin[d]]
      /\ events' = {e \in events : e.conn # c}
  BY EndEffect
<1>tbl. PICK tbl \in [Fds -> FdUses] :
          /\ \A f \in Fds : \/ tbl[f] = fdTable[f]
                            \/ fdTable[f] = Free /\ tbl[f] = <<"leaked", NoConn>>
          /\ fdTable' = [f \in Fds |-> IF f = clsock[c] \/ f = fdesc[c]
                                       THEN Free ELSE tbl[f]]
  BY EndEffect
<1>3. /\ clsock[c] \in Fds
      /\ sessions[clsock[c]] = c
      /\ fdTable[clsock[c]] = <<"sock", c>>
      /\ fdesc[c] # clsock[c]
      /\ outcome[c] = "open"
  BY AliveOwnsSocket DEF SessionEnds
<1>4. TypeOK'
  <2>1. Free \in FdUses
    BY DEF FdUses
  <2>2. fdTable' \in [Fds -> FdUses]
    BY <1>tbl, <2>1
  <2>3. sessions' \in [Fds -> Conns \cup {NoConn}] /\ outcome' \in [Conns -> Outcomes]
    BY <1>1 DEF Inv, TypeOK
  <2>4. /\ clsock' \in [Conns -> Fds \cup {NoFd}]
        /\ fdesc' \in [Conns -> Fds \cup {NoFd}]
        /\ cursor' \in [Conns -> 0..BufSize]
        /\ toSend' \in [Conns -> 0..MaxReply]
        /\ fileLeft' \in [Conns -> 0..MaxReply]
        /\ writer' \in [Conns -> {"none", "bytes", "file"}]
    BY <1>2 DEF Inv, TypeOK
  <2>5. spin' \in [Conns -> BOOLEAN]
    <3>1. \A d \in Conns : (IF d = c THEN FALSE ELSE spin[d]) \in BOOLEAN
      BY Zenon DEF Inv, TypeOK
    <3>. QED
      BY <3>1, <1>2, Zenon
  <2>6. sent' \in [Conns -> 0..MaxReply]
    BY <1>1 DEF Inv, TypeOK
  <2>. QED
    BY <1>1, <1>2, <2>2, <2>3, <2>4, <2>5, <2>6 DEF Inv, TypeOK
<1>5. EventsOwned'
  BY <1>2 DEF Inv, TypeOK, EventsOwned
<1>6. OneSession'
  BY <1>1, <1>2, <1>3 DEF Inv, TypeOK, OneSession, FdAccounting
<1>7. FdAccounting'
  <2>1. ASSUME NEW f \in Fds, NEW d \in Conns
        PROVE  fdTable'[f] = <<"sock", d>> <=> clsock'[d] = f
    <3>1. fdTable[f] = <<"sock", d>> <=> clsock[d] = f
      BY DEF Inv, FdAccounting
    <3>2. CASE f = clsock[c]
      BY <3>1, <3>2, <1>2, <1>3, <1>tbl DEF Free
    <3>3. CASE f = fdesc[c]
      <4>1. fdTable[f] = <<"file", c>>
        BY <3>3 DEF Inv, FdAccounting
      <4>. QED
        BY <3>1, <3>3, <4>1, <1>2, <1>tbl DEF Free
    <3>4. CASE f # clsock[c] /\ f # fdesc[c]
      <4>1. fdTable'[f] = <<"sock", d>> <=> fdTable[f] = <<"sock", d>>
        BY <3>4, <1>tbl DEF Free
      <4>. QED
        BY <3>1, <3>4, <4>1, <1>2
    <3>. QED
      BY <3>2, <3>3, <3>4
  <2>2. ASSUME NEW f \in Fds, NEW d \in Conns
        PROVE  fdTable'[f] = <<"file", d>> <=> fdesc'[d] = f
    <3>1. fdTable[f] = <<"file", d>> <=> fdesc[d] = f
      BY DEF Inv, FdAccounting
    <3>2. CASE f = clsock[c]
      BY <3>1, <3>2, <1>2, <1>3, <1>tbl DEF Free
    <3>3. CASE f = fdesc[c]
      <4>1. fdTable[f] = <<"file", c>>
        BY <3>3 DEF Inv, FdAccounting
      <4>. QED
        BY <3>1, <3>3, <4>1, <1>2, <1>tbl DEF Free
    <3>4. CASE f # clsock[c] /\ f # fdesc[c]
      <4>1. fdTable'[f] = <<"file", d>> <=> fdTable[f] = <<"file", d>>
        BY <3>4, <1>tbl DEF Free
      <4>. QED
        BY <3>1, <3>4, <4>1, <1>2
    <3>. QED
      BY <3>2, <3>3, <3>4
  <2>. QED
    BY <2>1, <2>2, <1>6 DEF FdAccounting, OneSession
<1>8. BytesAccounted'
  BY <1>1, <1>2 DEF Inv, TypeOK, BytesAccounted
<1>9. LiveIsOpen' /\ DeadIsEmpty' /\ FileWriterHasFile'
  BY <1>1, <1>2 DEF Inv, TypeOK, LiveIsOpen, DeadIsEmpty, FileWriterHasFile, Alive
<1>10. NotAskedYet'
  BY <1>1, <1>2 DEF Inv, TypeOK, NotAskedYet
<1>. QED
  BY <1>4, <1>5, <1>6, <1>7, <1>8, <1>9, <1>10 DEF Inv

\* A new connection: no descriptor the kernel may hand out is in the table.
LEMMA AcceptPreserves ==
  ASSUME Inv, NEW c \in Conns, NEW f \in Fds, Accept(c, f)
  PROVE  Inv' /\ UNCHANGED phase
<1>1. fdTable[f] = Free
  BY DEF Accept, FreeFds
<1>2. \A d \in Conns : clsock[d] # f /\ fdesc[d] # f
  BY <1>1 DEF Inv, FdAccounting, Free
<1>3. sessions[f] = NoConn
  BY <1>2 DEF Inv, TypeOK, OneSession, FdAccounting
<1>4. /\ sessions' = [sessions EXCEPT ![f] = c]
      /\ outcome' = [outcome EXCEPT ![c] = "open"]
      /\ fdTable' = [fdTable EXCEPT ![f] = <<"sock", c>>]
      /\ clsock' = [clsock EXCEPT ![c] = f]
      /\ events' \in {events, events \cup {Event("read", c, f)}}
      /\ UNCHANGED <<phase, cursor, writer, fdesc, toSend, fileLeft, spin, size, sent>>
  BY <1>3 DEF Accept, StartReading, wvars
<1>5. /\ clsock[c] = NoFd
      /\ outcome[c] = "waiting"
      /\ writer[c] = "none"
  BY DEF Accept, Inv, LiveIsOpen, DeadIsEmpty, Alive
<1>6. TypeOK'
  BY <1>4 DEF Inv, TypeOK, FdUses, Event, Outcomes
<1>7. EventsOwned'
  BY <1>4, <1>5 DEF Inv, TypeOK, EventsOwned, Event
<1>8. OneSession'
  BY <1>2, <1>3, <1>4, <1>5 DEF Inv, TypeOK, OneSession, FdAccounting
<1>9. FdAccounting'
  <2>1. ASSUME NEW g \in Fds, NEW d \in Conns
        PROVE  fdTable'[g] = <<"sock", d>> <=> clsock'[d] = g
    BY <1>2, <1>4, <1>5 DEF Inv, TypeOK, FdAccounting
  <2>2. ASSUME NEW g \in Fds, NEW d \in Conns
        PROVE  fdTable'[g] = <<"file", d>> <=> fdesc'[d] = g
    BY <1>2, <1>4 DEF Inv, TypeOK, FdAccounting
  <2>. QED
    BY <2>1, <2>2, <1>8 DEF FdAccounting, OneSession
<1>10. BytesAccounted'
  BY <1>4 DEF Inv, TypeOK, BytesAccounted
<1>11. LiveIsOpen' /\ DeadIsEmpty' /\ FileWriterHasFile'
  BY <1>4 DEF Inv, TypeOK, LiveIsOpen, DeadIsEmpty, FileWriterHasFile, Alive
<1>12. NotAskedYet'
  BY <1>4, <1>5 DEF Inv, TypeOK, NotAskedYet
<1>. QED
  BY <1>4, <1>6, <1>7, <1>8, <1>9, <1>10, <1>11, <1>12 DEF Inv

\* Another phase: the sessions stay as they are.
LEMMA PhasePreserves ==
  ASSUME Inv, PhaseChanges
  PROVE  Inv'
<1>1. TypeOK'
  BY DEF PhaseChanges, Inv, TypeOK, wvars
<1>2. FdAccounting'
  BY DEF PhaseChanges, Inv, FdAccounting, OneSession, wvars
<1>3. EventsOwned' /\ BytesAccounted'
  BY DEF PhaseChanges, Inv, EventsOwned, BytesAccounted, wvars
<1>4. LiveIsOpen' /\ DeadIsEmpty' /\ FileWriterHasFile' /\ NotAskedYet'
  BY DEF PhaseChanges, Inv, LiveIsOpen, DeadIsEmpty, FileWriterHasFile,
         NotAskedYet, Alive, wvars
<1>. QED
  BY <1>1, <1>2, <1>3, <1>4 DEF Inv

\* The end of the loop destroys every session.
LEMMA StopPreserves ==
  ASSUME Inv, Stop
  PROVE  Inv'
<1>1. /\ phase' = "stopped"
      /\ sessions' = [f \in Fds |-> NoConn]
      /\ outcome' = [c \in Conns |-> IF Alive(c) THEN "cut" ELSE outcome[c]]
      /\ UNCHANGED <<size, sent>>
  BY DEF Stop
<1>2. /\ fdTable' = [f \in Fds |-> IF f \in ClosedBy({c \in Conns : Alive(c)})
                                   THEN Free ELSE fdTable[f]]
      /\ events' = {e \in events : e.conn \notin {c \in Conns : Alive(c)}}
      /\ cursor' = [c \in Conns |-> IF Alive(c) THEN 0 ELSE cursor[c]]
      /\ toSend' = [c \in Conns |-> IF Alive(c) THEN 0 ELSE toSend[c]]
      /\ fileLeft' = [c \in Conns |-> IF Alive(c) THEN 0 ELSE fileLeft[c]]
      /\ spin' = [c \in Conns |-> IF Alive(c) THEN FALSE ELSE spin[c]]
  BY DEF Stop, Destroy, EventsWithout
<1>3. /\ clsock' = [c \in Conns |-> NoFd]
      /\ fdesc' = [c \in Conns |-> NoFd]
      /\ writer' = [c \in Conns |-> "none"]
  BY DEF Stop, Destroy, Inv, DeadIsEmpty, TypeOK, Alive
<1>4. events' = {}
  BY <1>2 DEF Inv, TypeOK, EventsOwned, Alive
<1>5. \A f \in Fds, c \in Conns : fdTable'[f] \notin {<<"sock", c>>, <<"file", c>>}
  <2>. SUFFICES ASSUME NEW f \in Fds, NEW c \in Conns
                PROVE  fdTable'[f] # <<"sock", c>> /\ fdTable'[f] # <<"file", c>>
    OBVIOUS
  <2>1. CASE f \in ClosedBy({d \in Conns : Alive(d)})
    BY <2>1, <1>2 DEF Free
  <2>2. CASE f \notin ClosedBy({d \in Conns : Alive(d)})
    <3>1. f # clsock[c] /\ f # fdesc[c]
      BY <2>2 DEF ClosedBy, Inv, DeadIsEmpty, Alive
    <3>. QED
      BY <2>2, <3>1, <1>2 DEF Inv, FdAccounting
  <2>. QED
    BY <2>1, <2>2
<1>6. TypeOK'
  <2>1. Free \in FdUses
    BY DEF FdUses
  <2>2. fdTable' \in [Fds -> FdUses]
    BY <2>1, <1>2 DEF Inv, TypeOK
  <2>3. spin' \in [Conns -> BOOLEAN]
    <3>1. \A c \in Conns : (IF Alive(c) THEN FALSE ELSE spin[c]) \in BOOLEAN
      BY Zenon DEF Inv, TypeOK
    <3>. QED
      BY <3>1, <1>2, Zenon
  <2>4. /\ cursor' \in [Conns -> 0..BufSize]
        /\ toSend' \in [Conns -> 0..MaxReply]
        /\ fileLeft' \in [Conns -> 0..MaxReply]
        /\ outcome' \in [Conns -> Outcomes]
    BY <1>1, <1>2 DEF Inv, TypeOK, Outcomes
  <2>. QED
    BY <1>1, <1>3, <1>4, <2>2, <2>3, <2>4 DEF Inv, TypeOK
<1>7. EventsOwned' /\ FdAccounting'
  BY <1>1, <1>3, <1>4, <1>5 DEF EventsOwned, OneSession, FdAccounting
<1>8. BytesAccounted' /\ NotAskedYet'
  BY <1>1, <1>3 DEF Inv, TypeOK, BytesAccounted, NotAskedYet, LiveIsOpen
<1>9. LiveIsOpen' /\ DeadIsEmpty' /\ FileWriterHasFile'
  <2>1. \A c \in Conns : cursor'[c] = 0
    BY <1>2 DEF Inv, DeadIsEmpty
  <2>. QED
    BY <2>1, <1>1, <1>3 DEF Inv, LiveIsOpen, DeadIsEmpty, FileWriterHasFile, Alive
<1>. QED
  BY <1>6, <1>7, <1>8, <1>9 DEF Inv

\* A chunk of the request.
LEMMA ReadMorePreserves ==
  ASSUME Inv, NEW c \in Conns, NEW n \in 1..BufSize, ReadMore(c, n)
  PROVE  Inv'
<1>1. /\ cursor' = [cursor EXCEPT ![c] = @ + n]
      /\ events' \subseteq events
      /\ n \in 1..(BufSize - cursor[c])
      /\ UNCHANGED <<phase, fdTable, sessions, outcome, clsock, writer, fdesc,
                     toSend, fileLeft, spin, size, sent>>
  BY DEF ReadMore, Room
<1>2. Alive(c)
  BY ReaderAlive DEF ReadMore
<1>3. cursor' \in [Conns -> 0..BufSize]
  BY <1>1 DEF Inv, TypeOK
<1>4. TypeOK'
  BY <1>1, <1>3 DEF Inv, TypeOK
<1>5. EventsOwned' /\ FdAccounting' /\ BytesAccounted'
  BY <1>1 DEF Inv, EventsOwned, FdAccounting, BytesAccounted, OneSession
<1>6. LiveIsOpen' /\ FileWriterHasFile' /\ NotAskedYet'
  BY <1>1 DEF Inv, LiveIsOpen, FileWriterHasFile, NotAskedYet, Alive
<1>7. DeadIsEmpty'
  BY <1>1, <1>2 DEF Inv, TypeOK, DeadIsEmpty, Alive
<1>. QED
  BY <1>4, <1>5, <1>6, <1>7 DEF Inv

\* The reply is ready: the writer takes the place of the reader, with a file
\* of its own or with none.
LEMMA StartWritingPreserves ==
  ASSUME Inv, NEW c \in Conns, NEW kind \in {"bytes", "file"},
         NEW n \in 0..MaxReply, ReplyStarts(c, kind, n)
  PROVE  Inv'
<1>1. /\ events' = (events \ {Event("read", c, clsock[c])})
                     \cup {Event("write", c, clsock[c])}
      /\ cursor' = [cursor EXCEPT ![c] = 0]
      /\ writer' = [writer EXCEPT ![c] = kind]
      /\ toSend' = [toSend EXCEPT ![c] = n]
      /\ size' = [size EXCEPT ![c] = n]
      /\ UNCHANGED <<phase, sessions, outcome, clsock, spin, sent>>
  BY DEF ReplyStarts, StartWriting
<1>2. /\ Alive(c)
      /\ clsock[c] \in Fds
      /\ outcome[c] = "open"
      /\ fdesc[c] = NoFd
      /\ sent[c] = 0
      /\ \A e \in events : e.conn = c => e = Event("read", c, clsock[c])
  BY ReaderAlive, AliveOwnsSocket DEF ReplyStarts, Asked
<1>3. fdTable' \in [Fds -> FdUses] /\ fdesc' \in [Conns -> Fds \cup {NoFd}]
  <2>1. <<"file", c>> \in FdUses
    BY DEF FdUses
  <2>. QED
    BY <2>1 DEF ReplyStarts, Inv, TypeOK, FreeFds
<1>4. TypeOK'
  <2>1. events' \subseteq [kind : {"read", "write"}, conn : Conns, fd : Fds]
    BY <1>1, <1>2 DEF Inv, TypeOK, Event
  <2>2. /\ cursor' \in [Conns -> 0..BufSize]
        /\ writer' \in [Conns -> {"none", "bytes", "file"}]
        /\ toSend' \in [Conns -> 0..MaxReply]
        /\ size' \in [Conns -> 0..MaxReply]
        /\ fileLeft' \in [Conns -> 0..MaxReply]
    BY <1>1 DEF Inv, TypeOK, ReplyStarts
  <2>. QED
    BY <2>1, <2>2, <1>1, <1>3 DEF Inv, TypeOK
<1>5. EventsOwned'
  <2>. SUFFICES ASSUME NEW e \in events'
                PROVE  /\ clsock'[e.conn] = e.fd
                       /\ e.kind = IF writer'[e.conn] = "none" THEN "read" ELSE "write"
    BY DEF EventsOwned
  <2>1. CASE e = Event("write", c, clsock[c])
    BY <2>1, <1>1 DEF Inv, TypeOK, Event
  <2>2. CASE e # Event("write", c, clsock[c])
    <3>1. e \in events /\ e.conn # c
      BY <2>2, <1>1, <1>2
    <3>. QED
      BY <3>1, <1>1 DEF Inv, TypeOK, EventsOwned
  <2>. QED
    BY <2>1, <2>2
<1>6. FdAccounting'
  <2>1. CASE kind = "bytes"
    BY <2>1, <1>1 DEF ReplyStarts, Inv, FdAccounting, OneSession
  <2>2. CASE kind = "file"
    <3>1. PICK f \in FreeFds : /\ fdTable' = [fdTable EXCEPT ![f] = <<"file", c>>]
                               /\ fdesc' = [fdesc EXCEPT ![c] = f]
      BY <2>2 DEF ReplyStarts
    <3>2. f \in Fds /\ fdTable[f] = Free
      BY DEF FreeFds
    <3>3. \A d \in Conns : clsock[d] # f /\ fdesc[d] # f
      BY <3>2 DEF Inv, FdAccounting, Free
    <3>4. ASSUME NEW g \in Fds, NEW d \in Conns
          PROVE  fdTable'[g] = <<"sock", d>> <=> clsock'[d] = g
      BY <3>1, <3>2, <3>3, <1>1 DEF Inv, TypeOK, FdAccounting
    <3>5. ASSUME NEW g \in Fds, NEW d \in Conns
          PROVE  fdTable'[g] = <<"file", d>> <=> fdesc'[d] = g
      BY <3>1, <3>2, <3>3, <1>1, <1>2 DEF Inv, TypeOK, FdAccounting
    <3>. QED
      BY <3>4, <3>5, <1>1 DEF Inv, FdAccounting, OneSession
  <2>. QED
    BY <2>1, <2>2
<1>7. FileWriterHasFile'
  BY <1>1, <1>2 DEF ReplyStarts, Inv, TypeOK, FileWriterHasFile, FreeFds
<1>8. BytesAccounted' /\ NotAskedYet'
  BY <1>1, <1>2 DEF Inv, TypeOK, BytesAccounted, NotAskedYet
<1>9. LiveIsOpen'
  BY <1>1 DEF Inv, LiveIsOpen, Alive
<1>10. DeadIsEmpty'
  <2>. SUFFICES ASSUME NEW d \in Conns, clsock'[d] = NoFd
                PROVE  writer'[d] = "none" /\ fdesc'[d] = NoFd /\ cursor'[d] = 0
    BY DEF DeadIsEmpty, Alive
  <2>1. d # c /\ clsock[d] = NoFd
    BY <1>1, <1>2
  <2>2. fdesc'[d] = fdesc[d]
    BY <2>1 DEF ReplyStarts, Inv, TypeOK
  <2>. QED
    BY <2>1, <2>2, <1>1 DEF Inv, TypeOK, DeadIsEmpty, Alive
<1>. QED
  BY <1>4, <1>5, <1>6, <1>7, <1>8, <1>9, <1>10 DEF Inv

\* A chunk of the reply, and more to come.
LEMMA WriteMorePreserves ==
  ASSUME Inv, NEW c \in Conns, NEW n \in 0..MaxReply, WriteMore(c, n)
  PROVE  /\ Inv'
         /\ sent' = [sent EXCEPT ![c] = @ + n]
         /\ sent[c] + n \in sent[c]..size[c]
<1>1. Writing(c) /\ n \in Taken(c)
  BY DEF WriteMore
<1>2. /\ Alive(c)
      /\ writer[c] # "none"
      /\ PeerOf(c) = c
      /\ outcome[c] = "open"
  BY <1>1, WriterAlive, AliveOwnsSocket
<1>3. /\ Remaining(c, n) \in 0..MaxReply
      /\ sent[c] + n + Remaining(c, n) = size[c]
      /\ writer[c] = "file" => n <= fileLeft[c]
  BY <1>1, TakenBounds
<1>4. /\ sent' = [sent EXCEPT ![c] = @ + n]
      /\ toSend' = [toSend EXCEPT ![c] = Remaining(c, n)]
      /\ fileLeft' = [fileLeft EXCEPT ![c] = IF writer[c] = "file" THEN @ - n ELSE @]
      /\ spin' = [spin EXCEPT ![c] = IF n = 0 THEN ~ @ ELSE @]
      /\ UNCHANGED <<phase, fdTable, sessions, outcome, clsock, events, cursor,
                     writer, fdesc, size>>
  BY <1>2 DEF WriteMore, Rescheduled
<1>5. TypeOK'
  <2>1. sent[c] + n \in 0..MaxReply
    BY <1>3 DEF Inv, TypeOK
  <2>2. sent' \in [Conns -> 0..MaxReply]
    BY <2>1, <1>4 DEF Inv, TypeOK
  <2>3. toSend' \in [Conns -> 0..MaxReply]
    BY <1>3, <1>4 DEF Inv, TypeOK
  <2>4. fileLeft' \in [Conns -> 0..MaxReply]
    BY <1>3, <1>4 DEF Inv, TypeOK
  <2>5. spin' \in [Conns -> BOOLEAN]
    <3>1. (IF n = 0 THEN ~ spin[c] ELSE spin[c]) \in BOOLEAN
      BY Zenon DEF Inv, TypeOK
    <3>. QED
      BY <3>1, <1>4, Zenon DEF Inv, TypeOK
  <2>. QED
    BY <2>2, <2>3, <2>4, <2>5, <1>4 DEF Inv, TypeOK
<1>6. EventsOwned' /\ FdAccounting'
  BY <1>4 DEF Inv, EventsOwned, FdAccounting, OneSession
<1>7. LiveIsOpen' /\ DeadIsEmpty' /\ FileWriterHasFile'
  BY <1>4 DEF Inv, LiveIsOpen, DeadIsEmpty, FileWriterHasFile, Alive
<1>8. BytesAccounted' /\ NotAskedYet'
  BY <1>2, <1>3, <1>4 DEF Inv, TypeOK, BytesAccounted, NotAskedYet
<1>. QED
  BY <1>3, <1>4, <1>5, <1>6, <1>7, <1>8 DEF Inv, TypeOK

\* The file shrinks under its writer.
LEMMA TruncatePreserves ==
  ASSUME Inv, NEW c \in Conns, Truncate(c)
  PROVE  Inv'
<1>1. /\ fileLeft' \in [Conns -> 0..MaxReply]
      /\ UNCHANGED <<phase, fdTable, sessions, outcome, clsock, events, cursor,
                     writer, fdesc, toSend, spin, size, sent>>
  BY DEF Truncate, Inv, TypeOK
<1>2. TypeOK'
  BY <1>1 DEF Inv, TypeOK
<1>3. EventsOwned' /\ FdAccounting' /\ BytesAccounted'
  BY <1>1 DEF Inv, EventsOwned, FdAccounting, OneSession, BytesAccounted
<1>4. LiveIsOpen' /\ DeadIsEmpty' /\ FileWriterHasFile' /\ NotAskedYet'
  BY <1>1 DEF Inv, LiveIsOpen, DeadIsEmpty, FileWriterHasFile, NotAskedYet, Alive
<1>. QED
  BY <1>2, <1>3, <1>4 DEF Inv

\* A step of the server is one of these: the first conjunct of each names
\* what happens to the sessions.
LEMMA StepCases ==
  ASSUME Inv, Next
  PROVE  \/ \E c \in Conns, f \in Fds : Accept(c, f)
         \/ \E c \in Conns, n \in 1..BufSize : ReadMore(c, n)
         \/ \E c \in Conns, kind \in {"bytes", "file"}, n \in 0..MaxReply :
              ReplyStarts(c, kind, n)
         \/ \E c \in Conns, n \in 0..MaxReply : WriteMore(c, n)
         \/ \E c \in Conns, why \in Outcomes, n \in Nat : SessionEnds(c, why, n)
         \/ \E c \in Conns : Truncate(c)
         \/ PhaseChanges
         \/ Serving /\ Stop
<1>1. ASSUME NEW c \in Conns, NEW why, ReadEnds(c, why)
      PROVE  SessionEnds(c, why, 0)
  <2>1. Reading(c) /\ why \in {"eof", "error", "timeout"} /\ Close(c, why, fdTable)
    BY <1>1 DEF ReadEnds
  <2>2. Alive(c) /\ size[c] = 0 /\ sent[c] = 0
    BY <2>1, ReaderAlive
  <2>3. sent' = [sent EXCEPT ![c] = @ + 0] /\ UNCHANGED <<phase, size>>
    BY <1>1, <2>2 DEF ReadEnds, Inv, TypeOK
  <2>. QED
    BY <2>1, <2>2, <2>3 DEF SessionEnds, Reading, Outcomes, Inv, TypeOK
<1>2. ASSUME NEW c \in Conns, LineThrows(c)
      PROVE  SessionEnds(c, "error", 0)
  <2>1. Reading(c) /\ Close(c, "error", fdTable)
    BY <1>2 DEF LineThrows, Asked
  <2>2. Alive(c) /\ size[c] = 0 /\ sent[c] = 0
    BY <2>1, ReaderAlive
  <2>3. sent' = [sent EXCEPT ![c] = @ + 0] /\ UNCHANGED <<phase, size>>
    BY <1>2, <2>2 DEF LineThrows, Inv, TypeOK
  <2>. QED
    BY <2>1, <2>2, <2>3 DEF SessionEnds, Reading, Outcomes, Inv, TypeOK
<1>3. ASSUME NEW c \in Conns, NEW f \in Fds, LineFstatFails(c, f)
      PROVE  SessionEnds(c, "error", 0)
  <2>1. /\ Reading(c)
        /\ fdTable[f] = Free
        /\ Close(c, "error", [fdTable EXCEPT ![f] = <<"leaked", NoConn>>])
    BY <1>3 DEF LineFstatFails, Asked, FreeFds
  <2>2. Alive(c) /\ size[c] = 0 /\ sent[c] = 0
    BY <2>1, ReaderAlive
  <2>3. sent' = [sent EXCEPT ![c] = @ + 0] /\ UNCHANGED <<phase, size>>
    BY <1>3, <2>2 DEF LineFstatFails, Inv, TypeOK
  <2>4. PICK tbl : tbl = [fdTable EXCEPT ![f] = <<"leaked", NoConn>>]
    OBVIOUS
  <2>5. /\ tbl \in [Fds -> FdUses]
        /\ \A g \in Fds : \/ tbl[g] = fdTable[g]
                          \/ fdTable[g] = Free /\ tbl[g] = <<"leaked", NoConn>>
    BY <2>1, <2>4 DEF Inv, TypeOK, FdUses
  <2>6. Serving /\ Close(c, "error", tbl)
    BY <2>1, <2>4 DEF Reading
  <2>7. 0 \in 0..(size[c] - sent[c]) /\ "error" \in Outcomes \ {"waiting", "open"}
    BY <2>2 DEF Outcomes
  <2>. QED
    BY <2>2, <2>3, <2>5, <2>6, <2>7, Zenon DEF SessionEnds
<1>4. ASSUME NEW c \in Conns, NEW n \in 0..MaxReply, WriteLast(c, n)
      PROVE  SessionEnds(c, "served", n)
  <2>1. Writing(c) /\ n \in Taken(c) /\ Remaining(c, n) = 0
    BY <1>4 DEF WriteLast
  <2>2. Alive(c) /\ writer[c] # "none" /\ PeerOf(c) = c
    BY <2>1, WriterAlive
  <2>3. n = size[c] - sent[c]
    BY <2>1, TakenBounds DEF Inv, TypeOK
  <2>4. Close(c, "served", fdTable) /\ UNCHANGED <<phase, size>>
    BY <1>4 DEF WriteLast
  <2>5. sent' = [sent EXCEPT ![c] = @ + n]
    BY <1>4, <2>2 DEF WriteLast
  <2>. QED
    BY <2>1, <2>2, <2>3, <2>4, <2>5 DEF SessionEnds, Writing, Outcomes, Inv, TypeOK
<1>5. ASSUME NEW c \in Conns, NEW n \in 0..MaxReply,
             NEW why \in {"error", "timeout"}, WriteFails(c, n, why)
      PROVE  SessionEnds(c, why, n)
  <2>1. Writing(c)
    BY <1>5 DEF WriteFails
  <2>2. Alive(c) /\ PeerOf(c) = c
    BY <2>1, WriterAlive
  <2>3. n \in 0..(size[c] - sent[c])
    <3>1. CASE n = 0
      BY <3>1 DEF Inv, TypeOK, BytesAccounted
    <3>2. CASE n \in Taken(c)
      BY <3>2, <2>1, TakenBounds DEF Inv, TypeOK
    <3>. QED
      BY <1>5, <3>1, <3>2 DEF WriteFails
  <2>4. Close(c, why, fdTable) /\ UNCHANGED <<phase, size>>
    BY <1>5 DEF WriteFails
  <2>5. sent' = [sent EXCEPT ![c] = @ + n]
    BY <1>5, <2>2 DEF WriteFails
  <2>. QED
    BY <2>1, <2>2, <2>3, <2>4, <2>5 DEF SessionEnds, Writing, Outcomes, Inv, TypeOK
<1>6. ASSUME NEW c \in Conns, NEW n \in 1..MaxReply, LineBytes(c, n)
      PROVE  ReplyStarts(c, "bytes", n)
  BY <1>6 DEF LineBytes, ReplyStarts, Inv, TypeOK
<1>7. ASSUME NEW c \in Conns, NEW f \in Fds, NEW n \in 0..MaxReply, LineFile(c, f, n)
      PROVE  ReplyStarts(c, "file", n)
  <2>1. fileLeft' \in [Conns -> 0..MaxReply]
    BY <1>7 DEF LineFile, Inv, TypeOK
  <2>. QED
    BY <1>7, <2>1 DEF LineFile, ReplyStarts
<1>8. ASSUME NEW c \in Conns, LineAborts(c)
      PROVE  PhaseChanges
  BY <1>8 DEF LineAborts, Asked, Reading, PhaseChanges
<1>9. AcceptFails => PhaseChanges
  BY DEF AcceptFails, PhaseChanges
<1>13. ASSUME NEW c \in Conns, LineHangs(c)
       PROVE  PhaseChanges
  BY <1>13 DEF LineHangs, Asked, Reading, PhaseChanges
<1>10. Signal \/ LoopExit => Serving /\ Stop
  BY DEF Signal, LoopExit, Serving
<1>11. ASSUME NEW c \in Conns, CbRead(c)
       PROVE  \/ \E n \in 1..BufSize : ReadMore(c, n)
              \/ \E kind \in {"bytes", "file"}, n \in 0..MaxReply : ReplyStarts(c, kind, n)
              \/ \E why \in Outcomes, n \in Nat : SessionEnds(c, why, n)
              \/ PhaseChanges
  BY <1>1, <1>2, <1>3, <1>6, <1>7, <1>8, <1>11, <1>13 DEF CbRead, Outcomes
<1>12. ASSUME NEW c \in Conns, CbWrite(c)
       PROVE  \/ \E n \in 0..MaxReply : WriteMore(c, n)
              \/ \E why \in Outcomes, n \in Nat : SessionEnds(c, why, n)
  BY <1>4, <1>5, <1>12 DEF CbWrite, Outcomes
<1>. QED
  BY <1>9, <1>10, <1>11, <1>12 DEF Next

\* Inv holds at the start.
LEMMA InvInit == Init => Inv
<1>. SUFFICES ASSUME Init PROVE Inv
  OBVIOUS
<1>1. TypeOK
  BY DEF Init, TypeOK, FdUses, Outcomes
<1>2. EventsOwned /\ FdAccounting /\ BytesAccounted
  BY DEF Init, EventsOwned, FdAccounting, BytesAccounted, OneSession, Free
<1>3. LiveIsOpen /\ DeadIsEmpty /\ FileWriterHasFile /\ NotAskedYet
  BY DEF Init, LiveIsOpen, DeadIsEmpty, FileWriterHasFile, NotAskedYet, Alive
<1>. QED
  BY <1>1, <1>2, <1>3 DEF Inv

\* Inv does not look at anything but the variables.
LEMMA InvStutters == Inv /\ UNCHANGED vars => Inv'
<1>. SUFFICES ASSUME Inv, UNCHANGED vars PROVE Inv'
  OBVIOUS
<1>1. TypeOK'
  BY DEF Inv, TypeOK, vars, wvars
<1>2. EventsOwned' /\ FdAccounting' /\ BytesAccounted'
  BY DEF Inv, EventsOwned, FdAccounting, BytesAccounted, OneSession, vars, wvars
<1>3. LiveIsOpen' /\ DeadIsEmpty' /\ FileWriterHasFile' /\ NotAskedYet'
  BY DEF Inv, LiveIsOpen, DeadIsEmpty, FileWriterHasFile, NotAskedYet, Alive, vars, wvars
<1>. QED
  BY <1>1, <1>2, <1>3 DEF Inv

\* Every step preserves Inv.
LEMMA InvStep == Inv /\ [Next]_vars => Inv'
<1>. SUFFICES ASSUME Inv, Next PROVE Inv'
  BY InvStutters
<1>1. ASSUME NEW c \in Conns, NEW f \in Fds, Accept(c, f) PROVE Inv'
  BY <1>1, AcceptPreserves
<1>2. ASSUME NEW c \in Conns, NEW n \in 1..BufSize, ReadMore(c, n) PROVE Inv'
  BY <1>2, ReadMorePreserves
<1>3. ASSUME NEW c \in Conns, NEW kind \in {"bytes", "file"}, NEW n \in 0..MaxReply,
             ReplyStarts(c, kind, n)
      PROVE  Inv'
  BY <1>3, StartWritingPreserves
<1>4. ASSUME NEW c \in Conns, NEW n \in 0..MaxReply, WriteMore(c, n) PROVE Inv'
  BY <1>4, WriteMorePreserves
<1>5. ASSUME NEW c \in Conns, NEW why, NEW n, SessionEnds(c, why, n) PROVE Inv'
  BY <1>5, EndPreserves
<1>6. ASSUME NEW c \in Conns, Truncate(c) PROVE Inv'
  BY <1>6, TruncatePreserves
<1>7. CASE PhaseChanges
  BY <1>7, PhasePreserves
<1>8. CASE Stop
  BY <1>8, StopPreserves
<1>. QED
  BY <1>1, <1>2, <1>3, <1>4, <1>5, <1>6, <1>7, <1>8, StepCases

\* Inv holds in every state.
LEMMA Invariance == Spec => []Inv
BY InvInit, InvStep, PTL DEF Spec

-------------------------------------------------------------------------------
(* The theorems.                                                           *)

\* Every variable keeps its type: no counter of bytes leaves its range, no
\* outcome is but one of those listed.
THEOREM ServerTypeCorrect == Spec => []TypeOK
<1>1. Inv => TypeOK
  BY DEF Inv
<1>. QED
  BY <1>1, Invariance, PTL

\* However the callbacks of the connections interleave, and whatever fails,
\* libevent never holds an event of a session that is gone: no callback runs
\* on a destroyed Reader or Writer, or on a descriptor used again.
THEOREM ServerEventsOwned == Spec => []EventsOwned
<1>1. Inv => EventsOwned
  BY DEF Inv
<1>. QED
  BY <1>1, Invariance, PTL

\* The kernel, the table of the Server and the live objects agree on who has
\* which descriptor, so that the assertion of new_session cannot fail and
\* nothing but the file whose fstat failed is ever lost.
THEOREM ServerFdAccounting == Spec => []FdAccounting
<1>1. Inv => FdAccounting
  BY DEF Inv
<1>. QED
  BY <1>1, Invariance, PTL

\* The bytes sent and the bytes left add up, on the right connection.
THEOREM ServerBytesAccounted == Spec => []BytesAccounted
<1>1. Inv => BytesAccounted
  BY DEF Inv
<1>. QED
  BY <1>1, Invariance, PTL

\* What a session that ends leaves to the others.
LEMMA OthersKeptStep == Inv /\ [Next]_vars => [OthersKept]_vars
<1>. SUFFICES ASSUME Inv, Next,
                     NEW c \in Conns, NEW d \in Conns, c # d,
                     Alive(c), clsock'[c] = NoFd, Alive(d), phase' = phase
              PROVE  Kept(d)
  BY DEF OthersKept
<1>1. ASSUME NEW b \in Conns, NEW why, NEW n, SessionEnds(b, why, n)
      PROVE  Kept(d)
  <2>1. /\ clsock' = [e \in Conns |-> IF e = b THEN NoFd ELSE clsock[e]]
        /\ fdesc' = [e \in Conns |-> IF e = b THEN NoFd ELSE fdesc[e]]
        /\ writer' = [e \in Conns |-> IF e = b THEN "none" ELSE writer[e]]
        /\ toSend' = [e \in Conns |-> IF e = b THEN 0 ELSE toSend[e]]
        /\ events' = {e \in events : e.conn # b}
    BY <1>1, EndEffect
  <2>2. PICK tbl \in [Fds -> FdUses] :
          /\ \A f \in Fds : \/ tbl[f] = fdTable[f]
                            \/ fdTable[f] = Free /\ tbl[f] = <<"leaked", NoConn>>
          /\ fdTable' = [f \in Fds |-> IF f = clsock[b] \/ f = fdesc[b]
                                       THEN Free ELSE tbl[f]]
    BY <1>1, EndEffect
  <2>3. b = c
    BY <2>1 DEF Alive
  <2>4. /\ clsock[d] \in Fds
        /\ fdTable[clsock[d]] = <<"sock", d>>
    BY AliveOwnsSocket
  <2>5. clsock[d] # clsock[c] /\ clsock[d] # fdesc[c]
    BY <2>4 DEF Inv, FdAccounting
  <2>6. fdTable'[clsock[d]] = fdTable[clsock[d]]
    BY <2>2, <2>3, <2>4, <2>5 DEF Free
  <2>. QED
    BY <2>1, <2>3, <2>6 DEF Kept
<1>2. ASSUME \A e \in Conns : clsock'[e] = clsock[e]
      PROVE  FALSE
  BY <1>2 DEF Alive
<1>3. ASSUME NEW b \in Conns, NEW f \in Fds, Accept(b, f)
      PROVE  FALSE
  BY <1>3 DEF Accept, StartReading, Alive, Inv, TypeOK
<1>4. ASSUME NEW b \in Conns, NEW n, ReadMore(b, n)
      PROVE  FALSE
  BY <1>4, <1>2 DEF ReadMore
<1>5. ASSUME NEW b \in Conns, NEW kind, NEW n, ReplyStarts(b, kind, n)
      PROVE  FALSE
  BY <1>5, <1>2 DEF ReplyStarts, StartWriting
<1>6. ASSUME NEW b \in Conns, NEW n, WriteMore(b, n)
      PROVE  FALSE
  BY <1>6, <1>2 DEF WriteMore
<1>7. ASSUME NEW b \in Conns, Truncate(b)
      PROVE  FALSE
  BY <1>7, <1>2 DEF Truncate
<1>8. CASE PhaseChanges
  BY <1>8, <1>2 DEF PhaseChanges
<1>9. CASE Serving /\ Stop
  BY <1>9 DEF Serving, Stop
<1>. QED
  BY <1>1, <1>3, <1>4, <1>5, <1>6, <1>7, <1>8, <1>9, StepCases

\* A session that ends while the server goes on takes nothing from another
\* one, whatever descriptors and events either of them has.
THEOREM ServerSessionsIndependent == Spec => SessionsIndependent
BY Invariance, OthersKeptStep, PTL DEF Spec, SessionsIndependent

-------------------------------------------------------------------------------
(* The server implements GopherService.                                    *)

\* How far a connection is, read off the variables.
LEMMA StateIs ==
  ASSUME Inv, NEW c \in Conns
  PROVE  /\ outcome[c] = "waiting" => StateOf(c) = "waiting"
         /\ outcome[c] = "served" => StateOf(c) = "answered"
         /\ outcome[c] = "open" /\ phase # "aborted" /\ writer[c] = "none"
              => StateOf(c) = "open"
         /\ outcome[c] = "open" /\ phase # "aborted" /\ writer[c] # "none"
              => StateOf(c) = "asked"
         /\ outcome[c] = "open" /\ phase = "aborted" => StateOf(c) = "dropped"
         /\ outcome[c] \in {"eof", "error", "timeout", "cut"} => StateOf(c) = "dropped"
BY DEF StateOf

\* The same of the next state.
LEMMA NextStateIs ==
  ASSUME Inv', NEW c \in Conns
  PROVE  /\ outcome'[c] = "waiting" => StateOf(c)' = "waiting"
         /\ outcome'[c] = "served" => StateOf(c)' = "answered"
         /\ outcome'[c] = "open" /\ phase' # "aborted" /\ writer'[c] = "none"
              => StateOf(c)' = "open"
         /\ outcome'[c] = "open" /\ phase' # "aborted" /\ writer'[c] # "none"
              => StateOf(c)' = "asked"
         /\ outcome'[c] = "open" /\ phase' = "aborted" => StateOf(c)' = "dropped"
         /\ outcome'[c] \in {"eof", "error", "timeout", "cut"} => StateOf(c)' = "dropped"
BY DEF StateOf

\* A connection that nothing happened to is where it was.
LEMMA StateKept ==
  ASSUME NEW c \in Conns, outcome'[c] = outcome[c], writer'[c] = writer[c],
         phase' = phase \/ (Up /\ Up')
  PROVE  StateOf(c)' = StateOf(c)
BY DEF StateOf, Serving, Up

\* The server starts as the service does.
LEMMA ServiceInit == Init => Service!Init
BY DEF Init, Service!Init, Up, Serving, StateOf

\* The mapped state after a step that moves the connection c only.
LEMMA StateMoved ==
  ASSUME Inv, Serving, phase' = phase, NEW c \in Conns,
         \A d \in Conns : d # c => outcome'[d] = outcome[d] /\ writer'[d] = writer[d]
  PROVE  [d \in Conns |-> StateOf(d)]'
           = [[d \in Conns |-> StateOf(d)] EXCEPT ![c] = StateOf(c)']
<1>1. \A d \in Conns : d # c => StateOf(d)' = StateOf(d)
  BY StateKept
<1>. QED
  BY <1>1

\* A new connection is opened.
LEMMA AcceptOpens ==
  ASSUME Inv, NEW c \in Conns, NEW f \in Fds, Accept(c, f)
  PROVE  Service!Open(c)
<1>1. Inv' /\ phase' = phase /\ Serving
  BY AcceptPreserves DEF Accept
<1>2. /\ outcome[c] = "waiting"
      /\ outcome' = [outcome EXCEPT ![c] = "open"]
      /\ UNCHANGED <<writer, size, sent>>
  BY DEF Accept, StartReading, wvars
<1>3. writer[c] = "none"
  BY <1>2 DEF Inv, LiveIsOpen, DeadIsEmpty
<1>4. StateOf(c) = "waiting"
  BY <1>2, StateIs
<1>5. outcome'[c] = "open" /\ phase' # "aborted" /\ writer'[c] = "none"
  BY <1>1, <1>2, <1>3 DEF Inv, TypeOK, Serving
<1>6. StateOf(c)' = "open"
  BY <1>1, <1>5, NextStateIs
<1>7. [d \in Conns |-> StateOf(d)]'
        = [[d \in Conns |-> StateOf(d)] EXCEPT ![c] = "open"]
  BY <1>1, <1>2, <1>6, StateMoved DEF Inv, TypeOK
<1>8. Serving' = Serving
  BY <1>1 DEF Serving
<1>. QED
  BY <1>1, <1>2, <1>4, <1>7, <1>8 DEF Service!Open, Serving, Up

\* The request is complete, and is being answered.
LEMMA ReplyAsks ==
  ASSUME Inv, NEW c \in Conns, NEW kind \in {"bytes", "file"},
         NEW n \in 0..MaxReply, ReplyStarts(c, kind, n)
  PROVE  Service!Ask(c)
<1>1. Inv'
  BY StartWritingPreserves
<1>2. /\ Serving
      /\ UNCHANGED <<phase, outcome, sent>>
      /\ writer' = [writer EXCEPT ![c] = kind]
      /\ size' = [size EXCEPT ![c] = n]
  BY DEF ReplyStarts, Asked, Reading, StartWriting
<1>3. writer[c] = "none" /\ outcome[c] = "open"
  BY ReaderAlive, AliveOwnsSocket DEF ReplyStarts, Asked
<1>4. StateOf(c) = "open"
  BY <1>2, <1>3, StateIs DEF Serving
<1>5. outcome'[c] = "open" /\ phase' # "aborted" /\ writer'[c] # "none"
  BY <1>2, <1>3 DEF Inv, TypeOK, Serving
<1>6. StateOf(c)' = "asked"
  BY <1>1, <1>5, NextStateIs
<1>7. [d \in Conns |-> StateOf(d)]'
        = [[d \in Conns |-> StateOf(d)] EXCEPT ![c] = "asked"]
  BY <1>2, <1>6, StateMoved DEF Inv, TypeOK
<1>8. Serving' = Serving
  BY <1>2 DEF Serving
<1>. QED
  BY <1>2, <1>4, <1>7, <1>8 DEF Service!Ask, Serving, Up

\* More of the answer goes to the connection that asked for it.
LEMMA WriteMoreSends ==
  ASSUME Inv, NEW c \in Conns, NEW n \in 0..MaxReply, WriteMore(c, n)
  PROVE  Service!Send(c)
<1>1. /\ sent' = [sent EXCEPT ![c] = @ + n]
      /\ sent[c] + n \in sent[c]..size[c]
  BY WriteMorePreserves
<1>2. Writing(c) /\ UNCHANGED <<phase, outcome, writer, size>>
  BY DEF WriteMore
<1>3. Serving /\ writer[c] # "none" /\ outcome[c] = "open"
  BY <1>2, WriterAlive, AliveOwnsSocket DEF Writing
<1>4. StateOf(c) = "asked"
  BY <1>3, StateIs DEF Serving
<1>5. [d \in Conns |-> StateOf(d)]' = [d \in Conns |-> StateOf(d)]
  BY <1>2, StateKept
<1>6. Serving' = Serving
  BY <1>2 DEF Serving
<1>. QED
  BY <1>1, <1>2, <1>3, <1>4, <1>5, <1>6 DEF Service!Send, Serving, Up

\* A session that ends answered its client, or dropped it.
LEMMA EndAnswersOrDrops ==
  ASSUME Inv, NEW c \in Conns, NEW why, NEW n, SessionEnds(c, why, n)
  PROVE  Service!Answer(c) \/ Service!Drop(c)
<1>1. Inv'
  BY EndPreserves
<1>2. /\ Serving
      /\ Alive(c)
      /\ why \in Outcomes \ {"waiting", "open"}
      /\ n \in 0..(size[c] - sent[c])
      /\ why = "served" => n = size[c] - sent[c] /\ writer[c] # "none"
      /\ sent' = [sent EXCEPT ![c] = @ + n]
      /\ UNCHANGED <<phase, size>>
  BY DEF SessionEnds
<1>3. /\ outcome' = [outcome EXCEPT ![c] = why]
      /\ writer' = [d \in Conns |-> IF d = c THEN "none" ELSE writer[d]]
  BY EndEffect
<1>4. /\ outcome[c] = "open"
      /\ sent[c] \in Nat
      /\ size[c] \in Nat
      /\ sent[c] <= size[c]
  BY <1>2, AliveOwnsSocket DEF Inv, TypeOK, BytesAccounted
<1>5. sent[c] + n \in sent[c]..size[c]
  BY <1>2, <1>4
<1>6. [d \in Conns |-> StateOf(d)]'
        = [[d \in Conns |-> StateOf(d)] EXCEPT ![c] = StateOf(c)']
  BY <1>2, <1>3, StateMoved DEF Inv, TypeOK
<1>7. Serving' = Serving
  BY <1>2 DEF Serving
<1>8. outcome'[c] = why
  BY <1>3 DEF Inv, TypeOK
<1>9. CASE why = "served"
  <2>1. StateOf(c) = "asked"
    BY <1>2, <1>4, <1>9, StateIs DEF Serving
  <2>2. StateOf(c)' = "answered"
    BY <1>1, <1>8, <1>9, NextStateIs
  <2>3. sent' = [sent EXCEPT ![c] = size[c]]
    <3>1. n = size[c] - sent[c]
      BY <1>2, <1>9
    <3>2. sent[c] + n = size[c]
      BY <3>1, <1>4
    <3>. QED
      BY <3>2, <1>2
  <2>. QED
    BY <2>1, <2>2, <2>3, <1>2, <1>4, <1>6, <1>7 DEF Service!Answer, Serving, Up
<1>10. CASE why # "served"
  <2>1. StateOf(c) \in {"open", "asked"}
    BY <1>2, <1>4, StateIs DEF Serving
  <2>2. StateOf(c)' = "dropped"
    BY <1>1, <1>2, <1>8, <1>10, NextStateIs DEF Outcomes
  <2>. QED
    BY <2>1, <2>2, <1>2, <1>4, <1>5, <1>6, <1>7 DEF Service!Drop, Serving, Up
<1>. QED
  BY <1>9, <1>10

\* The server goes down, by a signal or by an assertion.
LEMMA DownIsDown ==
  ASSUME Inv, (Serving /\ Stop) \/ (PhaseChanges /\ phase' = "aborted")
  PROVE  Service!Down
<1>1. Inv'
  BY StopPreserves, PhasePreserves
<1>2. Serving /\ Up /\ ~ Up' /\ UNCHANGED <<size, sent>>
  BY DEF Stop, PhaseChanges, Serving, Up
<1>3. ASSUME NEW c \in Conns
      PROVE  StateOf(c)' = IF StateOf(c) \in {"open", "asked"}
                           THEN "dropped" ELSE StateOf(c)
  <2>1. CASE outcome[c] = "open"
    <3>1. StateOf(c) \in {"open", "asked"}
      BY <2>1, <1>2, StateIs DEF Serving
    <3>2. \/ outcome'[c] = "cut"
          \/ outcome'[c] = "open" /\ phase' = "aborted"
      BY <2>1 DEF Stop, PhaseChanges, Inv, LiveIsOpen
    <3>3. StateOf(c)' = "dropped"
      BY <3>2, <1>1, NextStateIs
    <3>. QED
      BY <3>1, <3>3
  <2>2. CASE outcome[c] # "open"
    <3>1. outcome'[c] = outcome[c]
      BY <2>2 DEF Stop, PhaseChanges, Inv, LiveIsOpen
    <3>2. StateOf(c)' = StateOf(c) /\ StateOf(c) \notin {"open", "asked"}
      BY <2>2, <3>1, <1>1, StateIs, NextStateIs DEF Inv, TypeOK, Outcomes
    <3>. QED
      BY <3>2
  <2>. QED
    BY <2>1, <2>2
<1>. QED
  BY <1>2, <1>3 DEF Service!Down

\* Every step of the server is a step of the service, or none.
LEMMA ServiceStep == Inv /\ [Next]_vars => [Service!Next]_(Service!vars)
<1>. SUFFICES ASSUME Inv, [Next]_vars
              PROVE  Service!Next \/ UNCHANGED Service!vars
  OBVIOUS
<1>1. ASSUME UNCHANGED <<outcome, writer, size, sent>>,
             phase' = phase \/ (Up /\ Up')
      PROVE  UNCHANGED Service!vars
  <2>1. [c \in Conns |-> StateOf(c)]' = [c \in Conns |-> StateOf(c)]
    BY <1>1, StateKept
  <2>. QED
    BY <1>1, <2>1 DEF Service!vars, Serving, Up
<1>2. ASSUME NEW c \in Conns, NEW f \in Fds, Accept(c, f)
      PROVE  Service!Next
  BY <1>2, AcceptOpens DEF Service!Next
<1>3. ASSUME NEW c \in Conns, NEW n, ReadMore(c, n)
      PROVE  UNCHANGED Service!vars
  BY <1>3, <1>1 DEF ReadMore
<1>4. ASSUME NEW c \in Conns, NEW kind \in {"bytes", "file"}, NEW n \in 0..MaxReply,
             ReplyStarts(c, kind, n)
      PROVE  Service!Next
  BY <1>4, ReplyAsks DEF Service!Next
<1>5. ASSUME NEW c \in Conns, NEW n \in 0..MaxReply, WriteMore(c, n)
      PROVE  Service!Next
  BY <1>5, WriteMoreSends DEF Service!Next
<1>6. ASSUME NEW c \in Conns, NEW why, NEW n, SessionEnds(c, why, n)
      PROVE  Service!Next
  BY <1>6, EndAnswersOrDrops DEF Service!Next
<1>7. ASSUME NEW c \in Conns, Truncate(c)
      PROVE  UNCHANGED Service!vars
  BY <1>7, <1>1 DEF Truncate
<1>8. CASE PhaseChanges
  <2>1. CASE phase' = "aborted"
    BY <2>1, <1>8, DownIsDown DEF Service!Next
  <2>2. CASE phase' \in {"exiting", "stuck"}
    BY <2>2, <1>8, <1>1 DEF PhaseChanges, Serving, Up, wvars
  <2>. QED
    BY <1>8, <2>1, <2>2 DEF PhaseChanges
<1>9. CASE Serving /\ Stop
  BY <1>9, DownIsDown DEF Service!Next
<1>10. CASE UNCHANGED vars
  BY <1>10, <1>1 DEF vars, wvars
<1>. QED
  BY <1>2, <1>3, <1>4, <1>5, <1>6, <1>7, <1>8, <1>9, <1>10, StepCases

\* Whatever the clients, the system and the files do, what the clients see is
\* a Gopher server: one connection, one request, one whole answer or a
\* connection dropped.
THEOREM ServerImplementsService == Spec => ImplementsService
BY Invariance, ServiceInit, ServiceStep, PTL DEF Spec, ImplementsService, Service!Spec
===============================================================================
