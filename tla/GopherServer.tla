------------------------------ MODULE GopherServer ------------------------------
(***************************************************************************)
(* The server at work: Server (src/src/main.cc), its sessions              *)
(* (src/src/session.cc), and the reader and the writer each session owns   *)
(* (src/src/gopher/proto.cc), on top of libevent and of the descriptors    *)
(* the process may open.                                                   *)
(*                                                                         *)
(* The process is single threaded: an action is one callback that libevent *)
(* invokes, from its first to its last statement, with everything it       *)
(* destroys on the way.  What interleaves is the callbacks of different    *)
(* connections, the clients, the system (short writes, errors, exhausted   *)
(* descriptors), the files being served and signals.                       *)
(*                                                                         *)
(* How a line is found in the bytes received is modelled in ProtoReader;   *)
(* here a chunk either completes the request or does not.  What node       *)
(* answers a request is abstracted to what the writer it returns, or the   *)
(* exception it throws, means for the session.                             *)
(***************************************************************************)
EXTENDS Naturals, FiniteSets

CONSTANTS
  Conns,      \* the connections clients open
  Fds,        \* the descriptors the process may still open
  NoConn,
  NoFd,
  BufSize,    \* bytes in the buffer of a session's reader (256 + 2)
  MaxReply,   \* bound: bytes in a reply
  Replies,    \* what make_writer may do: "bytes", "file", "throw", "abort", "hang"
  AddFails,   \* whether libevent's event_add may fail
  FstatFails, \* whether fstat may fail on a file just opened
  Truncates   \* whether a file may shrink while it is being sent

ASSUME NoneAssumption == NoConn \notin Conns /\ NoFd \notin Fds
ASSUME SizeAssumption == BufSize \in Nat \ {0} /\ MaxReply \in Nat
ASSUME RepliesAssumption == Replies \subseteq {"bytes", "file", "throw", "abort", "hang"}
ASSUME FaultsAssumption == /\ AddFails \in BOOLEAN
                           /\ FstatFails \in BOOLEAN
                           /\ Truncates \in BOOLEAN

VARIABLES
  phase,      \* "running"; "exiting": loopexit requested, the loop still
              \* serves; "stopped"; "aborted": killed by an assertion;
              \* "stuck": a callback never returns, nor does the loop
  fdTable,    \* the kernel's view: for each descriptor what it is, and whose
  sessions,   \* Server::sessions, keyed by descriptor
  outcome,    \* what became of each connection
  clsock,     \* Session::clsock; NoFd when there is no such Session object
  events,     \* the events pending in libevent: the callback, the Session
              \* its argument belongs to, the descriptor
  cursor,     \* Reader::cursor
  writer,     \* the kind of Session::writer
  fdesc,      \* FileWriter::fdesc
  toSend,     \* bytes left: FileWriter::to_send, buffer.size() - cursor
  fileLeft,   \* bytes of the file from FileWriter::offset to its end
  spin,       \* flips when sendfile sends nothing, so that this is a step
  size,       \* history: the bytes in the reply to each connection
  sent        \* history: the bytes sent on each connection

wvars == <<cursor, writer, fdesc, toSend, fileLeft, spin>>
vars == <<phase, fdTable, sessions, outcome, clsock, events, wvars, size, sent>>

Event(kind, c, f) == [kind |-> kind, conn |-> c, fd |-> f]

Free == <<"free", NoConn>>
FdUses == {Free, <<"leaked", NoConn>>} \cup ({"sock", "file"} \X Conns)
FreeFds == {f \in Fds : fdTable[f] = Free}

\* The loop invokes callbacks.
Serving == phase \in {"running", "exiting"}

\* The process exists, and with it the connections.
Up == Serving \/ phase = "stuck"

Alive(c) == clsock[c] # NoFd

-------------------------------------------------------------------------------
Init == /\ phase = "running"
        /\ fdTable = [f \in Fds |-> Free]
        /\ sessions = [f \in Fds |-> NoConn]
        /\ outcome = [c \in Conns |-> "waiting"]
        /\ clsock = [c \in Conns |-> NoFd]
        /\ events = {}
        /\ cursor = [c \in Conns |-> 0]
        /\ writer = [c \in Conns |-> "none"]
        /\ fdesc = [c \in Conns |-> NoFd]
        /\ toSend = [c \in Conns |-> 0]
        /\ fileLeft = [c \in Conns |-> 0]
        /\ spin = [c \in Conns |-> FALSE]
        /\ size = [c \in Conns |-> 0]
        /\ sent = [c \in Conns |-> 0]

-------------------------------------------------------------------------------
(* Destruction of sessions.                                                *)

\* Mutant of ClosedBy: ~FileWriter does not close its file.
ClosedByLeavesFile(S) == {clsock[c] : c \in S}

\* The descriptors closed by ~Session and ~FileWriter.
ClosedBy(S) == {clsock[c] : c \in S} \cup {fdesc[c] : c \in S}

\* Mutant of EventsWithout: the write event outlives the writer.
EventsWithoutReads(S) == {e \in events : e.conn \notin S \/ e.kind = "write"}

\* The events left once the Event members of the readers and the writers of
\* S are destroyed (event_free).
EventsWithout(S) == {e \in events : e.conn \notin S}

\* The Session objects of S are destroyed, with their members; tbl is the
\* descriptor table before that.
Destroy(S, tbl) ==
  /\ fdTable' = [f \in Fds |-> IF f \in ClosedBy(S) THEN Free ELSE tbl[f]]
  /\ events' = EventsWithout(S)
  /\ clsock' = [c \in Conns |-> IF c \in S THEN NoFd ELSE clsock[c]]
  /\ fdesc' = [c \in Conns |-> IF c \in S THEN NoFd ELSE fdesc[c]]
  /\ cursor' = [c \in Conns |-> IF c \in S THEN 0 ELSE cursor[c]]
  /\ writer' = [c \in Conns |-> IF c \in S THEN "none" ELSE writer[c]]
  /\ toSend' = [c \in Conns |-> IF c \in S THEN 0 ELSE toSend[c]]
  /\ fileLeft' = [c \in Conns |-> IF c \in S THEN 0 ELSE fileLeft[c]]
  /\ spin' = [c \in Conns |-> IF c \in S THEN FALSE ELSE spin[c]]

\* Mutant of Erased: the whole table is cleared.
ErasedAll(f) == DOMAIN sessions

\* The keys drop_session removes from the table.
Erased(f) == {f}

\* Session::close(), with the descriptor table as the callback left it: the
\* drop callback erases the descriptor of the session from the table, which
\* destroys whatever session is there.
Close(c, why, tbl) ==
  LET keys == Erased(clsock[c]) IN
  /\ sessions' = [f \in Fds |-> IF f \in keys THEN NoConn ELSE sessions[f]]
  /\ Destroy({sessions[f] : f \in keys} \ {NoConn}, tbl)
  /\ outcome' = [outcome EXCEPT ![c] = why]

-------------------------------------------------------------------------------
(* Connections.                                                            *)

\* The constructor of Session starts to read.  When the event cannot be
\* added, Reader::schedule says nothing.
StartReading(c, f) ==
  /\ clsock' = [clsock EXCEPT ![c] = f]
  /\ \/ events' = events \cup {Event("read", c, f)}
     \/ AddFails /\ UNCHANGED events
  /\ UNCHANGED wvars

\* cb_accept, on descriptor f: new_session constructs a Session and emplaces
\* it in the table, where its key must be new.
Accept(c, f) ==
  /\ Serving
  /\ outcome[c] = "waiting"
  /\ f \in FreeFds
  /\ IF sessions[f] = NoConn
     THEN /\ sessions' = [sessions EXCEPT ![f] = c]
          /\ UNCHANGED phase
     ELSE /\ phase' = "aborted"
          /\ UNCHANGED sessions
  /\ outcome' = [outcome EXCEPT ![c] = "open"]
  /\ fdTable' = [fdTable EXCEPT ![f] = <<"sock", c>>]
  /\ StartReading(c, f)
  /\ UNCHANGED <<size, sent>>

\* cb_accept_err: a client waits and accept() finds no descriptor left.
AcceptFails ==
  /\ Serving
  /\ FreeFds = {}
  /\ \E c \in Conns : outcome[c] = "waiting"
  /\ phase' = "exiting"
  /\ UNCHANGED <<fdTable, sessions, outcome, clsock, events, wvars, size, sent>>

\* The loop ends, the Server is destroyed: its sessions go before the rest.
\* It ends by cb_signal (loopbreak) or after cb_accept_err (loopexit).
Stop ==
  /\ phase' = "stopped"
  /\ Destroy({c \in Conns : Alive(c)}, fdTable)
  /\ sessions' = [f \in Fds |-> NoConn]
  /\ outcome' = [c \in Conns |-> IF Alive(c) THEN "cut" ELSE outcome[c]]
  /\ UNCHANGED <<size, sent>>

Signal == Serving /\ Stop
LoopExit == phase = "exiting" /\ Stop

-------------------------------------------------------------------------------
(* cb_read, invoked for the read event of c, which is no longer pending.   *)

\* Mutant of Room: the bytes already in the buffer are forgotten.
RoomOfEmpty(c) == BufSize

Room(c) == BufSize - cursor[c]

Reading(c) == Serving /\ Event("read", c, clsock[c]) \in events

\* A chunk without the end of the line: read_chunk schedules another read.
ReadMore(c, n) ==
  /\ Reading(c)
  /\ n \in 1..Room(c)
  /\ cursor' = [cursor EXCEPT ![c] = @ + n]
  /\ \/ UNCHANGED events
     \/ AddFails /\ events' = events \ {Event("read", c, clsock[c])}
  /\ UNCHANGED <<phase, fdTable, sessions, outcome, clsock, writer, fdesc,
                 toSend, fileLeft, spin, size, sent>>

\* The end of the stream or a full buffer, an error of read(2), inactivity.
ReadEnds(c, why) ==
  /\ Reading(c)
  /\ why \in {"eof", "error", "timeout"}
  /\ Close(c, why, fdTable)
  /\ UNCHANGED <<phase, size, sent>>

\* The request is complete: Session::got_line looks the node up.
Asked(c) == Reading(c) /\ Room(c) > 0

\* The node returned a writer of n bytes: Writer::write_to waits for the
\* socket to be writable, then Reader::end() frees the read event.
StartWriting(c, kind, n) ==
  /\ events' = (events \ {Event("read", c, clsock[c])})
                 \cup {Event("write", c, clsock[c])}
  /\ cursor' = [cursor EXCEPT ![c] = 0]
  /\ writer' = [writer EXCEPT ![c] = kind]
  /\ toSend' = [toSend EXCEPT ![c] = n]
  /\ size' = [size EXCEPT ![c] = n]
  /\ UNCHANGED <<phase, sessions, outcome, clsock, spin, sent>>

\* A menu, a redirection page, or the menu made of a LookupFailure or of a
\* NodeFailure.  None of them is empty.
LineBytes(c, n) ==
  /\ Asked(c)
  /\ "bytes" \in Replies
  /\ n \in 1..MaxReply
  /\ StartWriting(c, "bytes", n)
  /\ UNCHANGED <<fdTable, fdesc, fileLeft>>

\* NodeFSys::send_file opens the file, FileWriter takes its size.
LineFile(c, f, n) ==
  /\ Asked(c)
  /\ "file" \in Replies
  /\ f \in FreeFds
  /\ n \in 0..MaxReply
  /\ StartWriting(c, "file", n)
  /\ fdTable' = [fdTable EXCEPT ![f] = <<"file", c>>]
  /\ fdesc' = [fdesc EXCEPT ![c] = f]
  /\ fileLeft' = [fileLeft EXCEPT ![c] = n]

\* fstat fails in the constructor of FileWriter, whose destructor therefore
\* never closes the file.
LineFstatFails(c, f) ==
  /\ Asked(c)
  /\ "file" \in Replies
  /\ FstatFails
  /\ f \in FreeFds
  /\ Close(c, "error", [fdTable EXCEPT ![f] = <<"leaked", NoConn>>])
  /\ UNCHANGED <<phase, size, sent>>

\* got_line throws: the request is refused (BadRequest), the node fails with
\* another exception, the file cannot be opened, or write_to cannot add its
\* event.  cb_read ends the read and reports the error.
LineThrows(c) ==
  /\ Asked(c)
  /\ "throw" \in Replies \/ AddFails \/ ("file" \in Replies /\ FreeFds = {})
  /\ Close(c, "error", fdTable)
  /\ UNCHANGED <<phase, size, sent>>

\* An assertion of make_writer fails (a gophermap links to a local resource
\* that has no virtual path).
LineAborts(c) ==
  /\ Asked(c)
  /\ "abort" \in Replies
  /\ phase' = "aborted"
  /\ UNCHANGED <<fdTable, sessions, outcome, clsock, events, wvars, size, sent>>

\* make_writer never returns: the redirector puts the URL in the place of each
\* keyword of the page, and this URL has the keyword in it (GopherNodes).  No
\* other callback runs again, cb_signal included.
LineHangs(c) ==
  /\ Asked(c)
  /\ "hang" \in Replies
  /\ phase' = "stuck"
  /\ UNCHANGED <<fdTable, sessions, outcome, clsock, events, wvars, size, sent>>

CbRead(c) == \/ \E n \in 1..BufSize : ReadMore(c, n)
             \/ \E why \in {"eof", "error", "timeout"} : ReadEnds(c, why)
             \/ \E n \in 1..MaxReply : LineBytes(c, n)
             \/ \E f \in Fds, n \in 0..MaxReply : LineFile(c, f, n)
             \/ \E f \in Fds : LineFstatFails(c, f)
             \/ LineThrows(c)
             \/ LineAborts(c)
             \/ LineHangs(c)

-------------------------------------------------------------------------------
(* cb_write, invoked for the write event of c.                             *)

Writing(c) == Serving /\ Event("write", c, clsock[c]) \in events

\* How many bytes one write(2) or sendfile(2) may take.  sendfile returns 0
\* at the end of the file.
Taken(c) == IF writer[c] = "bytes"
            THEN 1..toSend[c]
            ELSE {n \in 0..toSend[c] :
                    /\ n <= fileLeft[c]
                    /\ n = 0 => toSend[c] = 0 \/ fileLeft[c] = 0}

\* The connection at the other end of the socket of c.
PeerOf(c) == fdTable[clsock[c]][2]

\* Mutant of Remaining: a short write is taken for a complete one.
RemainingNone(c, n) == 0

Remaining(c, n) == toSend[c] - n

\* Mutant of Rescheduled: the write event is not added again.
RescheduledNot(c) == events' = events \ {Event("write", c, clsock[c])}

\* Writer::schedule succeeds.
Rescheduled(c) == UNCHANGED events

\* A chunk of n bytes was written, and there is more to send.
WriteMore(c, n) ==
  /\ Writing(c)
  /\ n \in Taken(c)
  /\ Remaining(c, n) > 0
  /\ sent' = [sent EXCEPT ![PeerOf(c)] = @ + n]
  /\ toSend' = [toSend EXCEPT ![c] = Remaining(c, n)]
  /\ fileLeft' = [fileLeft EXCEPT ![c] = IF writer[c] = "file" THEN @ - n ELSE @]
  /\ spin' = [spin EXCEPT ![c] = IF n = 0 THEN ~ @ ELSE @]
  /\ Rescheduled(c)
  /\ UNCHANGED <<phase, fdTable, sessions, outcome, clsock, cursor, writer,
                 fdesc, size>>

\* The last chunk was written: got_success closes the session.
WriteLast(c, n) ==
  /\ Writing(c)
  /\ n \in Taken(c)
  /\ Remaining(c, n) = 0
  /\ sent' = [sent EXCEPT ![PeerOf(c)] = @ + n]
  /\ Close(c, "served", fdTable)
  /\ UNCHANGED <<phase, size>>

\* The write fails, or takes nothing, or inactivity; after a chunk of n
\* bytes when it is Writer::schedule that fails.
WriteFails(c, n, why) ==
  /\ Writing(c)
  /\ why \in {"error", "timeout"}
  /\ n = 0 \/ (AddFails /\ why = "error" /\ n \in Taken(c) /\ Remaining(c, n) > 0)
  /\ sent' = [sent EXCEPT ![PeerOf(c)] = @ + n]
  /\ Close(c, why, fdTable)
  /\ UNCHANGED <<phase, size>>

CbWrite(c) == \E n \in 0..MaxReply :
                \/ WriteMore(c, n)
                \/ WriteLast(c, n)
                \/ \E why \in {"error", "timeout"} : WriteFails(c, n, why)

-------------------------------------------------------------------------------
\* Somebody truncates the file being sent to c.
Truncate(c) ==
  /\ Serving
  /\ Truncates
  /\ writer[c] = "file"
  /\ \E n \in 0..MaxReply : /\ n < fileLeft[c]
                            /\ fileLeft' = [fileLeft EXCEPT ![c] = n]
  /\ UNCHANGED <<phase, fdTable, sessions, outcome, clsock, events, cursor,
                 writer, fdesc, toSend, spin, size, sent>>

Next == \/ \E c \in Conns : \/ \E f \in Fds : Accept(c, f)
                            \/ CbRead(c)
                            \/ CbWrite(c)
                            \/ Truncate(c)
        \/ AcceptFails
        \/ Signal
        \/ LoopExit

Spec == Init /\ [][Next]_vars

\* As long as callbacks return, libevent invokes that of every pending event:
\* when its socket is ready, and after its timeout (5 seconds) at the latest;
\* and it ends the loop once loopexit has been called.  Once the server is stuck
\* none of them is enabled.  Clients and signals owe nothing.
Fairness == /\ \A c \in Conns : WF_vars(CbRead(c)) /\ WF_vars(CbWrite(c))
            /\ WF_vars(LoopExit)

FairSpec == Spec /\ Fairness

-------------------------------------------------------------------------------
Outcomes == {"waiting", "open", "served", "eof", "error", "timeout", "cut"}

TypeOK == /\ phase \in {"running", "exiting", "stopped", "aborted", "stuck"}
          /\ fdTable \in [Fds -> FdUses]
          /\ sessions \in [Fds -> Conns \cup {NoConn}]
          /\ outcome \in [Conns -> Outcomes]
          /\ clsock \in [Conns -> Fds \cup {NoFd}]
          /\ events \subseteq [kind : {"read", "write"}, conn : Conns, fd : Fds]
          /\ cursor \in [Conns -> 0..BufSize]
          /\ writer \in [Conns -> {"none", "bytes", "file"}]
          /\ fdesc \in [Conns -> Fds \cup {NoFd}]
          /\ toSend \in [Conns -> 0..MaxReply]
          /\ fileLeft \in [Conns -> 0..MaxReply]
          /\ spin \in [Conns -> BOOLEAN]
          /\ size \in [Conns -> 0..MaxReply]
          /\ sent \in [Conns -> 0..MaxReply]

\* The argument of every pending event belongs to a session that still
\* exists, its descriptor is the open socket of that session, and it is the
\* write event exactly when the session is answering: no callback ever runs
\* on a destroyed Reader or Writer, nor on a reused descriptor.
EventsOwned ==
  \A e \in events : /\ clsock[e.conn] = e.fd
                    /\ e.kind = IF writer[e.conn] = "none" THEN "read" ELSE "write"

\* The table of sessions and the sessions that exist agree.
OneSession == \A f \in Fds, c \in Conns : sessions[f] = c <=> clsock[c] = f

\* Three views of the descriptors agree: what the kernel has open, the table
\* of sessions, and what the live objects will close.  So a descriptor the
\* kernel hands out again is never still a key of the table (the assertion
\* of new_session), none is closed twice, and only the file whose fstat
\* failed is lost.
FdAccounting ==
  /\ OneSession
  /\ \A f \in Fds, c \in Conns : fdTable[f] = <<"sock", c>> <=> clsock[c] = f
  /\ \A f \in Fds, c \in Conns : fdTable[f] = <<"file", c>> <=> fdesc[c] = f

\* Every byte of a reply goes to the connection that asked for it: while it
\* is being answered, what was sent and what is left add up to the reply;
\* a connection that never asked gets nothing; and one that was closed as
\* served got the whole reply.
BytesAccounted ==
  \A c \in Conns :
    /\ sent[c] <= size[c]
    /\ writer[c] # "none" => sent[c] + toSend[c] = size[c]
    /\ outcome[c] = "served" => sent[c] = size[c]

\* The session of d keeps its descriptor, its pending event, its writer and
\* what that has left.
Kept(d) ==
  /\ clsock'[d] = clsock[d]
  /\ fdTable'[clsock[d]] = fdTable[clsock[d]]
  /\ {e \in events' : e.conn = d} = {e \in events : e.conn = d}
  /\ <<writer[d], fdesc[d], toSend[d]>>' = <<writer[d], fdesc[d], toSend[d]>>

OthersKept ==
  \A c, d \in Conns :
    (c # d /\ Alive(c) /\ clsock'[c] = NoFd /\ Alive(d) /\ phase' = phase) => Kept(d)

\* When a session ends while the server goes on, every other session keeps
\* its descriptor, its pending event, its writer and what that has left.
SessionsIndependent == [][OthersKept]_vars

\* The file sent to c was truncated: sendfile has nothing left to give and
\* returns 0, which FileWriter::write_chunk (proto.cc:320) takes for a short
\* write, for ever.
Starved(c) == writer[c] = "file" /\ fileLeft[c] < toSend[c]

\* event_add failed for the reader of c, and Reader::schedule told nobody.
Forgotten(c) == writer[c] = "none" /\ \A e \in events : e.conn # c

\* Every session comes to an end: the server "closes the connection"
\* (rfc1436.txt:53), unless the whole process is gone first, one of the two
\* faults above, which nothing in the code recovers from, befalls it, or the
\* only thread is caught in a callback that never returns (node-redirect.cc:57),
\* whose session it may be or not.
SessionsEnd == \A c \in Conns :
  Alive(c) ~> (~ Alive(c) \/ phase \in {"aborted", "stuck"} \/ Starved(c) \/ Forgotten(c))

\* How far a connection is, for its client.
StateOf(c) == CASE outcome[c] = "waiting" -> "waiting"
                [] outcome[c] = "served" -> "answered"
                [] outcome[c] = "open" /\ phase # "aborted" ->
                     IF writer[c] = "none" THEN "open" ELSE "asked"
                [] OTHER -> "dropped"

Service == INSTANCE GopherService WITH up <- Up,
                                       state <- [c \in Conns |-> StateOf(c)],
                                       got <- sent

\* The server keeps the promises of a Gopher server.
ImplementsService == Service!Spec
===============================================================================
