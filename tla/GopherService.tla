----------------------------- MODULE GopherService -----------------------------
(***************************************************************************)
(* What a Gopher server promises its clients (doc/rfc1436.txt, lines 47-54 *)
(* and 702-763), as far as connections go: one connection, one request,    *)
(* one answer, and the connection is closed.  An answer counts as given    *)
(* only when the client of that connection was sent all of it and nothing  *)
(* else.  A server that goes down cuts every connection.                   *)
(*                                                                         *)
(* GopherServer translates the code, and implements this specification.    *)
(***************************************************************************)
EXTENDS Naturals

CONSTANTS
  Conns,      \* the connections clients open
  MaxReply    \* bound: bytes in an answer

VARIABLES
  up,       \* whether the server runs
  state,    \* how far each connection is
  size,     \* how long the answer to its request is
  got       \* how many bytes the server has sent on it

vars == <<up, state, size, got>>

Init == /\ up = TRUE
        /\ state = [c \in Conns |-> "waiting"]
        /\ size = [c \in Conns |-> 0]
        /\ got = [c \in Conns |-> 0]

Open(c) == /\ up
           /\ state[c] = "waiting"
           /\ state' = [state EXCEPT ![c] = "open"]
           /\ UNCHANGED <<up, size, got>>

Ask(c) == /\ up
          /\ state[c] = "open"
          /\ state' = [state EXCEPT ![c] = "asked"]
          /\ \E n \in 0..MaxReply : size' = [size EXCEPT ![c] = n]
          /\ UNCHANGED <<up, got>>

\* More of the answer is sent.
Send(c) == /\ up
           /\ state[c] = "asked"
           /\ \E n \in got[c]..size[c] : got' = [got EXCEPT ![c] = n]
           /\ UNCHANGED <<up, state, size>>

\* All of it has been sent, and the connection is closed.
Answer(c) == /\ up
             /\ state[c] = "asked"
             /\ got[c] <= size[c]
             /\ got' = [got EXCEPT ![c] = size[c]]
             /\ state' = [state EXCEPT ![c] = "answered"]
             /\ UNCHANGED <<up, size>>

\* The connection is closed early: the client left or kept silent, or
\* something failed.  Part of the answer may have been sent.
Drop(c) == /\ up
           /\ state[c] \in {"open", "asked"}
           /\ state' = [state EXCEPT ![c] = "dropped"]
           /\ got[c] <= size[c]
           /\ \E n \in got[c]..size[c] : got' = [got EXCEPT ![c] = n]
           /\ UNCHANGED <<up, size>>

Down == /\ up
        /\ up' = FALSE
        /\ state' = [c \in Conns |-> IF state[c] \in {"open", "asked"}
                                     THEN "dropped" ELSE state[c]]
        /\ UNCHANGED <<size, got>>

Next == \/ \E c \in Conns : Open(c) \/ Ask(c) \/ Send(c) \/ Answer(c) \/ Drop(c)
        \/ Down

Spec == Init /\ [][Next]_vars
===============================================================================
