---------------------------- MODULE MCGopherServer ----------------------------
(* Instances of GopherServer for TLC. *)
EXTENDS GopherServer, TLC

CONSTANTS c1, c2, c3, f1, f2, f3

\* Connections are interchangeable, and so are descriptors (safety only).
Symmetry == Permutations(Conns) \cup Permutations(Fds)
===============================================================================
