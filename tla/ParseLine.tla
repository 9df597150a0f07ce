------------------------------- MODULE ParseLine -------------------------------
(***************************************************************************)
(* Parser::parse_line (src/src/map_parser.cc): what it makes of a line of a *)
(* gophermap, in the order of its tests.                                   *)
(*                                                                         *)
(* GopherMap uses it on lines given as fields, GophermapText on lines read *)
(* from a file character by character.                                     *)
(***************************************************************************)
EXTENDS Naturals

\* For a line of n fields; short: the first is too short for a type and a
\* name; url: the second starts with "URL:"; port: strto accepts the fourth.
\* The host field is taken for present even when it has no characters, since
\* StrRef::empty() tests the pointer: a line is local exactly when it has two
\* fields.
LineKindOf(n, short, url, port) ==
  CASE n \notin 2..4 \/ short -> "text"
    [] n \in 2..4 /\ ~ short /\ url -> "url"
    [] n = 4 /\ ~ short /\ ~ url /\ ~ port -> "badport"
    [] n = 2 /\ ~ short /\ ~ url -> "local"
    [] OTHER -> "remote"
===============================================================================
