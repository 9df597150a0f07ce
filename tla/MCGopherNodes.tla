----------------------------- MODULE MCGopherNodes -----------------------------
(* An instance of GopherNodes for TLC: three NodeFSys, the directories r, s *)
(* and t.  An entry of r, and of t, is called like the selector of its node *)
(* or like another entry, and there may be links: to a file beside, out of  *)
(* the directory, to each other and to themselves.                          *)
(*                                                                          *)
(* On a disk that has r nothing is edited, for there is no t to edit; on    *)
(* the disk that has t and no r, what is in t is.                           *)
EXTENDS GopherNodes, TLC

Roots == <<"1">> :> <<"r">> @@ <<"2">> :> <<"s">> @@ <<"3">> :> <<"t">>

SomeDotted == {Dot, DotDot, ".h"}

R(path) == <<"r">> \o path
T(path) == <<"t">> \o path
InR == {R(<<>>), R(<<"1">>), R(<<"a">>), R(<<".h">>), R(<<"1", "a">>), R(<<"1", "1">>)}
InT == {T(<<>>), T(<<"1">>), T(<<"a">>), T(<<"1", "a">>), T(<<"1", "1">>)}
SomePlaces == {<<>>, <<"s">>, <<"s", "a">>} \cup InR \cup InT

SomeTargets ==
  [p \in SomePlaces |-> CASE p = R(<<"a">>) -> <<Slash, "s">>
                          [] p = R(<<"1", "a">>) -> <<"a">>
                          [] p \in {R(<<"1", "1">>), T(<<"1", "1">>)} -> <<DotDot, "a">>
                          [] OTHER -> <<Slash, "x">>]

\* The disks that have these kinds at r/a and r/1/1.
StillDisks ==
  {[p \in SomePlaces |->
      CASE p \in {<<>>, R(<<>>), <<"s">>, R(<<"1">>)} -> "dir"
        [] p = R(<<"a">>) -> kinds[1]
        [] p = R(<<"1", "a">>) -> IF kinds[1] \in {"file", "dir"} THEN "link" ELSE "file"
        [] p = R(<<"1", "1">>) -> kinds[2]
        [] p \in InT -> "absent"
        [] OTHER -> "file"] : kinds \in {"file", "secret", "special", "link", "dir"}
                                         \X {"absent", "dir", "locked", "link"}}

EditedDisk ==
  [p \in SomePlaces |-> CASE p \in {<<>>, <<"s">>, T(<<>>), T(<<"1">>)} -> "dir"
                          [] p = T(<<"1", "1">>) -> "link"
                          [] p \in InR -> "absent"
                          [] OTHER -> "file"]

SomeDisks == StillDisks \cup {EditedDisk}

SomeEdits ==
  [p \in SomePlaces |->
     CASE p = T(<<"1">>) -> {"dir", "absent", "locked", "file"}
       [] p = T(<<"a">>) -> {"absent"}
       [] p = T(<<"1", "a">>) -> {"absent", "special", "file"}
       [] OTHER -> {}]

-------------------------------------------------------------------------------
\* The lines of one or two names with separators around them, then what a
\* listing shows, paths with dots, and URLs.
Slashes(n) == [i \in 1..n |-> Slash]
Plain == {Slashes(i) \o <<n>> \o Slashes(j) : i \in 0..1, j \in 0..1, n \in {"1", "x"}}
           \cup {Slashes(i) \o <<"1">> \o Slashes(j) \o <<m>> : i \in 0..1, j \in 1..2,
                                                             m \in {"1", "a", ".h"}}
           \cup {<<"2">>, <<"2", Slash, "x">>, <<"1", Slash, "1", Slash>>}
Deep == {<<"1", Slash, n, Slash, m>> : n \in {"1", "a"}, m \in {"1", "a"}}
Dots == {<<"1", Slash, d>> : d \in {Dot, DotDot}}
          \cup {<<"1", Slash, "1", Slash, DotDot, Slash, DotDot, Slash, "s">>}
Raced == {<<"3", Slash, "1">>, <<"3", Slash, "1", Slash, "a">>, <<"3", Slash, DotDot>>}
Urls == {<<UrlMark>>, <<UrlMark, "x">>, <<UrlMark, Keyword>>, <<UrlMark, Keyword, "x", Keyword>>}
SomeRequests == Plain \cup Deep \cup Dots \cup Raced \cup Urls
===============================================================================
