------------------------------ MODULE MCGopherMap ------------------------------
(* Instances of GopherMap for TLC: a root gophermap r, a file g, a         *)
(* directory d, and a path m that need not exist.                          *)
EXTENDS GopherMap, TLC

CONSTANTS r, g, d, m

AllPaths == {r, g, d, m}

Text == <<"text">>
TooLong == <<"1name", "sel", "host", "70", "more">>
NoName == <<"1", d>>
Url == <<"hname", "URL:x">>
Remote == <<"1name", "sel", "host", "70">>
Hosted == <<"1name", d, "">>
BadPort == <<"1name", "sel", "host", "port">>
Link(p) == <<"1name", p>>

AllLines == {Text, TooLong, NoName, Url, Remote, Hosted, BadPort}
              \cup {Link(p) : p \in AllPaths}

Absent == [kind |-> "absent", lines |-> <<>>]
Dir == [kind |-> "dir", lines |-> <<>>]
Other == [kind |-> "other", lines |-> <<>>]
Gophermap(lines) == [kind |-> "file", lines |-> lines]

Site(fr, fg, fd, fm) == r :> fr @@ g :> fg @@ d :> fd @@ m :> fm

SeqsUpTo(n, S) == UNION {[1..k -> S] : k \in 0..n}

\* Any root of up to three lines; files and directories come and go.
Files == {Gophermap(<<>>), Gophermap(<<BadPort, Link(m)>>), Gophermap(<<Link(d)>>)}
AnySites ==
  {Site(Gophermap(root), file, Dir, missing) :
     root \in SeqsUpTo(3, {Text, BadPort, Link(g), Link(d), Link(m)}),
     file \in Files,
     missing \in {Absent, Other}}
AnyEdits == r :> {Absent} @@ g :> Files @@ d :> {Dir, Absent, Gophermap(<<>>)}
              @@ m :> {Absent, Dir}

\* Sites whose every link exists and is also a line of the root.
SelfContainedSites ==
  {site \in {Site(Gophermap(root), Gophermap(file), Dir, Absent) :
               root \in SeqsUpTo(3, {Text, NoName, TooLong, Url, Hosted, Remote,
                                     Link(g), Link(d), Link(m), Link(r)}),
               file \in SeqsUpTo(2, {BadPort, Remote, Link(r), Link(g), Link(d), Link(m)})} :
     SelfContained(site)}

\* The root gophermap is edited, and links only to itself then.
RootEdits ==
  [p \in AllPaths |-> IF p = r THEN {Gophermap(<<Hosted, Link(r)>>), Gophermap(<<BadPort>>)}
                      ELSE {}]

\* A root gophermap with a link to a file that does not exist.
DanglingSites ==
  {Site(Gophermap(<<Text, Link(g), Link(m)>>), Gophermap(<<>>), Dir, Absent)}

NoEdits == [p \in AllPaths |-> {}]
===============================================================================
