---------------------------- MODULE MCGophermapText ----------------------------
(* Instances of GophermapText for TLC: files of up to two lines, and of three *)
(* short ones, with and without a newline at the end.                      *)
EXTENDS GophermapText, TLC

TheDigits == "0" :> 0 @@ "1" :> 1 @@ "2" :> 2 @@ "3" :> 3 @@ "4" :> 4
          @@ "5" :> 5 @@ "6" :> 6 @@ "7" :> 7 @@ "8" :> 8 @@ "9" :> 9

SomePath == <<"1">>
SomeHost == <<"localhost">>

TheLoops == {{"local"}, {"local", "remote", "url", "text"}}

LinkTo(selector) == <<"1", "x", "tab">> \o selector
HostField(host) == LinkTo(<<"x", "tab">> \o host)
PortField(port) == HostField(<<"x", "tab">> \o port)

Ports == {<<"7">>, <<"7", "0">>, <<"1", "0", "0">>, <<"-", "7">>, <<"+", "7">>,
          <<"sp", "7">>, <<"7", "sp", "x">>, <<"x">>, <<>>}

ShortLines == {<<>>, <<".">>, LinkTo(<<"x">>), LinkTo(<<>>)}

SomeLines == ShortLines
  \cup {<<"1", "tab", "x">>, LinkTo(URL), LinkTo(<<"U", "R", "L">>),
        LinkTo(URL \o <<"x">>), HostField(<<>>), HostField(<<"x">>),
        PortField(<<"7", "tab">>)}
  \cup {PortField(port) : port \in Ports}

Ended(line) == Append(line, "nl")

Heads == {<<>>} \cup {Ended(l) : l \in SomeLines}
           \cup {Ended(l) \o Ended(m) : l, m \in ShortLines}

AllContents == {h \o l : h \in Heads, l \in SomeLines}
                 \cup {h \o Ended(l) : h \in Heads, l \in SomeLines}
===============================================================================
