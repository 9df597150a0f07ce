------------------------------- MODULE GopherMap -------------------------------
(***************************************************************************)
(* The map of a gopher site: how Loader and Parser (src/src/map_parser.cc) *)
(* fill LookupMap and VirtualPathsMap (src/src/gopher/map.cc) from the root *)
(* gophermap when the server starts, and how the nodes found there answer  *)
(* requests (NodeGopherMap, NodeFSys for the root of its directory,        *)
(* NodeRedirect), while the files of the site may be edited.               *)
(*                                                                         *)
(* The load has one step for each point where it looks at the disk; a      *)
(* request is answered in one callback.  A line is the sequence of its     *)
(* tab-separated fields; the values of a field are told apart only as far  *)
(* as parse_line does.  What a request does to the session that made it is *)
(* in GopherServer.                                                        *)
(***************************************************************************)
EXTENDS Naturals, Sequences, FiniteSets, ParseLine

CONSTANTS
  Paths,       \* the paths the gophermaps of the site mention
  Root,        \* settings.content.root_gophermap
  Lines,       \* the lines that may be in a gophermap
  Sites,       \* what the disk may hold at first
  Edits,       \* what each path may hold after an edit
  EditPhases,  \* the phases in which files may be edited
  Short,       \* the first fields too short for a type and a name
  Urls,        \* the second fields that start with "URL:"
  Ports,       \* the fourth fields util::strto<uint16_t> accepts
  Empty,       \* the selector ""
  None         \* no selector, no path

ASSUME RootAssumption == Root \in Paths /\ IsFiniteSet(Paths)
ASSUME NoneAssumption == /\ None \notin Paths /\ None \notin Nat
                         /\ Empty \notin Nat /\ Empty # None

-------------------------------------------------------------------------------
(* Parser::parse_line.                                                     *)

\* What parse_line makes of a line.
LineKind(line) ==
  LineKindOf(Len(line), line[1] \in Short, line[2] \in Urls, line[4] \in Ports)

LinkOf(line) == line[2]

\* What a path may hold.
FileKinds == {"absent", "file", "dir", "other"}
File == [kind : FileKinds, lines : Seq(Lines)]

ASSUME LinesAssumption == \A line \in Lines :
                            LineKind(line) = "local" => LinkOf(line) \in Paths
ASSUME SitesAssumption == Sites \subseteq [Paths -> File]
ASSUME EditsAssumption == \A p \in Paths : Edits[p] \subseteq File
ASSUME EditPhasesAssumption == EditPhases \subseteq {"scan", "mknode", "serving"}

-------------------------------------------------------------------------------
VARIABLES
  disk,     \* the files of the site
  phase,    \* "feed", "scan", "mknode": main is in the constructor of Loader;
            \* "serving"; "aborted" by an assertion; "terminated" by an
            \* exception nobody catches
  todo,     \* the lines of the root gophermap still to scan
  adding,   \* the directory add_filesystem is making a node for
  paths,    \* VirtualPathsMap::paths: None when undefined
  nodes,    \* LookupMap::nodes: the path the node of a selector serves
  reply     \* what the last request was answered

vars == <<disk, phase, todo, adding, paths, nodes, reply>>

\* The keys of LookupMap: define counts the paths already defined.
Selectors == {Empty} \cup 1..(Cardinality(Paths) - 1)

NoNode == [kind |-> "none", path |-> None]
NoReply == [kind |-> "none", items |-> <<>>]

Defined(map) == {p \in Paths : map[p] # None}

-------------------------------------------------------------------------------
(* VirtualPathsMap and LookupMap.                                          *)

\* Mutants of NextSelector: the size is read after the insertion; nodes are
\* counted instead of paths.
NextSelectorAfter == Cardinality(Defined(paths)) + 1
NextSelectorOfNodes == Cardinality({s \in Selectors : nodes[s] # NoNode})

\* The virtual path define() gives when it is not told one.
NextSelector == Cardinality(Defined(paths))

\* Mutant of Fresh: define() does not look for the path first.
FreshAlways(p) == TRUE

\* Whether define(p) defines p.
Fresh(p) == paths[p] = None

Define(p, selector) == paths' = [paths EXCEPT ![p] = selector]

\* LookupMap::insert, which throws DuplicatedError when the selector has a
\* node already; the error ends the program.
Insert(selector, node) ==
  IF nodes[selector] = NoNode
  THEN /\ nodes' = [nodes EXCEPT ![selector] = node]
       /\ phase' = "scan"
  ELSE /\ phase' = "terminated"
       /\ UNCHANGED nodes

-------------------------------------------------------------------------------
Init == /\ disk \in Sites
        /\ phase = "feed"
        /\ todo = <<>>
        /\ adding = None
        /\ paths = [p \in Paths |-> None]
        /\ nodes = [s \in Selectors |-> NoNode]
        /\ reply = NoReply

(* The constructor of Loader.                                              *)

\* The root gophermap is opened (its lines are buffered from here on) and
\* gets the empty selector.
Feed ==
  /\ phase = "feed"
  /\ IF disk[Root].kind = "file"
     THEN /\ todo' = disk[Root].lines
          /\ Define(Root, Empty)
          /\ Insert(Empty, [kind |-> "gophermap", path |-> Root])
     ELSE /\ phase' = "terminated"
          /\ UNCHANGED <<todo, paths, nodes>>
  /\ UNCHANGED <<disk, adding, reply>>

Scanning(kinds) == /\ phase = "scan"
                   /\ todo # <<>>
                   /\ LineKind(Head(todo)) \in kinds

\* A line that is not a local link: this parser has no callback for it.
ScanOther ==
  /\ Scanning({"text", "url", "remote"})
  /\ todo' = Tail(todo)
  /\ UNCHANGED <<disk, phase, adding, paths, nodes, reply>>

\* An invalid port throws, and main does not catch what it throws.
ScanBadPort ==
  /\ Scanning({"badport"})
  /\ phase' = "terminated"
  /\ UNCHANGED <<disk, todo, adding, paths, nodes, reply>>

\* got_local_node, for a path that does not exist: no node, no virtual path.
ScanMissing ==
  /\ Scanning({"local"})
  /\ disk[LinkOf(Head(todo))].kind = "absent"
  /\ todo' = Tail(todo)
  /\ UNCHANGED <<disk, phase, adding, paths, nodes, reply>>

\* got_local_node, for what is neither a file nor a directory.
ScanUnsupported ==
  /\ Scanning({"local"})
  /\ disk[LinkOf(Head(todo))].kind = "other"
  /\ phase' = "terminated"
  /\ UNCHANGED <<disk, todo, adding, paths, nodes, reply>>

\* add_gopherfile: any regular file is taken for a gophermap.
ScanFile ==
  LET p == LinkOf(Head(todo)) IN
  /\ Scanning({"local"})
  /\ disk[p].kind = "file"
  /\ todo' = Tail(todo)
  /\ IF Fresh(p)
     THEN /\ Define(p, NextSelector)
          /\ Insert(NextSelector, [kind |-> "gophermap", path |-> p])
     ELSE UNCHANGED <<phase, paths, nodes>>
  /\ UNCHANGED <<disk, adding, reply>>

\* add_filesystem, up to the constructor of NodeFSys, which will look at the
\* directory again.
ScanDir ==
  LET p == LinkOf(Head(todo)) IN
  /\ Scanning({"local"})
  /\ disk[p].kind = "dir"
  /\ todo' = Tail(todo)
  /\ IF Fresh(p)
     THEN /\ Define(p, NextSelector)
          /\ adding' = p
          /\ phase' = "mknode"
     ELSE UNCHANGED <<phase, paths, adding>>
  /\ UNCHANGED <<disk, nodes, reply>>

\* Mutant of NodeOf: the node of a directory serves the root gophermap.
NodeOfRoot(p) == [kind |-> "fsys", path |-> Root]

NodeOf(p) == [kind |-> "fsys", path |-> p]

\* The constructor of NodeFSys, on a directory that is still there.
MakeNode ==
  /\ phase = "mknode"
  /\ disk[adding].kind = "dir"
  /\ adding' = None
  /\ Insert(paths[adding], NodeOf(adding))
  /\ UNCHANGED <<disk, todo, paths, reply>>

\* The directory is gone: got_local_node catches ENOENT, and the path stays
\* defined, without a node.
MakeNodeMissing ==
  /\ phase = "mknode"
  /\ disk[adding].kind = "absent"
  /\ adding' = None
  /\ phase' = "scan"
  /\ UNCHANGED <<disk, todo, paths, nodes, reply>>

\* It is no longer a directory.
MakeNodeFails ==
  /\ phase = "mknode"
  /\ disk[adding].kind \in {"file", "other"}
  /\ adding' = None
  /\ phase' = "terminated"
  /\ UNCHANGED <<disk, todo, paths, nodes, reply>>

\* Mutant of Done: the line after which the end of the file shows is dropped.
DoneEarly == Len(todo) <= 1

Done == todo = <<>>

Loaded ==
  /\ phase = "scan"
  /\ Done
  /\ phase' = "serving"
  /\ UNCHANGED <<disk, todo, adding, paths, nodes, reply>>

-------------------------------------------------------------------------------
(* Requests: Session::got_line, LookupMap::lookup, Node::make_writer.      *)

Answers(kind, items) ==
  /\ reply' = [kind |-> kind, items |-> items]
  /\ UNCHANGED <<disk, phase, todo, adding, paths, nodes>>

\* "URL:...": the url_redirector.
AskUrl == phase = "serving" /\ Answers("redirect", <<>>)

\* No node has the selector: a menu with the LookupFailure.
AskUnknown(selector) ==
  /\ phase = "serving"
  /\ nodes[selector] = NoNode
  /\ Answers("failure", <<>>)

AskGopherMap(selector) == /\ phase = "serving"
                          /\ nodes[selector].kind = "gophermap"

\* Whether the assertion of virtual_path_of fails on the line.
Unmapped(line) == LineKind(line) = "local" /\ paths[LinkOf(line)] = None

\* Whether the line stops NodeGopherMap::make_writer.
Stops(line) == LineKind(line) = "badport" \/ Unmapped(line)

\* Whether it is the i-th line that stops it: the first that does.
StopsAt(i, lines) == Stops(lines[i]) /\ \A j \in 1..(i - 1) : ~ Stops(lines[j])

MenuItem(line) ==
  [link |-> IF LineKind(line) = "local" THEN LinkOf(line) ELSE None,
   selector |-> IF LineKind(line) = "local" THEN paths[LinkOf(line)] ELSE None]

\* The file is read line by line into a menu.
AskMenu(selector) ==
  LET file == disk[nodes[selector].path] IN
  /\ AskGopherMap(selector)
  /\ file.kind = "file"
  /\ \A i \in DOMAIN file.lines : ~ Stops(file.lines[i])
  /\ Answers("menu", [i \in DOMAIN file.lines |-> MenuItem(file.lines[i])])

\* Neither the IOError of a file that cannot be read nor the error of an
\* invalid port is caught by got_line: the session is closed without a reply.
AskUnreadable(selector) ==
  LET file == disk[nodes[selector].path] IN
  /\ AskGopherMap(selector)
  /\ \/ file.kind # "file"
     \/ \E i \in DOMAIN file.lines :
          StopsAt(i, file.lines) /\ LineKind(file.lines[i]) = "badport"
  /\ Answers("closed", <<>>)

\* The assertion of virtual_path_of kills the server.
AskUnmapped(selector) ==
  LET file == disk[nodes[selector].path] IN
  /\ AskGopherMap(selector)
  /\ file.kind = "file"
  /\ \E i \in DOMAIN file.lines :
       StopsAt(i, file.lines) /\ Unmapped(file.lines[i])
  /\ phase' = "aborted"
  /\ UNCHANGED <<disk, todo, adding, paths, nodes, reply>>

\* NodeFSys for the root of its directory: analyze_request, then list_dir.
AskDir(selector) ==
  /\ phase = "serving"
  /\ nodes[selector].kind = "fsys"
  /\ IF disk[nodes[selector].path].kind = "dir"
     THEN \E kind \in {"listing", "closed"} : Answers(kind, <<>>)
     ELSE Answers("failure", <<>>)

\* Somebody replaces the file, or the directory, at a path.
Edit(p) ==
  /\ phase \in EditPhases
  /\ \E file \in Edits[p] : disk' = [disk EXCEPT ![p] = file]
  /\ UNCHANGED <<phase, todo, adding, paths, nodes, reply>>

Load == Feed \/ ScanOther \/ ScanBadPort \/ ScanMissing \/ ScanUnsupported
        \/ ScanFile \/ ScanDir \/ MakeNode \/ MakeNodeMissing
        \/ MakeNodeFails \/ Loaded

Ask(selector) == AskUnknown(selector) \/ AskMenu(selector)
                 \/ AskUnreadable(selector) \/ AskUnmapped(selector)
                 \/ AskDir(selector)

Next == \/ Load
        \/ AskUrl
        \/ \E selector \in Selectors : Ask(selector)
        \/ \E p \in Paths : Edit(p)

Spec == Init /\ [][Next]_vars

-------------------------------------------------------------------------------
Phases == {"feed", "scan", "mknode", "serving", "aborted", "terminated"}
NodeKinds == {"none", "gophermap", "fsys"}

\* The types of the variables: in particular every number define() hands out
\* is that of one of the other paths of the site.
TypeOK == /\ disk \in [Paths -> File]
          /\ phase \in Phases
          /\ todo \in Seq(Lines)
          /\ adding \in Paths \cup {None}
          /\ phase = "mknode" => adding \in Paths
          /\ paths \in [Paths -> Selectors \cup {None}]
          /\ nodes \in [Selectors -> [kind : NodeKinds, path : Paths \cup {None}]]

\* A selector stands for one path: no two paths share a virtual path, and the
\* node under a selector serves the path whose virtual path that is.  It
\* needs the numbers of define() to be new even when a node could not be made
\* (map.cc:53); otherwise DuplicatedError would end the program.
SelectorsUnique ==
  /\ \A p, q \in Defined(paths) : paths[p] = paths[q] => p = q
  /\ \A s \in Selectors : nodes[s] # NoNode => paths[nodes[s].path] = s

\* A selector handed out keeps its meaning: neither a path that is linked
\* twice nor an edit of the site changes what it stands for.
SelectorsStable ==
  [][/\ \A p \in Defined(paths) : paths'[p] = paths[p]
     /\ \A s \in Selectors : nodes[s] # NoNode => nodes'[s] = nodes[s]]_vars

\* The paths the local links of a file lead to.
LinksOf(file) ==
  {LinkOf(file.lines[i]) : i \in {j \in DOMAIN file.lines : LineKind(file.lines[j]) = "local"}}

\* The paths Loader comes to know at a site.
Mentioned(site) == {Root} \cup LinksOf(site[Root])

\* A site that Loader can load whole: its root mentions every link of its
\* gophermaps, edited or not, and what it mentions exists.
SelfContained(site) ==
  /\ \A p \in Mentioned(site) : site[p].kind # "absent"
  /\ \A p \in Paths : \A file \in {site[p]} \cup Edits[p] :
       LinksOf(file) \subseteq Mentioned(site)

\* The links of a menu work: the selector a served gophermap shows for a
\* local path finds the node of that path.
LinksResolve ==
  \A i \in DOMAIN reply.items :
    LET item == reply.items[i] IN
    item.link # None => /\ item.selector \in Selectors
                        /\ nodes[item.selector].path = item.link

\* No request aborts the server.
NeverAborts == phase # "aborted"
===============================================================================
