---------------------------- MODULE GopherLinkProofs ----------------------------
(***************************************************************************)
(* The links of the menus, proved for sites that Loader can load whole and *)
(* that are edited, while they are served, without new links: LinksResolve *)
(* and NeverAborts of GopherMap.  On other sites they do not hold: run     *)
(* map_dangling has such a site.                                           *)
(***************************************************************************)
EXTENDS GopherMapProofs

USE RootAssumption, NoneAssumption, LinesAssumption, SitesAssumption,
    EditsAssumption, EditPhasesAssumption

\* What the theorems suppose of the site.
SoundSite == /\ \A site \in Sites : SelfContained(site)
             /\ EditPhases \subseteq {"serving"}

\* The selector of p finds the node of p.
Settled(p) == paths[p] \in Selectors /\ nodes[paths[p]].path = p

\* Nobody edits the site before it is served.
SiteKept == phase \in {"feed", "scan", "mknode"} => disk \in Sites

\* A path has its node as soon as it is defined, but for the directory that
\* is being added, which is there.
DefinedSettled ==
  phase \in {"scan", "mknode", "serving"} =>
    /\ Root \in Defined(paths)
    /\ phase = "mknode" => disk[adding].kind = "dir"
    /\ \A p \in Defined(paths) : Settled(p) \/ (phase = "mknode" /\ p = adding)

\* The paths the lines still to scan lead to.
ToDo == {LinkOf(todo[i]) : i \in {j \in DOMAIN todo : LineKind(todo[j]) = "local"}}

\* Loader knows what the root mentions, or will.
MentionedKnown ==
  phase \in {"scan", "mknode"} => Mentioned(disk) \subseteq Defined(paths) \cup ToDo

\* While the site is served every link of a gophermap, also of one that is
\* still to be edited, leads to a path that Loader knows.
LinksKnown ==
  phase = "serving" =>
    \A p \in Paths : \A file \in {disk[p]} \cup Edits[p] :
      LinksOf(file) \subseteq Defined(paths)

LinkInv == /\ Inv
           /\ SiteKept
           /\ DefinedSettled
           /\ MentionedKnown
           /\ LinksKnown
           /\ LinksResolve
           /\ NeverAborts

-------------------------------------------------------------------------------
\* A link of a file is the link of one of its lines.
LEMMA LinkOfLine ==
  ASSUME NEW file, NEW i \in DOMAIN file.lines, LineKind(file.lines[i]) = "local"
  PROVE  LinkOf(file.lines[i]) \in LinksOf(file)
BY DEF LinksOf

\* The links of a line that is scanned, and of those behind it.
LEMMA ToDoSplits ==
  ASSUME TypeOK, todo # <<>>, todo' = Tail(todo)
  PROVE  ToDo = ToDo' \cup (IF LineKind(Head(todo)) = "local"
                            THEN {LinkOf(Head(todo))} ELSE {})
<1>1. \A i \in DOMAIN todo : \/ i = 1 /\ todo[i] = Head(todo)
                             \/ i - 1 \in DOMAIN todo' /\ todo[i] = todo'[i - 1]
  BY DEF TypeOK
<1>2. \A i \in DOMAIN todo' : i + 1 \in DOMAIN todo /\ todo[i + 1] = todo'[i]
  BY DEF TypeOK
<1>3. 1 \in DOMAIN todo /\ todo[1] = Head(todo)
  BY DEF TypeOK
<1>4. ASSUME NEW i \in DOMAIN todo, LineKind(todo[i]) = "local", i # 1
      PROVE  LinkOf(todo[i]) \in ToDo'
  <2>1. i - 1 \in DOMAIN todo' /\ todo[i] = todo'[i - 1]
    BY <1>1, <1>4
  <2>. QED
    BY <2>1, <1>4 DEF ToDo
<1>5. ASSUME NEW i \in DOMAIN todo', LineKind(todo'[i]) = "local"
      PROVE  LinkOf(todo'[i]) \in ToDo
  <2>1. i + 1 \in DOMAIN todo /\ todo[i + 1] = todo'[i]
    BY <1>2
  <2>. QED
    BY <2>1, <1>5 DEF ToDo
<1>6. ASSUME NEW p \in ToDo
      PROVE  p \in ToDo' \/ (LineKind(Head(todo)) = "local" /\ p = LinkOf(Head(todo)))
  <2>1. PICK i \in DOMAIN todo : LineKind(todo[i]) = "local" /\ p = LinkOf(todo[i])
    BY DEF ToDo
  <2>. QED
    BY <2>1, <1>3, <1>4
<1>7. ToDo' \subseteq ToDo
  BY <1>5 DEF ToDo
<1>8. LineKind(Head(todo)) = "local" => LinkOf(Head(todo)) \in ToDo
  BY <1>3 DEF ToDo
<1>. QED
  BY <1>6, <1>7, <1>8

\* A selector that is stable keeps its path settled, and the menus right.
LEMMA SettledKept ==
  ASSUME Inv, LinksResolve, [Next]_vars, UNCHANGED reply
  PROVE  /\ \A p \in Defined(paths) : Settled(p) => Settled(p)'
         /\ LinksResolve'
<1>1. /\ \A p \in Defined(paths) : paths'[p] = paths[p]
      /\ \A s \in Selectors : nodes[s] # NoNode => nodes'[s] = nodes[s]
  BY StableStep
<1>2. ASSUME NEW p \in Defined(paths), Settled(p) PROVE Settled(p)'
  <2>1. p \in Paths /\ nodes[paths[p]].path = p /\ paths[p] \in Selectors
    BY <1>2 DEF Settled, Defined
  <2>2. nodes[paths[p]] # NoNode
    BY <2>1 DEF NoNode
  <2>. QED
    BY <1>1, <2>1, <2>2 DEF Settled, Selectors
<1>3. ASSUME NEW i \in DOMAIN reply.items, reply.items[i].link # None
      PROVE  /\ reply.items[i].selector \in Selectors
             /\ nodes'[reply.items[i].selector].path = reply.items[i].link
  <2>1. /\ reply.items[i].selector \in Selectors
        /\ nodes[reply.items[i].selector].path = reply.items[i].link
    BY <1>3 DEF LinksResolve
  <2>2. nodes[reply.items[i].selector] # NoNode
    BY <2>1, <1>3 DEF NoNode
  <2>. QED
    BY <1>1, <2>1, <2>2
<1>. QED
  BY <1>2, <1>3 DEF LinksResolve, Selectors

-------------------------------------------------------------------------------
\* LinkInv holds at the start.
LEMMA LinkInit == Init => LinkInv
<1>. SUFFICES ASSUME Init PROVE LinkInv
  OBVIOUS
<1>1. LinksResolve /\ NeverAborts
  BY DEF Init, NoReply, LinksResolve, NeverAborts
<1>. QED
  BY <1>1, InvInit
  DEF Init, LinkInv, SiteKept, DefinedSettled, MentionedKnown, LinksKnown

\* The root gets its node, and its lines are to do.
LEMMA FeedLinks == LinkInv /\ Feed => LinkInv'
<1>. SUFFICES ASSUME LinkInv, Feed PROVE LinkInv'
  OBVIOUS
<1>1. Inv /\ TypeOK /\ phase = "feed"
  BY DEF LinkInv, Inv, Feed
<1>2. Inv'
  BY <1>1, InvStep DEF Next, Load
<1>3. LinksResolve'
  BY <1>1, SettledKept DEF LinkInv, Next, Load, Feed
<1>4. UNCHANGED disk /\ phase' \in {"scan", "terminated"} /\ disk \in Sites
  BY <1>1 DEF Feed, Insert, LinkInv, SiteKept
<1>5. CASE phase' = "terminated"
  BY <1>2, <1>3, <1>4, <1>5
  DEF LinkInv, SiteKept, DefinedSettled, MentionedKnown, LinksKnown, NeverAborts
<1>6. CASE phase' = "scan"
  <2>1. /\ todo' = disk[Root].lines
        /\ paths' = [paths EXCEPT ![Root] = Empty]
        /\ nodes' = [nodes EXCEPT ![Empty] = [kind |-> "gophermap", path |-> Root]]
    BY <1>6 DEF Feed, Define, Insert
  <2>2. Defined(paths') = {Root}
    BY <1>1, <2>1 DEF Inv, RootHasEmpty, TypeOK, Defined
  <2>3. Settled(Root)'
    BY <1>1, <2>1 DEF Settled, TypeOK, Selectors
  <2>4. ToDo' = LinksOf(disk[Root])
    BY <2>1 DEF ToDo, LinksOf
  <2>. QED
    BY <1>2, <1>3, <1>4, <1>6, <2>2, <2>3, <2>4
    DEF LinkInv, SiteKept, DefinedSettled, MentionedKnown, LinksKnown, NeverAborts, Mentioned
<1>. QED
  BY <1>4, <1>5, <1>6

\* A line is scanned that adds no node.
LEMMA SkipLinks == LinkInv /\ SoundSite /\ (ScanOther \/ ScanMissing) => LinkInv'
<1>. SUFFICES ASSUME LinkInv, SoundSite, ScanOther \/ ScanMissing PROVE LinkInv'
  OBVIOUS
<1>1. /\ Inv /\ TypeOK /\ phase = "scan" /\ todo # <<>> /\ todo' = Tail(todo)
      /\ UNCHANGED <<disk, phase, adding, paths, nodes, reply>>
  BY DEF LinkInv, Inv, ScanOther, ScanMissing, Scanning
<1>2. Inv' /\ LinksResolve'
  BY <1>1, InvStep, SettledKept DEF LinkInv, Next, Load
<1>3. disk \in Sites /\ SelfContained(disk)
  BY <1>1 DEF LinkInv, SiteKept, SoundSite
<1>4. Mentioned(disk) \subseteq Defined(paths) \cup ToDo'
  <2>1. CASE ScanOther
    <3>1. LineKind(Head(todo)) # "local"
      BY <2>1 DEF ScanOther, Scanning
    <3>. QED
      BY <1>1, <3>1, ToDoSplits DEF LinkInv, MentionedKnown
  <2>2. CASE ScanMissing
    <3>1. LinkOf(Head(todo)) \notin Mentioned(disk)
      BY <2>2, <1>3 DEF ScanMissing, SelfContained
    <3>. QED
      BY <1>1, <3>1, ToDoSplits DEF LinkInv, MentionedKnown
  <2>. QED
    BY <2>1, <2>2
<1>. QED
  BY <1>1, <1>2, <1>3, <1>4
  DEF LinkInv, SiteKept, DefinedSettled, MentionedKnown, LinksKnown, NeverAborts,
      Settled, Defined
\* A regular file is defined and gets its node at once.
LEMMA FileLinks == LinkInv /\ ScanFile => LinkInv'
<1>. SUFFICES ASSUME LinkInv, ScanFile PROVE LinkInv'
  OBVIOUS
<1>. PICK p : p = LinkOf(Head(todo))
  OBVIOUS
<1>1. /\ Inv /\ TypeOK /\ phase = "scan" /\ todo # <<>> /\ todo' = Tail(todo)
      /\ LineKind(Head(todo)) = "local" /\ p \in Paths
      /\ UNCHANGED <<disk, adding, reply>>
  BY HeadIsLine DEF LinkInv, Inv, ScanFile, Scanning
<1>2. Inv' /\ LinksResolve' /\ \A q \in Defined(paths) : Settled(q) => Settled(q)'
  BY <1>1, InvStep, SettledKept DEF LinkInv, Next, Load
<1>3. ToDo = ToDo' \cup {p}
  BY <1>1, ToDoSplits
<1>4. CASE ~ Fresh(p)
  <2>1. UNCHANGED <<phase, paths, nodes>> /\ p \in Defined(paths)
    BY <1>1, <1>4 DEF ScanFile, Fresh, Defined
  <2>. QED
    BY <1>1, <1>2, <1>3, <2>1
    DEF LinkInv, SiteKept, DefinedSettled, MentionedKnown, LinksKnown, NeverAborts,
        Settled, Defined
<1>5. CASE Fresh(p)
  <2>1. Define(p, NextSelector) /\ Insert(NextSelector, [kind |-> "gophermap", path |-> p])
    BY <1>5 DEF ScanFile
  <2>2. NextSelector \in Selectors
    BY <1>1, <1>5, NextSelectorType DEF Inv, RootHasEmpty
  <2>3. Defined(paths') = Defined(paths) \cup {p} /\ paths'[p] = NextSelector
    BY <1>1, <1>5, <2>1, <2>2, DefineCounts DEF Define, TypeOK
  <2>4. CASE phase' = "terminated"
    BY <1>1, <1>2, <2>4
    DEF LinkInv, SiteKept, DefinedSettled, MentionedKnown, LinksKnown, NeverAborts
  <2>5. CASE phase' = "scan" /\ nodes' = [nodes EXCEPT ![NextSelector] =
                                            [kind |-> "gophermap", path |-> p]]
    <3>1. Settled(p)'
      BY <1>1, <2>2, <2>3, <2>5 DEF Settled, TypeOK, Selectors
    <3>2. \A q \in Defined(paths) : Settled(q)'
      BY <1>1, <1>2 DEF LinkInv, DefinedSettled
    <3>. QED
      BY <1>1, <1>2, <1>3, <2>3, <2>5, <3>1, <3>2
      DEF LinkInv, SiteKept, DefinedSettled, MentionedKnown, LinksKnown, NeverAborts
  <2>. QED
    BY <2>1, <2>4, <2>5 DEF Insert
<1>. QED
  BY <1>4, <1>5

\* A directory is defined, and is the one being added.
LEMMA DirLinks == LinkInv /\ ScanDir => LinkInv'
<1>. SUFFICES ASSUME LinkInv, ScanDir PROVE LinkInv'
  OBVIOUS
<1>. DEFINE p == LinkOf(Head(todo))
<1>1. /\ Inv /\ TypeOK /\ phase = "scan" /\ todo # <<>> /\ todo' = Tail(todo)
      /\ LineKind(Head(todo)) = "local" /\ p \in Paths /\ disk[p].kind = "dir"
      /\ UNCHANGED <<disk, nodes, reply>>
  BY HeadIsLine DEF LinkInv, Inv, ScanDir, Scanning
<1>2. Inv' /\ LinksResolve' /\ \A q \in Defined(paths) : Settled(q) => Settled(q)'
  BY <1>1, InvStep, SettledKept DEF LinkInv, Next, Load
<1>3. ToDo = ToDo' \cup {p}
  BY <1>1, ToDoSplits
<1>4. CASE ~ Fresh(p)
  <2>1. UNCHANGED <<phase, paths, adding>> /\ p \in Defined(paths)
    BY <1>1, <1>4 DEF ScanDir, Fresh, Defined
  <2>. QED
    BY <1>1, <1>2, <1>3, <2>1
    DEF LinkInv, SiteKept, DefinedSettled, MentionedKnown, LinksKnown, NeverAborts,
        Settled, Defined
<1>5. CASE Fresh(p)
  <2>1. Define(p, NextSelector) /\ adding' = p /\ phase' = "mknode"
    BY <1>5 DEF ScanDir
  <2>2. NextSelector \in Selectors
    BY <1>1, <1>5, NextSelectorType DEF Inv, RootHasEmpty
  <2>3. Defined(paths') = Defined(paths) \cup {p}
    BY <1>1, <1>5, <2>1, <2>2, DefineCounts
  <2>4. \A q \in Defined(paths) : Settled(q)'
    BY <1>1, <1>2 DEF LinkInv, DefinedSettled
  <2>. QED
    BY <1>1, <1>2, <1>3, <2>1, <2>3, <2>4
    DEF LinkInv, SiteKept, DefinedSettled, MentionedKnown, LinksKnown, NeverAborts
<1>. QED
  BY <1>4, <1>5

\* The directory gets its node; nobody has removed it.
LEMMA NodeLinks == LinkInv /\ (MakeNode \/ MakeNodeMissing \/ MakeNodeFails) => LinkInv'
<1>. SUFFICES ASSUME LinkInv, MakeNode \/ MakeNodeMissing \/ MakeNodeFails PROVE LinkInv'
  OBVIOUS
<1>1. /\ Inv /\ TypeOK /\ phase = "mknode" /\ disk[adding].kind = "dir"
  BY DEF LinkInv, Inv, DefinedSettled, MakeNode, MakeNodeMissing, MakeNodeFails
<1>2. /\ MakeNode /\ UNCHANGED <<disk, todo, paths, reply>>
      /\ Insert(paths[adding], NodeOf(adding))
  BY <1>1 DEF MakeNode, MakeNodeMissing, MakeNodeFails
<1>3. Inv' /\ LinksResolve' /\ \A q \in Defined(paths) : Settled(q) => Settled(q)'
  BY <1>1, <1>2, InvStep, SettledKept DEF LinkInv, Next, Load
<1>4. CASE phase' = "terminated"
  BY <1>3, <1>4
  DEF LinkInv, SiteKept, DefinedSettled, MentionedKnown, LinksKnown, NeverAborts
<1>5. CASE phase' = "scan" /\ nodes' = [nodes EXCEPT ![paths[adding]] = NodeOf(adding)]
  <2>. PICK p \in Paths : p = adding /\ paths[p] \in Selectors
    BY <1>1 DEF Inv, AddingDefined, Defined, TypeOK
  <2>2. Settled(p)'
    BY <1>1, <1>2, <1>5 DEF Settled, TypeOK, Selectors, NodeOf
  <2>3. \A q \in Defined(paths) : q # p => Settled(q)'
    BY <1>1, <1>3 DEF LinkInv, DefinedSettled
  <2>4. \A q \in Defined(paths) : Settled(q)'
    <3>. SUFFICES ASSUME NEW q \in Defined(paths) PROVE Settled(q)'
      OBVIOUS
    <3>1. CASE q = p
      BY <2>2, <3>1
    <3>. QED
      BY <2>3, <3>1
  <2>5. Mentioned(disk') \subseteq Defined(paths') \cup ToDo'
    BY <1>1, <1>2 DEF LinkInv, MentionedKnown, Mentioned, LinksOf, Defined, ToDo
  <2>6. Defined(paths') = Defined(paths) /\ Root \in Defined(paths) /\ disk' \in Sites
    BY <1>1, <1>2 DEF LinkInv, SiteKept, DefinedSettled, Defined
  <2>. QED
    BY <1>3, <1>5, <2>4, <2>5, <2>6
    DEF LinkInv, SiteKept, DefinedSettled, MentionedKnown, LinksKnown, NeverAborts
<1>. QED
  BY <1>2, <1>4, <1>5 DEF Insert

\* All lines are scanned: everything the root mentions is known.
LEMMA LoadedLinks == LinkInv /\ SoundSite /\ Loaded => LinkInv'
<1>. SUFFICES ASSUME LinkInv, SoundSite, Loaded PROVE LinkInv'
  OBVIOUS
<1>1. /\ Inv /\ TypeOK /\ phase = "scan" /\ phase' = "serving" /\ todo = <<>>
      /\ UNCHANGED <<disk, todo, adding, paths, nodes, reply>>
  BY DEF LinkInv, Inv, Loaded, Done
<1>2. Inv' /\ LinksResolve' /\ \A q \in Defined(paths) : Settled(q) => Settled(q)'
  BY <1>1, InvStep, SettledKept DEF LinkInv, Next, Load
<1>3. SelfContained(disk)
  BY <1>1 DEF LinkInv, SiteKept, SoundSite
<1>4. Mentioned(disk) \subseteq Defined(paths)
  <2>1. ToDo = {}
    BY <1>1 DEF ToDo
  <2>. QED
    BY <1>1, <2>1 DEF LinkInv, MentionedKnown
<1>5. LinksKnown'
  BY <1>1, <1>3, <1>4 DEF LinksKnown, SelfContained, Defined, LinksOf
<1>6. Defined(paths') = Defined(paths)
  BY <1>1 DEF Defined
<1>. QED
  BY <1>1, <1>2, <1>5, <1>6
  DEF LinkInv, SiteKept, DefinedSettled, MentionedKnown, NeverAborts

\* A step that leaves all but the phase and the reply as they are.
LEMMA ServingLinks ==
  ASSUME LinkInv, Inv', LinksResolve', NeverAborts',
         phase' = phase \/ phase' = "terminated",
         UNCHANGED <<disk, todo, adding, paths, nodes>>
  PROVE  LinkInv'
BY DEF LinkInv, SiteKept, DefinedSettled, MentionedKnown, LinksKnown, Settled,
       Defined, Mentioned, LinksOf, ToDo, Selectors

\* A menu is made of lines whose paths are settled.
LEMMA MenuLinks == \A s \in Selectors : LinkInv /\ AskMenu(s) => LinksResolve'
<1>. SUFFICES ASSUME NEW s \in Selectors, LinkInv, AskMenu(s) PROVE LinksResolve'
  OBVIOUS
<1>. DEFINE file == disk[nodes[s].path]
<1>1. /\ TypeOK /\ phase = "serving" /\ file.kind = "file"
      /\ reply'.items = [i \in DOMAIN file.lines |-> MenuItem(file.lines[i])]
      /\ UNCHANGED <<paths, nodes>>
  BY DEF LinkInv, Inv, AskMenu, AskGopherMap, Answers
<1>2. nodes[s].path \in Paths
  <2>1. nodes[s] # NoNode
    BY DEF AskMenu, AskGopherMap, NoNode
  <2>. QED
    BY <2>1 DEF LinkInv, Inv, Defined
<1>3. ASSUME NEW i \in DOMAIN file.lines, MenuItem(file.lines[i]).link # None
      PROVE  /\ MenuItem(file.lines[i]).selector \in Selectors
             /\ nodes[MenuItem(file.lines[i]).selector].path = MenuItem(file.lines[i]).link
  <2>1. LineKind(file.lines[i]) = "local"
    BY <1>3 DEF MenuItem
  <2>2. LinkOf(file.lines[i]) \in Defined(paths)
    BY <1>1, <1>2, <2>1, LinkOfLine DEF LinkInv, LinksKnown
  <2>3. Settled(LinkOf(file.lines[i]))
    BY <1>1, <2>2 DEF LinkInv, DefinedSettled
  <2>. QED
    BY <2>1, <2>3 DEF MenuItem, Settled
<1>. QED
  BY <1>1, <1>3 DEF LinksResolve, Selectors

\* No request finds a line whose path is not defined.
LEMMA NoneUnmapped == \A s \in Selectors : LinkInv => ~ AskUnmapped(s)
<1>. SUFFICES ASSUME NEW s \in Selectors, LinkInv, AskUnmapped(s) PROVE FALSE
  OBVIOUS
<1>. DEFINE file == disk[nodes[s].path]
<1>1. phase = "serving" /\ nodes[s] # NoNode
  BY DEF AskUnmapped, AskGopherMap, NoNode
<1>2. nodes[s].path \in Paths
  BY <1>1 DEF LinkInv, Inv, Defined
<1>3. PICK i \in DOMAIN file.lines : Unmapped(file.lines[i])
  BY DEF AskUnmapped
<1>4. LinkOf(file.lines[i]) \in Defined(paths)
  BY <1>1, <1>2, <1>3, LinkOfLine DEF LinkInv, LinksKnown, Unmapped
<1>. QED
  BY <1>3, <1>4 DEF Unmapped, Defined

\* An edit brings no new link.
LEMMA EditLinks == \A p \in Paths : LinkInv /\ SoundSite /\ Edit(p) => LinkInv'
<1>. SUFFICES ASSUME NEW p \in Paths, LinkInv, SoundSite, Edit(p) PROVE LinkInv'
  OBVIOUS
<1>1. /\ Inv /\ TypeOK /\ phase = "serving"
      /\ UNCHANGED <<phase, todo, adding, paths, nodes, reply>>
  BY DEF LinkInv, Inv, SoundSite, Edit
<1>2. Inv' /\ LinksResolve' /\ \A q \in Defined(paths) : Settled(q) => Settled(q)'
  BY <1>1, InvStep, SettledKept DEF LinkInv, Next
<1>3. PICK file \in Edits[p] : disk' = [disk EXCEPT ![p] = file]
  BY DEF Edit
<1>4. \A q \in Paths : disk'[q] \in {disk[q]} \cup Edits[q]
  BY <1>1, <1>3 DEF TypeOK
<1>5. LinksKnown'
  BY <1>1, <1>4 DEF LinkInv, LinksKnown, Defined, LinksOf
<1>. QED
  BY <1>1, <1>2, <1>5
  DEF LinkInv, SiteKept, DefinedSettled, MentionedKnown, NeverAborts, Defined

\* Every step keeps LinkInv on a site that Loader can load whole.
LEMMA LinkStep == LinkInv /\ SoundSite /\ [Next]_vars => LinkInv'
<1>. SUFFICES ASSUME LinkInv, SoundSite, [Next]_vars PROVE LinkInv'
  OBVIOUS
<1>1. Inv /\ Inv' /\ LinksResolve /\ NeverAborts
  BY InvStep DEF LinkInv
<1>2. CASE Feed
  BY <1>2, FeedLinks
<1>3. CASE ScanOther \/ ScanMissing
  BY <1>3, SkipLinks
<1>4. CASE ScanFile
  BY <1>4, FileLinks
<1>5. CASE ScanDir
  BY <1>5, DirLinks
<1>6. CASE MakeNode \/ MakeNodeMissing \/ MakeNodeFails
  BY <1>6, NodeLinks
<1>7. CASE Loaded
  BY <1>7, LoadedLinks
<1>8. CASE ScanBadPort \/ ScanUnsupported
  <2>1. phase' = "terminated" /\ UNCHANGED <<disk, todo, adding, paths, nodes, reply>>
    BY <1>8 DEF ScanBadPort, ScanUnsupported
  <2>2. LinksResolve'
    BY <1>1, <2>1, SettledKept
  <2>. QED
    BY <1>1, <2>1, <2>2, ServingLinks DEF NeverAborts
<1>9. CASE AskUrl \/ \E s \in Selectors : Ask(s)
  <2>1. \A s \in Selectors : ~ AskUnmapped(s)
    BY NoneUnmapped
  <2>2. UNCHANGED <<disk, phase, todo, adding, paths, nodes>>
    BY <1>9, <2>1 DEF AskUrl, Ask, AskUnknown, AskMenu, AskUnreadable, AskDir, Answers
  <2>3. LinksResolve'
    <3>1. CASE \E s \in Selectors : AskMenu(s)
      BY <3>1, MenuLinks
    <3>2. CASE reply'.items = <<>>
      BY <3>2 DEF LinksResolve
    <3>. QED
      BY <1>9, <2>1, <3>1, <3>2
      DEF AskUrl, Ask, AskUnknown, AskUnreadable, AskDir, Answers
  <2>. QED
    BY <1>1, <2>2, <2>3, ServingLinks DEF NeverAborts
<1>10. CASE \E p \in Paths : Edit(p)
  BY <1>10, EditLinks
<1>11. CASE UNCHANGED vars
  <2>1. UNCHANGED <<disk, phase, todo, adding, paths, nodes, reply>>
    BY <1>11 DEF vars
  <2>2. LinksResolve'
    BY <1>1, <2>1, SettledKept
  <2>. QED
    BY <1>1, <2>1, <2>2, ServingLinks DEF NeverAborts
<1>. QED
  BY <1>2, <1>3, <1>4, <1>5, <1>6, <1>7, <1>8, <1>9, <1>10, <1>11 DEF Next, Load

-------------------------------------------------------------------------------
\* At a site that Loader can load whole, and that is edited without new links
\* while it is served, every selector a menu shows for a path finds the node
\* of that path.
THEOREM MapLinksResolve ==
  ASSUME SoundSite
  PROVE  Spec => []LinksResolve
<1>1. LinkInv => LinksResolve
  BY DEF LinkInv
<1>2. LinkInv /\ [Next]_vars => LinkInv'
  BY LinkStep
<1>. QED
  BY <1>1, <1>2, LinkInit, PTL DEF Spec

\* At such a site no request fails the assertion of virtual_path_of.
THEOREM MapNeverAborts ==
  ASSUME SoundSite
  PROVE  Spec => []NeverAborts
<1>1. LinkInv => NeverAborts
  BY DEF LinkInv
<1>2. LinkInv /\ [Next]_vars => LinkInv'
  BY LinkStep
<1>. QED
  BY <1>1, <1>2, LinkInit, PTL DEF Spec
===============================================================================
