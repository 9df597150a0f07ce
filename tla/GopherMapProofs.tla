---------------------------- MODULE GopherMapProofs ----------------------------
(***************************************************************************)
(* What a selector stands for, proved for every site, every set of paths   *)
(* and every edit: TypeOK, SelectorsUnique and SelectorsStable of          *)
(* GopherMap.                                                              *)
(***************************************************************************)
EXTENDS GopherMap, FiniteSetTheorems, TLAPS

USE RootAssumption, NoneAssumption, LinesAssumption, SitesAssumption,
    EditsAssumption, EditPhasesAssumption

\* The number of paths defined so far.
Count(map) == Cardinality(Defined(map))

\* The numbers of define() grow with the table, so that the next one is new.
NumbersBelowCount ==
  \A p \in Defined(paths) : paths[p] # Empty => paths[p] < Count(paths)

\* Only the root has the empty selector, from the first step of the load on.
RootHasEmpty ==
  /\ phase = "feed" => /\ Defined(paths) = {}
                       /\ \A s \in Selectors : nodes[s] = NoNode
  /\ phase \notin {"feed", "terminated"} => paths[Root] = Empty
  /\ \A p \in Defined(paths) : p # Root => paths[p] # Empty

\* The directory being added is defined.
AddingDefined == phase = "mknode" => adding \in Defined(paths)

Inv == /\ TypeOK
       /\ NumbersBelowCount
       /\ RootHasEmpty
       /\ AddingDefined
       /\ \A p, q \in Defined(paths) : paths[p] = paths[q] => p = q
       /\ \A s \in Selectors :
            nodes[s] # NoNode => /\ nodes[s].path \in Defined(paths)
                                 /\ paths[nodes[s].path] = s

-------------------------------------------------------------------------------
\* The paths that are defined are finitely many.
LEMMA DefinedFinite ==
  ASSUME NEW map
  PROVE  /\ IsFiniteSet(Defined(map))
         /\ Count(map) \in Nat
         /\ Count(map) <= Cardinality(Paths)
         /\ Cardinality(Paths) \in Nat
<1>1. Defined(map) \subseteq Paths
  BY DEF Defined
<1>. QED
  BY <1>1, FS_Subset, FS_CardinalityType DEF Count

\* Defining a new path adds one to the count.
LEMMA DefineCounts ==
  ASSUME TypeOK, NEW p \in Paths, NEW selector \in Selectors,
         Fresh(p), Define(p, selector)
  PROVE  /\ Defined(paths') = Defined(paths) \cup {p}
         /\ p \notin Defined(paths)
         /\ Count(paths') = Count(paths) + 1
<1>1. selector # None
  BY DEF Selectors
<1>2. /\ Defined(paths') = Defined(paths) \cup {p}
      /\ p \notin Defined(paths)
  BY <1>1 DEF TypeOK, Fresh, Define, Defined
<1>. QED
  BY <1>2, DefinedFinite, FS_AddElement DEF Count

\* Once the root is defined, and while a path is not, the number define()
\* gives to it is a positive one, and within the bound of Selectors.
LEMMA NextSelectorType ==
  ASSUME TypeOK, NEW p \in Paths, Fresh(p), paths[Root] = Empty
  PROVE  /\ NextSelector \in Nat
         /\ NextSelector \in Selectors
         /\ NextSelector = Count(paths)
<1>1. Root \in Defined(paths) /\ p \in Paths \ Defined(paths)
  BY DEF Defined, Fresh
<1>2. Count(paths) # 0
  BY <1>1, DefinedFinite, FS_EmptySet DEF Count
<1>3. Defined(paths) \cup {p} \subseteq Paths
  BY DEF Defined
<1>4. Cardinality(Defined(paths) \cup {p}) <= Cardinality(Paths)
  BY <1>3, FS_Subset
<1>5. Cardinality(Defined(paths) \cup {p}) = Count(paths) + 1
  BY <1>1, DefinedFinite, FS_AddElement DEF Count
<1>. QED
  BY <1>2, <1>4, <1>5, DefinedFinite DEF NextSelector, Count, Selectors

\* A line left to scan is one of the lines of a gophermap.
LEMMA HeadIsLine ==
  ASSUME TypeOK, todo # <<>>
  PROVE  Head(todo) \in Lines /\ Tail(todo) \in Seq(Lines)
BY DEF TypeOK

\* A node is inserted, or the program ends.
LEMMA InsertEffect ==
  ASSUME TypeOK, NEW s \in Selectors, NEW kind \in {"gophermap", "fsys"},
         NEW p \in Paths, Insert(s, [kind |-> kind, path |-> p])
  PROVE  /\ nodes' \in [Selectors -> [kind : NodeKinds, path : Paths \cup {None}]]
         /\ phase' \in {"scan", "terminated"}
         /\ \A t \in Selectors :
              \/ nodes'[t] = nodes[t]
              \/ t = s /\ nodes[t] = NoNode /\ nodes'[t].path = p
BY DEF TypeOK, Insert, NodeKinds

\* What define() does to the table of virtual paths while the load goes on.
LEMMA DefineKeeps ==
  ASSUME Inv, phase = "scan", NEW p \in Paths, Fresh(p), Define(p, NextSelector)
  PROVE  /\ paths' \in [Paths -> Selectors \cup {None}]
         /\ NumbersBelowCount'
         /\ paths'[Root] = Empty
         /\ Defined(paths') = Defined(paths) \cup {p}
         /\ \A q \in Defined(paths) : paths'[q] = paths[q]
         /\ \A q \in Defined(paths') : q # Root => paths'[q] # Empty
         /\ \A q, r \in Defined(paths') : paths'[q] = paths'[r] => q = r
<1>1. TypeOK /\ paths[Root] = Empty /\ p # Root
  BY DEF Inv, RootHasEmpty, Fresh
<1>2. NextSelector \in Nat /\ NextSelector \in Selectors /\ NextSelector = Count(paths)
  BY <1>1, NextSelectorType
<1>3. /\ Defined(paths') = Defined(paths) \cup {p}
      /\ p \notin Defined(paths)
      /\ Count(paths') = Count(paths) + 1
  BY <1>1, <1>2, DefineCounts
<1>4. /\ paths' \in [Paths -> Selectors \cup {None}]
      /\ paths'[p] = NextSelector
      /\ \A q \in Paths : q # p => paths'[q] = paths[q]
  BY <1>1, <1>2 DEF Define, TypeOK
<1>5. Defined(paths) \subseteq Paths
  BY DEF Defined
<1>6. \A q \in Defined(paths) : paths'[q] = paths[q]
  BY <1>3, <1>4, <1>5
<1>7. \A q \in Defined(paths) :
        paths[q] # Empty => paths[q] \in Nat /\ paths[q] < Count(paths)
  BY <1>1, DefinedFinite DEF Inv, NumbersBelowCount, TypeOK, Defined, Selectors
<1>8. NumbersBelowCount'
  <2>. SUFFICES ASSUME NEW q \in Defined(paths'), paths'[q] # Empty
                PROVE  paths'[q] < Count(paths')
    BY DEF NumbersBelowCount, Count
  <2>1. CASE q = p
    BY <2>1, <1>2, <1>3, <1>4
  <2>2. CASE q \in Defined(paths)
    <3>1. paths'[q] = paths[q] /\ paths[q] # Empty
      BY <2>2, <1>6
    <3>2. paths[q] \in Nat /\ paths[q] < Count(paths)
      BY <3>1, <2>2, <1>7
    <3>3. Count(paths) \in Nat
      BY <1>2
    <3>. QED
      BY <3>1, <3>2, <3>3, <1>3
  <2>. QED
    BY <2>1, <2>2, <1>3
<1>9. \A q \in Defined(paths') : q # Root => paths'[q] # Empty
  <2>1. \A q \in Defined(paths) : q # Root => paths[q] # Empty
    BY DEF Inv, RootHasEmpty
  <2>2. NextSelector # Empty
    BY <1>2
  <2>. QED
    BY <2>1, <2>2, <1>3, <1>4, <1>6
<1>10. \A q \in Defined(paths) : paths[q] # NextSelector
  <2>. SUFFICES ASSUME NEW q \in Defined(paths), paths[q] = NextSelector
                PROVE  FALSE
    OBVIOUS
  <2>1. paths[q] # Empty /\ paths[q] < Count(paths) /\ Count(paths) \in Nat
    BY <1>2, <1>7
  <2>. QED
    BY <2>1, <1>2
<1>11. \A q, r \in Defined(paths') : paths'[q] = paths'[r] => q = r
  <2>1. \A q, r \in Defined(paths) : paths[q] = paths[r] => q = r
    BY DEF Inv
  <2>. QED
    BY <2>1, <1>3, <1>4, <1>6, <1>10
<1>12. paths'[Root] = Empty
  BY <1>1, <1>4
<1>. QED
  BY <1>3, <1>4, <1>6, <1>8, <1>9, <1>11, <1>12

-------------------------------------------------------------------------------
\* Nothing is defined at first.
LEMMA InvInit == Init => Inv
<1>. SUFFICES ASSUME Init PROVE Inv
  OBVIOUS
<1>1. Defined(paths) = {}
  BY DEF Init, Defined
<1>2. TypeOK
  BY DEF Init, TypeOK, NoNode, NodeKinds, Phases
<1>3. NumbersBelowCount /\ RootHasEmpty /\ AddingDefined
  BY <1>1 DEF Init, NumbersBelowCount, RootHasEmpty, AddingDefined
<1>. QED
  BY <1>1, <1>2, <1>3 DEF Init, Inv

\* The steps that leave both tables as they are keep the invariant.
LEMMA TablesKept ==
  ASSUME Inv, TypeOK', UNCHANGED <<paths, nodes>>,
         phase' = "feed" => phase = "feed",
         phase = "feed" => phase' \in {"feed", "terminated"},
         phase = "terminated" => phase' = "terminated",
         phase' = "mknode" => phase = "mknode" /\ adding' = adding
  PROVE  Inv'
<1>1. NumbersBelowCount'
  BY DEF Inv, NumbersBelowCount, Count, Defined
<1>2. RootHasEmpty'
  BY DEF Inv, RootHasEmpty, Defined, Phases, TypeOK
<1>3. AddingDefined'
  BY DEF Inv, AddingDefined, Defined
<1>. QED
  BY <1>1, <1>2, <1>3 DEF Inv, Defined

\* Every step preserves the invariant.
LEMMA InvStep == Inv /\ [Next]_vars => Inv'
<1>. SUFFICES ASSUME Inv, [Next]_vars PROVE Inv'
  OBVIOUS
<1>. TypeOK
  BY DEF Inv
<1>1. CASE Feed
  <2>1. CASE phase' = "terminated" /\ UNCHANGED <<disk, todo, adding, paths, nodes>>
    <3>1. TypeOK'
      BY <2>1 DEF TypeOK, Phases
    <3>. QED
      BY <2>1, <3>1, TablesKept
  <2>2. CASE /\ disk[Root].kind = "file" /\ todo' = disk[Root].lines
             /\ Define(Root, Empty)
             /\ Insert(Empty, [kind |-> "gophermap", path |-> Root])
             /\ UNCHANGED <<disk, adding>>
    <3>1. Defined(paths) = {} /\ \A s \in Selectors : nodes[s] = NoNode
      BY <1>1 DEF Feed, Inv, RootHasEmpty
    <3>2. Empty \in Selectors /\ Fresh(Root)
      BY <3>1 DEF Selectors, Fresh, Defined
    <3>3. /\ phase' = "scan"
          /\ nodes' = [nodes EXCEPT ![Empty] = [kind |-> "gophermap", path |-> Root]]
      BY <2>2, <3>1, <3>2 DEF Insert
    <3>4. /\ paths' \in [Paths -> Selectors \cup {None}]
          /\ paths'[Root] = Empty
          /\ Defined(paths') = {Root}
      BY <2>2, <3>1, <3>2 DEF Define, TypeOK, Defined
    <3>5. disk[Root].lines \in Seq(Lines)
      BY DEF TypeOK, File
    <3>6. TypeOK'
      BY <2>2, <3>2, <3>3, <3>4, <3>5 DEF TypeOK, Phases, NodeKinds
    <3>7. \A s \in Selectors : nodes'[s] # NoNode => nodes'[s].path = Root /\ s = Empty
      BY <3>1, <3>2, <3>3 DEF TypeOK
    <3>8. NumbersBelowCount' /\ RootHasEmpty' /\ AddingDefined'
      BY <3>3, <3>4 DEF NumbersBelowCount, RootHasEmpty, AddingDefined
    <3>. QED
      BY <3>4, <3>6, <3>7, <3>8 DEF Inv
  <2>. QED
    BY <1>1, <2>1, <2>2 DEF Feed
<1>2. CASE ScanFile
  <2>. DEFINE p == LinkOf(Head(todo))
  <2>1. /\ p \in Paths /\ Tail(todo) \in Seq(Lines)
        /\ phase = "scan" /\ todo' = Tail(todo) /\ UNCHANGED <<disk, adding>>
    BY <1>2, HeadIsLine DEF ScanFile, Scanning
  <2>2. CASE UNCHANGED <<phase, paths, nodes>>
    <3>1. TypeOK'
      BY <2>1, <2>2 DEF TypeOK
    <3>. QED
      BY <2>1, <2>2, <3>1, TablesKept
  <2>3. CASE Fresh(p) /\ Define(p, NextSelector)
             /\ Insert(NextSelector, [kind |-> "gophermap", path |-> p])
    <3>1. NextSelector \in Selectors
      BY <2>1, <2>3, NextSelectorType DEF Inv, RootHasEmpty
    <3>2. /\ paths' \in [Paths -> Selectors \cup {None}]
          /\ NumbersBelowCount'
          /\ paths'[Root] = Empty
          /\ Defined(paths') = Defined(paths) \cup {p}
          /\ \A q \in Defined(paths) : paths'[q] = paths[q]
          /\ \A q \in Defined(paths') : q # Root => paths'[q] # Empty
          /\ \A q, r \in Defined(paths') : paths'[q] = paths'[r] => q = r
      BY <2>1, <2>3, DefineKeeps
    <3>3. /\ nodes' \in [Selectors -> [kind : NodeKinds, path : Paths \cup {None}]]
          /\ phase' \in {"scan", "terminated"}
          /\ \A t \in Selectors :
               \/ nodes'[t] = nodes[t]
               \/ t = NextSelector /\ nodes[t] = NoNode /\ nodes'[t].path = p
      BY <2>1, <2>3, <3>1, InsertEffect
    <3>4. paths'[p] = NextSelector
      BY <2>1, <2>3 DEF Define, TypeOK
    <3>5. TypeOK'
      BY <2>1, <3>2, <3>3 DEF TypeOK, Phases
    <3>6. RootHasEmpty' /\ AddingDefined'
      BY <3>2, <3>3 DEF RootHasEmpty, AddingDefined
    <3>7. \A s \in Selectors :
            nodes'[s] # NoNode => /\ nodes'[s].path \in Defined(paths')
                                  /\ paths'[nodes'[s].path] = s
      BY <3>2, <3>3, <3>4 DEF Inv
    <3>. QED
      BY <3>2, <3>5, <3>6, <3>7 DEF Inv
  <2>. QED
    BY <1>2, <2>2, <2>3 DEF ScanFile
<1>3. CASE ScanDir
  <2>. DEFINE p == LinkOf(Head(todo))
  <2>1. /\ p \in Paths /\ Tail(todo) \in Seq(Lines)
        /\ phase = "scan" /\ todo' = Tail(todo) /\ UNCHANGED <<disk, nodes>>
    BY <1>3, HeadIsLine DEF ScanDir, Scanning
  <2>2. CASE UNCHANGED <<phase, paths, adding>>
    <3>1. TypeOK'
      BY <2>1, <2>2 DEF TypeOK
    <3>. QED
      BY <2>1, <2>2, <3>1, TablesKept
  <2>3. CASE Fresh(p) /\ Define(p, NextSelector) /\ adding' = p /\ phase' = "mknode"
    <3>2. /\ paths' \in [Paths -> Selectors \cup {None}]
          /\ NumbersBelowCount'
          /\ paths'[Root] = Empty
          /\ Defined(paths') = Defined(paths) \cup {p}
          /\ \A q \in Defined(paths) : paths'[q] = paths[q]
          /\ \A q \in Defined(paths') : q # Root => paths'[q] # Empty
          /\ \A q, r \in Defined(paths') : paths'[q] = paths'[r] => q = r
      BY <2>1, <2>3, DefineKeeps
    <3>3. TypeOK'
      BY <2>1, <2>3, <3>2 DEF TypeOK, Phases
    <3>4. RootHasEmpty' /\ AddingDefined'
      BY <2>3, <3>2 DEF RootHasEmpty, AddingDefined
    <3>5. \A s \in Selectors :
            nodes'[s] # NoNode => /\ nodes'[s].path \in Defined(paths')
                                  /\ paths'[nodes'[s].path] = s
      BY <2>1, <3>2 DEF Inv
    <3>. QED
      BY <3>2, <3>3, <3>4, <3>5 DEF Inv
  <2>. QED
    BY <1>3, <2>2, <2>3 DEF ScanDir
<1>4. CASE MakeNode
  <2>1. /\ adding \in Defined(paths) /\ paths[adding] \in Selectors /\ adding \in Paths
        /\ phase = "mknode" /\ adding' = None /\ UNCHANGED <<disk, todo, paths>>
        /\ Insert(paths[adding], [kind |-> "fsys", path |-> adding])
    BY <1>4 DEF MakeNode, NodeOf, Inv, AddingDefined, Defined, TypeOK
  <2>2. /\ nodes' \in [Selectors -> [kind : NodeKinds, path : Paths \cup {None}]]
        /\ phase' \in {"scan", "terminated"}
        /\ \A t \in Selectors :
             \/ nodes'[t] = nodes[t]
             \/ t = paths[adding] /\ nodes[t] = NoNode /\ nodes'[t].path = adding
    BY <2>1, InsertEffect
  <2>3. TypeOK'
    BY <2>1, <2>2 DEF TypeOK, Phases
  <2>4. NumbersBelowCount'
    BY <2>1 DEF Inv, NumbersBelowCount, Count, Defined
  <2>5. RootHasEmpty' /\ AddingDefined'
    BY <2>1, <2>2 DEF Inv, RootHasEmpty, AddingDefined, Defined
  <2>6. \A s \in Selectors :
          nodes'[s] # NoNode => /\ nodes'[s].path \in Defined(paths)
                                /\ paths[nodes'[s].path] = s
    BY <2>1, <2>2 DEF Inv
  <2>. QED
    BY <2>1, <2>3, <2>4, <2>5, <2>6 DEF Inv, Defined
<1>5. CASE MakeNodeMissing \/ MakeNodeFails
  <2>1. /\ phase = "mknode" /\ phase' \in {"scan", "terminated"} /\ adding' = None
        /\ UNCHANGED <<disk, todo, paths, nodes>>
    BY <1>5 DEF MakeNodeMissing, MakeNodeFails
  <2>2. TypeOK'
    BY <2>1 DEF TypeOK, Phases
  <2>. QED
    BY <2>1, <2>2, TablesKept
<1>6. CASE ScanOther \/ ScanMissing \/ ScanBadPort \/ ScanUnsupported \/ Loaded
  <2>1. /\ phase = "scan" /\ phase' \in {"scan", "serving", "terminated"}
        /\ todo' \in Seq(Lines)
        /\ UNCHANGED <<disk, adding, paths, nodes>>
    BY <1>6, HeadIsLine DEF ScanOther, ScanMissing, ScanBadPort, ScanUnsupported,
                            Loaded, Scanning, TypeOK
  <2>2. TypeOK'
    BY <2>1 DEF TypeOK, Phases
  <2>. QED
    BY <2>1, <2>2, TablesKept
<1>7. CASE AskUrl \/ \E selector \in Selectors : Ask(selector)
  <2>1. /\ phase = "serving" /\ phase' \in {"serving", "aborted"}
        /\ UNCHANGED <<disk, todo, adding, paths, nodes>>
    BY <1>7 DEF AskUrl, Ask, AskUnknown, AskMenu, AskUnreadable, AskUnmapped, AskDir,
                AskGopherMap, Answers
  <2>2. TypeOK'
    BY <2>1 DEF TypeOK, Phases
  <2>. QED
    BY <2>1, <2>2, TablesKept
<1>8. CASE \E p \in Paths : Edit(p)
  <2>1. PICK p \in Paths : Edit(p)
    BY <1>8
  <2>2. disk' \in [Paths -> File]
    BY <2>1 DEF Edit, TypeOK
  <2>3. TypeOK' /\ UNCHANGED <<phase, adding, paths, nodes>>
    BY <2>1, <2>2 DEF Edit, TypeOK
  <2>. QED
    BY <2>3, TablesKept
<1>9. CASE UNCHANGED vars
  <2>1. TypeOK' /\ UNCHANGED <<phase, adding, paths, nodes>>
    BY <1>9 DEF vars, TypeOK
  <2>. QED
    BY <2>1, TablesKept
<1>. QED
  BY <1>1, <1>2, <1>3, <1>4, <1>5, <1>6, <1>7, <1>8, <1>9 DEF Next, Load

\* The invariant gives the properties of GopherMap.
LEMMA InvImplies == Inv => TypeOK /\ SelectorsUnique
BY DEF Inv, SelectorsUnique

\* Both tables keep their types whatever the site is: in particular define()
\* never needs more numbers than there are paths.
THEOREM MapTypeCorrect == Spec => []TypeOK
BY InvInit, InvStep, InvImplies, PTL DEF Spec

\* On any site, edited at any time, no two paths share a virtual path, and
\* the node a selector finds serves the path whose virtual path it is.
THEOREM MapSelectorsUnique == Spec => []SelectorsUnique
BY InvInit, InvStep, InvImplies, PTL DEF Spec

\* A step never changes what a selector stands for.
LEMMA StableStep ==
  ASSUME Inv, [Next]_vars
  PROVE  /\ \A p \in Defined(paths) : paths'[p] = paths[p]
         /\ \A s \in Selectors : nodes[s] # NoNode => nodes'[s] = nodes[s]
<1>. TypeOK
  BY DEF Inv
<1>1. CASE UNCHANGED <<paths, nodes>>
  BY <1>1
<1>2. CASE Feed
  BY <1>2 DEF Feed, Inv, RootHasEmpty
<1>3. CASE ScanFile \/ ScanDir
  <2>. DEFINE p == LinkOf(Head(todo))
  <2>1. p \in Paths
    BY <1>3, HeadIsLine DEF ScanFile, ScanDir, Scanning
  <2>2. \A q \in Defined(paths) : paths'[q] = paths[q]
    BY <1>3, <2>1 DEF ScanFile, ScanDir, Define, Fresh, Defined, TypeOK
  <2>3. \A s \in Selectors : nodes[s] # NoNode => nodes'[s] = nodes[s]
    BY <1>3 DEF ScanFile, ScanDir, Insert, TypeOK
  <2>. QED
    BY <2>2, <2>3
<1>4. CASE MakeNode
  BY <1>4 DEF MakeNode, Insert, TypeOK
<1>. QED
  BY <1>1, <1>2, <1>3, <1>4
  DEF Next, Load, vars, ScanOther, ScanMissing, ScanBadPort, ScanUnsupported,
      Loaded, MakeNodeMissing, MakeNodeFails, AskUrl, Ask, AskUnknown, AskMenu,
      AskUnreadable, AskUnmapped, AskDir, Answers, Edit

\* A selector a menu has shown stands for the same path as long as the server
\* runs, whatever is linked twice or edited.
THEOREM MapSelectorsStable == Spec => SelectorsStable
<1>1. Inv /\ [Next]_vars =>
        [/\ \A p \in Defined(paths) : paths'[p] = paths[p]
         /\ \A s \in Selectors : nodes[s] # NoNode => nodes'[s] = nodes[s]]_vars
  BY StableStep
<1>. QED
  BY <1>1, InvInit, InvStep, PTL DEF Spec, SelectorsStable
===============================================================================
