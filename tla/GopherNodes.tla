------------------------------ MODULE GopherNodes ------------------------------
(***************************************************************************)
(* How the nodes answer a request: NodeFSys (src/src/gopher/node-fsys.cc), *)
(* which serves a directory, and NodeRedirect                              *)
(* (src/src/gopher/node-redirect.cc), which makes a page for a URL, under  *)
(* LookupMap::lookup and Session::got_line.                                *)
(*                                                                         *)
(* The process is single threaded and answers one request at a time, but   *)
(* other processes edit the files meanwhile: an action is what the code    *)
(* does between two looks at the disk (stat, opendir, readdir, open), and  *)
(* the system may fail each of them.                                       *)
(* How the reply is sent is in GopherServer; the root menu is in GopherMap. *)
(***************************************************************************)
EXTENDS GopherRequest
Seqs == INSTANCE SequencesExt

CONSTANTS
  Places,     \* the places of the disk, as sequences of names
  Target,     \* what the symbolic link at a place holds, if there is one: names,
              \* of which Slash is the root of the disk
  RootOf,     \* for the selector of each NodeFSys, the path it serves
  Dotted,     \* the names that start with a dot
  Requests,   \* the lines clients send
  Keyword,    \* the text "${URL}" in a URL
  Keywords,   \* how many of them are in the text of the page: five
  Disks,      \* what the disk may hold at first
  Edits,      \* what each place may hold after an edit
  SystemFails,\* whether a call may fail for want of descriptors, memory, ...
  Lookups,    \* bound: names the system looks up for one path
  MaxLeft     \* bound: keywords in the text of the page

Kinds == {"absent", "file", "secret", "dir", "locked", "special", "link"}

\* What is there is in a directory.
IsTree(d) == \A p \in Places : d[p] # "absent" =>
               IF p = <<>> THEN d[p] = "dir"
               ELSE Seqs!Front(p) \in Places /\ d[Seqs!Front(p)] \in {"dir", "locked"}

\* No place: the directory that is open, when it is gone or none is.
Nowhere == <<Slash>>

ASSUME RequestsAssumption == \A raw \in Requests : IsLine(raw)
ASSUME DottedAssumption == {Dot, DotDot} \subseteq Dotted
ASSUME PlacesAssumption ==
  \A p \in Places : /\ p \in Seq({p[i] : i \in DOMAIN p})
                    /\ \A i \in DOMAIN p : p[i] \notin {Slash, Dot, DotDot}
ASSUME TargetAssumption ==
  \A p \in Places : Target[p] \in Seq({Target[p][i] : i \in DOMAIN Target[p]})
ASSUME DisksAssumption == /\ Disks \subseteq {d \in [Places -> Kinds] : IsTree(d)}
                          /\ \A p \in Places : Edits[p] \subseteq Kinds
ASSUME RootsAssumption ==
  \A n \in DOMAIN RootOf : /\ RootOf[n] \in Places
                           /\ n \in Seq({n[i] : i \in DOMAIN n}) /\ n # <<>>
                           /\ Occurrences(n, Slash) = {}
ASSUME BoundsAssumption == /\ MaxLeft \in Nat /\ Keywords \in 1..MaxLeft
                           /\ Lookups \in Nat /\ SystemFails \in BOOLEAN

VARIABLES
  disk,       \* the kind of each place; "secret" and "locked" are the files and
              \* the directories the server may not read
  phase,      \* "idle", "lookup", "opening", "listing", "sending", "stuck", "page"
  request,    \* the line that is being answered
  data,       \* list_dir's and send_file's data: fsys_path, as its names, and
              \* selector_path
  dir,        \* the place of the directory that is open
  entries,    \* the entries readdir has still to return
  items,      \* the items of the menu so far
  left,       \* the keywords in the text of the page
  reply,      \* what the last request was answered
  failed,     \* history: the system failed a call for it
  moved,      \* history: what its path leads to changed since stat looked
  changed     \* history: the entries that changed since opendir

\* What is gone when the request is answered.
local == <<request, data, dir, entries, items, moved, changed>>

vars == <<disk, phase, left, reply, failed, local>>

Replies == {"none", "menu", "file", "lookup failure", "node failure", "page",
            "closed"}

NoData == [path |-> <<>>, selector |-> <<>>]

\* What local is between two requests.
Resting == <<<<>>, NoData, Nowhere, {}, {}, FALSE, {}>>

Init == /\ disk \in Disks
        /\ phase = "idle"
        /\ left = 0
        /\ reply = "none"
        /\ failed = FALSE
        /\ request = <<>>
        /\ data = NoData
        /\ dir = Nowhere
        /\ entries = {}
        /\ items = {}
        /\ moved = FALSE
        /\ changed = {}

-------------------------------------------------------------------------------
(* The system.                                                             *)

KindAt(p) == IF p \in Places THEN disk[p] ELSE "absent"
IsDir(p) == KindAt(p) \in {"dir", "locked"}

\* Where a name leads from a directory, and why it does not.
Into(at, name) == CASE name = Slash -> <<>>
                    [] name = Dot -> at
                    [] name = DotDot -> IF at = <<>> THEN <<>> ELSE Seqs!Front(at)
                    [] OTHER -> Append(at, name)
Refusal(at, name) == IF KindAt(at) = "locked" THEN "EACCES"
                     ELSE IF KindAt(at) # "dir" THEN "ENOTDIR"
                     ELSE IF KindAt(Into(at, name)) = "absent" THEN "ENOENT" ELSE "none"

\* The system looks up the next name of a path.  A link is followed, also at
\* the end: stat, opendir and open all do.
Step(s) ==
  LET name == Head(s.rest)
      next == Into(s.at, name)
      errno == Refusal(s.at, name)
  IN IF s.rest = <<>> \/ s.errno # "none" THEN s
     ELSE IF errno # "none" THEN [s EXCEPT !.errno = errno]
     ELSE IF KindAt(next) = "link"
     THEN [at |-> s.at, rest |-> Target[next] \o Tail(s.rest), errno |-> "none"]
     ELSE [at |-> next, rest |-> Tail(s.rest), errno |-> "none"]

\* Where it is after each step; s is bound to a value, for TLC to compute it once.
Walk(path) ==
  LET at[n \in 0..Lookups] == IF n = 0 THEN [at |-> <<>>, rest |-> path, errno |-> "none"]
                              ELSE CHOOSE t \in {Step(s) : s \in {at[n - 1]}} : TRUE
  IN at

\* The place a path leads to, the errno of a look at it, and all there is to see.
Look(path) == Walk(path)[Lookups]
Where(path) == Look(path).at
Errno(path) == IF Look(path).errno = "none" /\ Look(path).rest # <<>> THEN "ELOOP"
               ELSE Look(path).errno
View(path) == <<Look(path), KindAt(Where(path))>>

Names == UNION {{p[i] : i \in DOMAIN p} : p \in Places}
Children(p) == {x \in Names : KindAt(Append(p, x)) # "absent"}

\* What an entry of the open directory is, to readdir and to stat.
EntryView(x) == <<KindAt(Append(dir, x)), View(Append(data.path, x))>>

\* Somebody edits the disk; what is below a directory goes with it.  Of the
\* entries that were removed, added or replaced readdir may return any.
Edit(p) ==
  /\ p # <<>> => IsDir(Seqs!Front(p))
  /\ \E kind \in Edits[p] \ {disk[p]} :
       /\ disk' = [q \in Places |-> IF q = p THEN kind
                                    ELSE IF Seqs!IsPrefix(p, q) /\ kind \notin {"dir", "locked"}
                                    THEN "absent" ELSE disk[q]]
       /\ dir' = IF Seqs!IsPrefix(p, dir) /\ kind \notin {"dir", "locked"} THEN Nowhere ELSE dir
  /\ UNCHANGED <<phase, request, data, items, left, reply, failed>>
  /\ moved' = (moved \/ (phase \in {"opening", "listing", "sending"}
                           /\ View(data.path)' # View(data.path)))
  /\ changed' = changed \cup IF phase = "listing"
                            THEN {x \in Names : EntryView(x)' # EntryView(x)} ELSE {}
  /\ LET touched == {x \in Names : KindAt(Append(dir, x))' # KindAt(Append(dir, x))}
     IN \E some \in SUBSET touched : entries' = (entries \ touched) \cup some

-------------------------------------------------------------------------------
(* A request.                                                              *)

Node == SelectorOf(request)
Root == RootOf[Node]

Rested == /\ request' = <<>> /\ data' = NoData
          /\ entries' = {} /\ items' = {} /\ moved' = FALSE /\ changed' = {}

\* Mutant of Replied: the directory is left open.
RepliedOpen(kind) == reply' = kind /\ phase' = "idle" /\ UNCHANGED dir /\ Rested

\* make_writer is left: what it had is gone, and the directory closed.
Replied(kind) == reply' = kind /\ phase' = "idle" /\ dir' = Nowhere /\ Rested

\* What got_line makes of the exceptions of a node: two of them become a
\* menu, and the others close the session.
Thrown(exception) ==
  Replied(CASE exception = "LookupFailure" -> "lookup failure"
            [] exception = "NodeFailure" -> "node failure"
            [] OTHER -> "closed")

\* The system fails the call: stat, opendir, readdir, open or fstat.
CallFails == /\ SystemFails
             /\ failed' = TRUE
             /\ Thrown("IOError")

\* A client asks; a request for the root menu is in GopherMap.
Ask(raw) ==
  /\ phase = "idle"
  /\ IsUrl(raw) \/ SelectorOf(raw) # <<>>
  /\ request' = raw
  /\ phase' = "lookup"
  /\ reply' = "none"
  /\ failed' = FALSE
  /\ UNCHANGED <<disk, left, data, dir, entries, items, moved, changed>>

\* LookupMap::lookup finds the redirector, which searches its text.
LookupUrl ==
  /\ phase = "lookup"
  /\ IsUrl(request)
  /\ phase' = "page"
  /\ left' = Keywords
  /\ UNCHANGED <<disk, reply, failed, local>>

\* It finds no node.
LookupFails ==
  /\ phase = "lookup"
  /\ ~ IsUrl(request)
  /\ Node \notin DOMAIN RootOf
  /\ Thrown("LookupFailure")
  /\ UNCHANGED <<disk, left, failed>>

\* GopherTypeGuesser::type_of, as far as make_writer tells types apart.
TypeAt(p) == CASE IsDir(p) -> "menu"
               [] KindAt(p) \in {"file", "secret"} -> "file"
               [] OTHER -> "error"

\* The errno of type_of for the names of a request; a path that is only the
\* root ends in '/', and must be a directory.
StatErrno(path) ==
  IF Errno(Root \o path) = "none" /\ path = <<>> /\ ~ IsDir(Where(Root)) THEN "ENOTDIR"
  ELSE Errno(Root \o path)

\* The errors of stat that mean there is nothing there.
Missing(errno) == errno \in {"ENOENT", "ENOTDIR"}

\* The names of a path, a separator before each.
Joined(path) == [i \in 1..(2 * Len(path)) |-> IF i % 2 = 1 THEN Slash ELSE path[i \div 2]]

\* Mutant of SelectorPath: no separator at the end.
SelectorPathBare(path) == Node \o Joined(path)

\* The selector_path of a directory: the selector of the node, the path, and
\* a separator at the end.
SelectorPath(path) == Node \o Joined(path) \o <<Slash>>

\* NodeFSys::analyze_request, once stat answered, and the switch of make_writer.
Analyzed(path) ==
  LET errno == StatErrno(path)
      type == TypeAt(Where(Root \o path))
  IN \/ Missing(errno) /\ Thrown("LookupFailure")
     \/ errno # "none" /\ ~ Missing(errno) /\ Thrown("IOError")
     \/ errno = "none" /\ type = "error" /\ Thrown("NodeFailure")
     \/ /\ errno = "none" /\ type # "error"
        /\ data' = [path |-> Root \o path, selector |-> SelectorPath(path)]
        /\ phase' = IF type = "menu" THEN "opening" ELSE "sending"
        /\ UNCHANGED <<reply, request, dir, entries, items, moved, changed>>

Analyze ==
  /\ phase = "lookup"
  /\ ~ IsUrl(request)
  /\ Node \in DOMAIN RootOf
  /\ \/ BadRequest(request) /\ Thrown("BadRequest") /\ UNCHANGED failed
     \/ /\ ~ BadRequest(request)
        /\ \E path \in {AsPath(request)} : Analyzed(path)
        /\ UNCHANGED failed
     \/ ~ BadRequest(request) /\ CallFails
  /\ UNCHANGED <<disk, left>>

-------------------------------------------------------------------------------
(* NodeFSys::list_dir                                                      *)

\* The errno of opendir.
OpenErrno == IF Errno(data.path) # "none" THEN Errno(data.path)
             ELSE IF KindAt(Where(data.path)) = "locked" THEN "EACCES"
             ELSE IF IsDir(Where(data.path)) THEN "none" ELSE "ENOTDIR"

OpenDir ==
  /\ phase = "opening"
  /\ \/ OpenErrno = "ENOENT" /\ Thrown("LookupFailure") /\ UNCHANGED failed
     \/ OpenErrno \notin {"none", "ENOENT"} /\ Thrown("IOError") /\ UNCHANGED failed
     \/ CallFails
     \/ /\ OpenErrno = "none"
        /\ phase' = "listing"
        /\ dir' = Where(data.path)
        /\ entries' = {Dot, DotDot} \cup Children(dir')
        /\ UNCHANGED <<reply, failed, request, data, items, moved, changed>>
  /\ UNCHANGED <<disk, left>>

\* Mutant of Hidden: the directory above is shown.
HiddenDot(name) == name = Dot

\* NodeFSys::hidden
Hidden(name) == name \in Dotted

\* readdir returns an entry that next_entry skips.
SkipEntry(name) ==
  /\ phase = "listing"
  /\ name \in entries
  /\ Hidden(name)
  /\ entries' = entries \ {name}
  /\ UNCHANGED <<disk, phase, left, reply, failed, request, data, dir, items, moved, changed>>

\* The item for an entry, with the path type_of looked at as history.
ErrorItem == [type |-> "...", path |-> <<>>, selector |-> <<>>]
ItemOf(name) == [type |-> TypeAt(Where(Append(data.path, name))),
                 path |-> Append(data.path, name), selector |-> Append(data.selector, name)]
ItemFor(name) == IF Errno(Append(data.path, name)) = "none" THEN ItemOf(name) ELSE ErrorItem

\* Mutant of ListEntry: an entry that is gone ends the listing.
ListEntryThrows(name) ==
  /\ phase = "listing"
  /\ name \in entries
  /\ ~ Hidden(name)
  /\ IF ItemFor(name) = ErrorItem THEN Thrown("IOError")
     ELSE /\ entries' = entries \ {name}
          /\ items' = items \cup {ItemFor(name)}
          /\ UNCHANGED <<phase, reply, request, data, dir, moved, changed>>
  /\ UNCHANGED <<disk, left, failed>>

\* next_entry returns an entry, in any order, and type_of looks at it.
ListEntry(name) ==
  /\ phase = "listing"
  /\ name \in entries
  /\ ~ Hidden(name)
  /\ entries' = entries \ {name}
  /\ \/ items' = items \cup {ItemFor(name)} /\ UNCHANGED failed
     \/ SystemFails /\ items' = items \cup {ErrorItem} /\ failed' = TRUE
  /\ UNCHANGED <<disk, phase, left, reply, request, data, dir, moved, changed>>

\* readdir has no more entries, or fails.
ListEnds ==
  /\ phase = "listing"
  /\ \/ entries = {} /\ Replied("menu") /\ UNCHANGED failed
     \/ CallFails
  /\ UNCHANGED <<disk, left>>

-------------------------------------------------------------------------------
\* NodeFSys::send_file, and what FileWriter looks at.  What became a pipe or a
\* device meanwhile may open, fail or block.
SendFile ==
  LET readable == Errno(data.path) = "none" /\ KindAt(Where(data.path)) \notin {"secret", "locked"}
      special == KindAt(Where(data.path)) = "special"
  IN
  /\ phase = "sending"
  /\ \/ readable /\ Replied("file") /\ UNCHANGED failed
     \/ (~ readable \/ special) /\ Thrown("IOError") /\ UNCHANGED failed
     \/ readable /\ special /\ phase' = "stuck" /\ UNCHANGED <<reply, failed, local>>
     \/ CallFails
  /\ UNCHANGED <<disk, left>>

-------------------------------------------------------------------------------
(* NodeRedirect::make_writer                                               *)

\* How many keywords are in the URL itself.
Carried == Cardinality(Occurrences(request, Keyword))

\* Mutant of Replaced: the keyword stays in the text.
ReplacedNot(n) == n

\* The keywords in a text of n, once the first of them is replaced.
Replaced(n) == (n - 1) + Carried

\* A turn of the loop, which searches from the start of the text.
Substitute ==
  /\ phase = "page"
  /\ left > 0
  /\ left' = IF Replaced(left) > MaxLeft THEN MaxLeft ELSE Replaced(left)
  /\ UNCHANGED <<disk, phase, reply, failed, local>>

PageEnds ==
  /\ phase = "page"
  /\ left = 0
  /\ Replied("page")
  /\ UNCHANGED <<disk, left, failed>>

-------------------------------------------------------------------------------
ListDir == OpenDir \/ (\E name \in entries : SkipEntry(name) \/ ListEntry(name)) \/ ListEnds
Redirect == LookupUrl \/ Substitute \/ PageEnds
Handle == LookupFails \/ Analyze \/ ListDir \/ SendFile \/ Redirect

Next == \/ \E raw \in Requests : Ask(raw)
        \/ Handle
        \/ \E p \in Places : Edit(p)

Spec == Init /\ [][Next]_vars

\* The handler runs on, whoever edits the disk.
FairSpec == Spec /\ WF_vars(Handle)

-------------------------------------------------------------------------------
TypeOK == /\ disk \in [Places -> Kinds]
          /\ phase \in {"idle", "lookup", "opening", "listing", "sending", "stuck", "page"}
          /\ IF phase = "idle" THEN local = Resting ELSE request \in Requests
          /\ entries \subseteq Names \cup {Dot, DotDot}
          /\ \A item \in items : item.type \in {"menu", "file", "error", "..."}
          /\ left \in 0..MaxLeft
          /\ reply \in Replies
          /\ failed \in BOOLEAN /\ moved \in BOOLEAN /\ changed \subseteq Names

\* The selectors of a listing come back: when a client asks for one, lookup
\* and analyze_request arrive at the path the item was made from, whatever
\* the directory is called and however the client spelled its request.
ShownComeBack ==
  phase = "listing" => \A item \in items \ {ErrorItem} :
    /\ SelectorOf(item.selector) = Node
    /\ ~ BadRequest(item.selector)
    /\ Root \o AsPath(item.selector) = item.path

\* What stat, opendir and open are asked for is found in the directory that is
\* served, wherever that is, unless a link in it leads elsewhere: they resolve
\* links (typeguesser.cc:14), and a request names no "..".
LookedAt == {data.path} \cup {Append(data.path, x) : x \in entries \ Dotted}
StaysBelow ==
  /\ phase \in {"opening", "listing", "sending"}
  /\ \A p \in Places : KindAt(p) = "link" => ~ Seqs!IsPrefix(Where(Root), p)
  => \A path \in LookedAt : Seqs!IsPrefix(Where(Root), Where(path))

\* The names the request asks for, and the path they make.
Named == Those(request, NamesAfter(request))
Asked == Root \o Named

Answered(kind) == phase # "idle" /\ phase' = "idle" /\ reply' = kind

\* A menu has an item for every entry nobody touched while it was listed,
\* of the type it has, or an error item where stat finds nothing, and
\* an item for nothing else.
ListingMatches ==
  LET there == Children(dir) \ (Dotted \cup changed)
      shown == {item \in items \ {ErrorItem} : Seqs!Last(item.path) \notin changed}
  IN /\ \A x \in there : ItemFor(x) \in items
     /\ \A item \in shown : \E x \in there : item = ItemFor(x)
     /\ ErrorItem \in items /\ changed = {} => \E x \in there : ItemFor(x) = ErrorItem

RightAnswer ==
  /\ Answered("menu") => ListingMatches /\ (~ moved => dir = Where(Asked) /\ KindAt(dir) = "dir")
  /\ Answered("file") /\ ~ moved => KindAt(Where(Asked)) = "file"
  /\ Answered("node failure") => Errno(Asked) = "none" /\ TypeAt(Where(Asked)) = "error"
  /\ Answered("lookup failure") /\ Node \in DOMAIN RootOf =>
       Missing(Errno(Asked)) \/ (Named = <<>> /\ ~ IsDir(Where(Root)))

\* The answer is what is there, where the system fails no call: whoever edits
\* the disk meanwhile, a listing is wrong about no entry but the edited ones,
\* a failure tells of the disk at one of the two looks, and what is sent
\* for a file is one, or took its place after it was looked at.
AnswerMatches == [][~ failed' /\ ~ IsUrl(request) => RightAnswer]_vars

\* A session is closed without a reply, or gets none.
Silent == Answered("closed") \/ (phase = "sending" /\ phase' = "stuck")

Excused ==
  \/ failed'
  \/ phase = "opening" /\ moved /\ Errno(Asked) # "ENOENT"
  \/ phase = "sending" /\ moved
  \/ phase = "lookup" /\ \E i \in DOMAIN Named : Named[i] \in {Dot, DotDot}
  \/ phase # "listing" /\ (\/ Errno(Asked) \in {"EACCES", "ELOOP"}
                           \/ KindAt(Where(Asked)) \in {"secret", "locked"})

\* A client is left without a reply only for a path with "." or "..", for
\* something the server may not read, for links in a circle, when the system
\* fails a call, or when what the path leads to changed between the look at
\* it and its use; never for an edit that happens while a directory is listed.
\* got_line turns no other exception into a menu (session.cc:71).
SilentOnlyOnRace == [][Silent => Excused]_vars

\* readdir returns an entry that came late, or came again.
Late == ~ (entries' \subseteq entries) /\ phase = "listing" /\ phase' = "listing"

\* Every request is answered or closed, so that the loop gets back to the other
\* sessions, if entries do not come to a directory for ever while it is listed
\* (node-fsys.cc:116); but for a URL that contains the keyword itself, which is
\* put back by each substitution (node-redirect.cc:57), and for a file that
\* became a pipe before it was opened.
EveryRequestEnds ==
  <>[][~ Late]_vars =>
    (phase # "idle" ~> (phase \in {"idle", "stuck"} \/ (phase = "page" /\ Carried > 0)))
===============================================================================
