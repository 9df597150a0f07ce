-------------------------------- MODULE Startup --------------------------------
(***************************************************************************)
(* Starting the server, again and again: main, tryload and the constructor *)
(* of Server (src/src/main.cc), and Settings (src/src/settings.cc) with    *)
(* the file settings.conf it is loaded from and saved to.                  *)
(*                                                                         *)
(* One process at a time.  It may crash between any two steps, the         *)
(* operator may edit settings.conf at any time, and SIGINT may come at any *)
(* time.  Loading the map is one step here (GopherMap), and so is all of   *)
(* serving (GopherServer).                                                 *)
(***************************************************************************)
EXTENDS Integers, FiniteSets

CONSTANTS
  Addresses4, \* the IPv4 addresses
  Addresses6, \* the IPv6 addresses
  Pton,       \* for each text of an address what inet_pton makes of it, or None
  Ntop,       \* for each address the text inet_ntop makes of it
  Base,       \* the values of a byte: a port has two bytes
  Ints,       \* the integers a settings file may have for a port
  Roots,      \* the values of root_gophermap
  AnyAddress, DefaultPort, DefaultRoot,   \* "::", 70, "path/to/gophermap"
  MaxEdits,   \* bound: how often the operator edits the file
  MaxStarts,  \* bound: how often the server is started
  Absent,     \* there is no settings.conf
  Broken,     \* libconfig cannot read it, or it lacks a setting
  Unset,      \* a bool that was never written
  None

Addresses == Addresses4 \cup Addresses6
PortValues == Base * Base

ASSUME BaseAssumption == Base \in Nat \ {0} /\ Ints \subseteq Nat
ASSUME AddressAssumption ==
  /\ Addresses4 \cap Addresses6 = {} /\ None \notin Addresses
  /\ \A text \in DOMAIN Pton : Pton[text] \in Addresses \cup {None}
  /\ \A a \in Addresses : Ntop[a] \in DOMAIN Pton /\ Pton[Ntop[a]] = a
ASSUME DefaultAssumption == /\ AnyAddress \in Addresses6
                            /\ DefaultPort \in Ints /\ DefaultPort < PortValues
                            /\ DefaultRoot \in Roots
ASSUME MaxAssumption == MaxEdits \in Nat /\ MaxStarts \in Nat

\* The settings a complete settings.conf has.
File == [address : DOMAIN Pton, port : Ints, reusable : BOOLEAN,
         selfport : Ints, root : Roots]
Conf == {Absent, Broken} \cup File

ASSUME MarksAssumption == Absent \notin File /\ Broken \notin File

VARIABLES
  conf,       \* settings.conf
  phase,      \* "down", "stat", "load", "save", "write", "bind", "map", "serving"
  settings,   \* Settings, None until tryload has them
  bound,      \* where the socket listens, None before
  signalled,  \* a SIGINT that cb_signal has still to see
  outcome,    \* how the last process ended
  edits,      \* counts the edits
  starts,     \* counts the starts
  author,     \* history: who wrote settings.conf
  since,      \* history: the operator edited it after this process's stat
  read,       \* history: the file this process loaded or saved
  kept        \* history: the settings of the first process that came to have
              \* some since the last edit, or None

program == <<phase, settings, bound, signalled, outcome, starts>>
history == <<author, since, read, kept>>
vars == <<conf, edits, program, history>>

Init == /\ conf \in Conf
        /\ phase = "down"
        /\ settings = None
        /\ bound = None
        /\ signalled = FALSE
        /\ outcome = "none"
        /\ edits = 0
        /\ starts = 0
        /\ author = "operator"
        /\ since = FALSE
        /\ read = Absent
        /\ kept = None

-------------------------------------------------------------------------------
(* Settings                                                                *)

\* The two bytes of a port the other way round: htons and ntohs, on a machine
\* that puts the low byte first.
Swapped(port) == (port % Base) * Base + port \div Base

\* Mutants of Htons and Ntohs: the call is forgotten.
HtonsNot(port) == port
NtohsNot(port) == port

\* The conversions of parse4 and parse6, and of save_to.
Htons(port) == Swapped(port)
Ntohs(port) == Swapped(port)

\* Mutant of Narrow: the value keeps its width.
NarrowNot(n) == n

\* An unsigned becomes a uint16_t.
Narrow(n) == n % PortValues

\* mkaddr: parse4 is tried before parse6; ConfigError when both refuse.
Family(text) == IF Pton[text] \in Addresses4 THEN 4
                ELSE IF Pton[text] \in Addresses6 THEN 6 ELSE 0
MkAddr(text, n) == [family |-> Family(text), addr |-> Pton[text],
                    port |-> Htons(Narrow(n))]

\* The constructors without arguments: nothing initializes sock_reusable.
Defaults == [bind |-> MkAddr(Ntop[AnyAddress], DefaultPort), reusable |-> Unset,
             selfport |-> DefaultPort, root |-> DefaultRoot]

\* The values a bool that was never written may be read as, each time.
ReadAs(bool) == IF bool = Unset THEN BOOLEAN ELSE {bool}

\* The three load_from.
Loadable(file) == file \in File /\ Family(file.address) # 0
LoadFrom(file) == [bind |-> MkAddr(file.address, file.port), reusable |-> file.reusable,
                   selfport |-> Narrow(file.selfport), root |-> file.root]

\* The three save_to.
SaveTo(sets, reusable) == [address |-> Ntop[sets.bind.addr], port |-> Ntohs(sets.bind.port),
                           reusable |-> reusable, selfport |-> sets.selfport,
                           root |-> sets.root]

-------------------------------------------------------------------------------
(* The process                                                             *)

\* Mutant of Ended: an exception is caught, and main tries again.
EndedNot(why) == /\ phase' = IF why = "exception" THEN "stat" ELSE "down"
                 /\ outcome' = why

Ended(why) == /\ phase' = "down"
              /\ outcome' = why

\* The end of the process, for whatever reason.
Ends(why) == /\ Ended(why)
             /\ settings' = None
             /\ bound' = None
             /\ signalled' = FALSE
             /\ UNCHANGED <<edits, starts, history>>

Start == /\ phase = "down"
         /\ starts < MaxStarts
         /\ starts' = starts + 1
         /\ phase' = "stat"
         /\ outcome' = "none"
         /\ since' = FALSE
         /\ read' = Absent
         /\ UNCHANGED <<conf, edits, settings, bound, signalled, author, kept>>

\* Mutant of Exists: tryload does not look.
ExistsNot == FALSE

\* tryload's stat.
Exists == conf # Absent

Stat == /\ phase = "stat"
        /\ IF Exists
           THEN phase' = "load" /\ UNCHANGED settings
           ELSE phase' = "save" /\ settings' = Defaults
        /\ UNCHANGED <<conf, edits, bound, signalled, outcome, starts, history>>

\* The first settings since the last edit are kept.
Keep(sets) == IF kept = None THEN sets ELSE kept

\* The constructor of Settings from a file.
Load == /\ phase = "load"
        /\ Loadable(conf)
        /\ phase' = "bind"
        /\ settings' = LoadFrom(conf)
        /\ read' = conf
        /\ kept' = Keep(LoadFrom(conf))
        /\ UNCHANGED <<conf, edits, bound, signalled, outcome, starts, author, since>>

\* The exceptions of libconfig, and ConfigError: main catches none of them.
LoadThrows == /\ phase = "load"
              /\ ~ Loadable(conf)
              /\ Ends("exception")
              /\ UNCHANGED conf

\* Settings::save: libconfig's writeFile opens the file, which empties it...
SaveOpens == /\ phase = "save"
             /\ phase' = "write"
             /\ conf' = Broken
             /\ author' = "program"
             /\ UNCHANGED <<edits, settings, bound, signalled, outcome, starts,
                            since, read, kept>>

\* ...and writes it; what was put in its place meanwhile stays.
SaveWrites ==
  /\ phase = "write"
  /\ phase' = "bind"
  /\ \E b \in ReadAs(settings.reusable) :
       /\ read' = SaveTo(settings, b)
       /\ \/ /\ conf # Absent
             /\ conf' = SaveTo(settings, b)
             /\ author' = "program"
             /\ kept' = Keep(settings)
          \/ /\ author = "operator"
             /\ UNCHANGED <<conf, author, kept>>
  /\ UNCHANGED <<edits, settings, bound, signalled, outcome, starts, since>>

\* Either of them fails.
SaveThrows == /\ phase \in {"save", "write"}
              /\ Ends("exception")
              /\ UNCHANGED conf

\* The constructor of Server: the socket listens, SIGINT gets its handler.
Bind == /\ phase = "bind"
        /\ phase' = "map"
        /\ \E b \in ReadAs(settings.reusable) :
             bound' = [addr |-> settings.bind.addr, port |-> Swapped(settings.bind.port),
                       reusable |-> b]
        /\ UNCHANGED <<conf, edits, settings, signalled, outcome, starts, history>>

\* The address is in use, or not for this user: throw 1, which main catches.
BindFails == /\ phase = "bind"
             /\ Ends("exit 1")
             /\ UNCHANGED conf

\* Mutant of StillPending: the loop forgets what came before it starts.
PendingLost == FALSE

\* Whether the loop has still to handle a signal.
StillPending == signalled

\* The constructor of Loader returns, and the loop starts.
LoadMap == /\ phase = "map"
           /\ phase' = "serving"
           /\ signalled' = StillPending
           /\ UNCHANGED <<conf, edits, settings, bound, outcome, starts, history>>

LoadMapThrows == /\ phase = "map"
                 /\ Ends("exception")
                 /\ UNCHANGED conf

\* The loop ends, by cb_signal or after cb_accept_err: throw 0.
LoopBreaks == /\ phase = "serving"
              /\ signalled
              /\ Ends("exit 0")
              /\ UNCHANGED conf

AcceptFails == /\ phase = "serving"
               /\ Ends("exit 0")
               /\ UNCHANGED conf

Step == \/ Stat \/ Load \/ LoadThrows \/ SaveOpens \/ SaveWrites \/ SaveThrows
        \/ Bind \/ BindFails \/ LoadMap \/ LoadMapThrows \/ LoopBreaks

\* SIGINT kills the process until its handler is there, and waits for the loop
\* afterwards.
Sigint == \/ /\ phase \in {"stat", "load", "save", "write", "bind"}
             /\ Ends("killed")
             /\ UNCHANGED conf
          \/ /\ phase \in {"map", "serving"}
             /\ signalled' = TRUE
             /\ UNCHANGED <<conf, edits, phase, settings, bound, outcome, starts, history>>

\* The process, or the machine, crashes.
Crash == /\ phase # "down"
         /\ Ends("killed")
         /\ UNCHANGED conf

\* The operator writes or removes settings.conf.
Edit == /\ edits < MaxEdits
        /\ edits' = edits + 1
        /\ conf' \in Conf
        /\ author' = "operator"
        /\ since' = (phase \notin {"down", "stat"})
        /\ kept' = None
        /\ UNCHANGED <<program, read>>

Next == Start \/ Step \/ AcceptFails \/ Sigint \/ Crash \/ Edit

Spec == Init /\ [][Next]_vars

\* A process runs on by itself, and libevent tells cb_signal of a signal.
FairSpec == Spec /\ WF_vars(Step)

-------------------------------------------------------------------------------
BindAddress == [family : {4, 6}, addr : Addresses, port : 0..(PortValues - 1)]
SettingsType == [bind : BindAddress, reusable : BOOLEAN \cup {Unset},
                 selfport : 0..(PortValues - 1), root : Roots]

TypeOK ==
  /\ conf \in Conf
  /\ phase \in {"down", "stat", "load", "save", "write", "bind", "map", "serving"}
  /\ settings \in {None} \cup SettingsType
  /\ bound \in {None} \cup [addr : Addresses, port : 0..(PortValues - 1),
                            reusable : BOOLEAN]
  /\ signalled \in BOOLEAN
  /\ outcome \in {"none", "exit 0", "exit 1", "exception", "killed"}
  /\ edits \in 0..MaxEdits
  /\ starts \in 0..MaxStarts
  /\ read \in {Absent} \cup File
  /\ kept \in {None} \cup SettingsType

\* The socket listens where settings.conf says, as it was when the process
\* read or made it: the text of the address, parse4, parse6 and the byte order
\* of the port lead there, and no process gets so far with half a file.
ListensAsWritten ==
  bound # None =>
    /\ read \in File
    /\ bound.addr = Pton[read.address]
    /\ read.port < PortValues => bound.port = read.port

\* A server that is started again, after it stopped or crashed in any way,
\* comes up with the settings it had, defaults included, if nobody edits the
\* file: save_to and load_from are inverses of each other.  Only
\* sock_reusable may differ after the first start, which never sets it.
RestartsAlike ==
  settings # None /\ kept # None =>
    [settings EXCEPT !.reusable = TRUE] = [kept EXCEPT !.reusable = TRUE]

\* A step in which the program writes no file of the operator's.
SparesOperatorsFile == author' = "program" /\ conf' # conf =>
                         conf = Absent \/ author = "program" \/ since

\* The program never overwrites a settings file the operator wrote, however
\* broken, unless it was written after the program looked for one.
KeepsOperatorsFile == [][SparesOperatorsFile]_vars

\* A process either serves or ends: a broken file, also one that a crash
\* left half written, does not make it wait or try for ever.
StartDecides == phase = "stat" ~> phase \in {"serving", "down"}

\* SIGINT ends the server, also when it comes while the map is loaded, before
\* the loop that handles it runs.
SignalEnds == signalled ~> phase = "down"
===============================================================================
