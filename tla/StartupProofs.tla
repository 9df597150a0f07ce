------------------------------ MODULE StartupProofs ------------------------------
(***************************************************************************)
(* Starting again and again, proved for any addresses, any width of a      *)
(* byte, any ports in the file and any number of starts and edits: the     *)
(* socket listens where settings.conf says, a restart finds the same       *)
(* settings, and the operator's file is not overwritten.                   *)
(***************************************************************************)
EXTENDS Startup, TLAPS

\* Two settings that differ in sock_reusable at most.
Alike(s, t) == s.bind = t.bind /\ s.selfport = t.selfport /\ s.root = t.root

\* How far the process got, and what it has by then.
HasSettings == phase \in {"save", "write", "bind", "map", "serving"}

\* The settings that are being saved are the defaults, and nobody else has
\* found any since the operator removed the file.
SavesDefaults ==
  phase \in {"save", "write"} => settings = Defaults /\ kept = None

\* What save finds in place of the file tryload did not find.
SavesOverNothing ==
  /\ phase = "save" => conf = Absent \/ since
  /\ phase = "write" => author = "program" \/ since

\* The settings and the file they were loaded from, or saved to, agree.
SettingsAsRead ==
  phase \in {"bind", "map", "serving"} =>
    Loadable(read) /\ Alike(LoadFrom(read), settings)

\* The socket listens where the settings say.
BoundAsSet ==
  bound # None => /\ phase \in {"map", "serving"}
                  /\ bound.addr = settings.bind.addr
                  /\ bound.port = Swapped(settings.bind.port)

\* The settings kept are the ones the next process will load.
KeptOnDisk ==
  kept # None => Loadable(conf) /\ Alike(LoadFrom(conf), kept)

SettingsAsKept == HasSettings /\ kept # None => Alike(settings, kept)

Inv == /\ TypeOK
       /\ HasSettings => settings \in SettingsType
       /\ ~ HasSettings => settings = None
       /\ since \in BOOLEAN
       /\ SavesDefaults
       /\ SavesOverNothing
       /\ SettingsAsRead
       /\ BoundAsSet
       /\ KeptOnDisk
       /\ SettingsAsKept

-------------------------------------------------------------------------------
(* The bytes of a port.                                                    *)

USE BaseAssumption

\* A number is made of its quotient and its remainder.
LEMMA DivisionParts ==
  ASSUME NEW p \in Nat
  PROVE  /\ p = (p \div Base) * Base + (p % Base)
         /\ p % Base \in 0..(Base - 1)
         /\ p \div Base \in Nat
<1>1. p % Base \in 0..(Base - 1)
  OBVIOUS
<1>2. p \div Base \in Int
  OBVIOUS
<1>3. p = Base * (p \div Base) + (p % Base)
  OBVIOUS
<1>4. Base * (p \div Base) = (p \div Base) * Base
  BY <1>2
<1>5. p \div Base >= 0
  <2>. SUFFICES ASSUME p \div Base <= -1 PROVE FALSE
    BY <1>2
  <2>1. (p \div Base) * Base <= (-1) * Base
    BY <1>2
  <2>. QED
    BY <2>1, <1>1, <1>2, <1>3, <1>4
<1>. QED
  BY <1>1, <1>2, <1>3, <1>4, <1>5

\* ...and has no other.
LEMMA DivisionUnique ==
  ASSUME NEW q \in Nat, NEW r \in 0..(Base - 1)
  PROVE  (q * Base + r) \div Base = q /\ (q * Base + r) % Base = r
OBVIOUS

\* A port is made of two bytes.
LEMMA TwoBytes ==
  ASSUME NEW p \in 0..(PortValues - 1)
  PROVE  p \div Base \in 0..(Base - 1)
<1>1. /\ p = (p \div Base) * Base + (p % Base)
      /\ p % Base \in 0..(Base - 1)
      /\ p \div Base \in Nat
  BY DivisionParts DEF PortValues
<1>2. ASSUME p \div Base >= Base PROVE FALSE
  <2>1. (p \div Base) * Base >= Base * Base
    BY <1>1, <1>2
  <2>. QED
    BY <2>1, <1>1 DEF PortValues
<1>. QED
  BY <1>1, <1>2

\* Two bytes make a port.
LEMMA BytesMakePort ==
  ASSUME NEW q \in 0..(Base - 1), NEW r \in 0..(Base - 1)
  PROVE  q * Base + r \in 0..(PortValues - 1)
<1>1. q * Base <= (Base - 1) * Base /\ q * Base \in Nat
  OBVIOUS
<1>2. (Base - 1) * Base = Base * Base - Base
  OBVIOUS
<1>. QED
  BY <1>1, <1>2 DEF PortValues

\* htons and ntohs turn a port into a port, and undo each other.
LEMMA SwappedTwice ==
  ASSUME NEW p \in 0..(PortValues - 1)
  PROVE  /\ Swapped(p) \in 0..(PortValues - 1)
         /\ Swapped(Swapped(p)) = p
<1>1. PICK high \in 0..(Base - 1), low \in 0..(Base - 1) :
        /\ high = p \div Base
        /\ low = p % Base
        /\ p = high * Base + low
  <2>1. p \in Nat
    BY DEF PortValues
  <2>2. /\ p \div Base \in 0..(Base - 1)
        /\ p % Base \in 0..(Base - 1)
        /\ p = (p \div Base) * Base + (p % Base)
    BY <2>1, DivisionParts, TwoBytes
  <2>. QED
    BY <2>2, Zenon
<1>2. Swapped(p) = low * Base + high
  BY <1>1 DEF Swapped
<1>3. (low * Base + high) \div Base = low /\ (low * Base + high) % Base = high
  BY DivisionUnique
<1>4. Swapped(Swapped(p)) = high * Base + low
  BY <1>2, <1>3, Zenon DEF Swapped
<1>5. low * Base + high \in 0..(PortValues - 1)
  BY BytesMakePort
<1>. QED
  BY <1>1, <1>2, <1>4, <1>5

\* A number that fits in a uint16_t keeps its value, and any other becomes
\* one that fits.
LEMMA NarrowFits ==
  ASSUME NEW n \in Nat
  PROVE  /\ Narrow(n) \in 0..(PortValues - 1)
         /\ n < PortValues => Narrow(n) = n
<1>1. PortValues \in Nat \ {0}
  BY DEF PortValues
<1>. QED
  BY <1>1 DEF Narrow

HIDE BaseAssumption

-------------------------------------------------------------------------------
(* What load_from and save_to make.                                        *)

\* A file that can be loaded gives settings.
LEMMA LoadFromType ==
  ASSUME NEW file, Loadable(file)
  PROVE  LoadFrom(file) \in SettingsType
<1>1. /\ file \in File
      /\ file.address \in DOMAIN Pton
      /\ file.port \in Nat
      /\ file.selfport \in Nat
      /\ file.reusable \in BOOLEAN
      /\ file.root \in Roots
  BY BaseAssumption DEF Loadable, File
<1>2. /\ Family(file.address) \in {4, 6}
      /\ Pton[file.address] \in Addresses
  BY AddressAssumption DEF Loadable, Family, Addresses
<1>3. /\ Htons(Narrow(file.port)) \in 0..(PortValues - 1)
      /\ Narrow(file.selfport) \in 0..(PortValues - 1)
  BY <1>1, NarrowFits, SwappedTwice DEF Htons
<1>4. MkAddr(file.address, file.port) \in BindAddress
  BY <1>2, <1>3 DEF MkAddr, BindAddress
<1>. QED
  BY <1>1, <1>3, <1>4 DEF LoadFrom, SettingsType

\* Settings come back from the file they are saved to.
LEMMA DefaultsComeBack ==
  ASSUME NEW reusable \in BOOLEAN
  PROVE  /\ Defaults \in SettingsType
         /\ SaveTo(Defaults, reusable) \in File
         /\ Loadable(SaveTo(Defaults, reusable))
         /\ Alike(LoadFrom(SaveTo(Defaults, reusable)), Defaults)
<1>1. /\ AnyAddress \in Addresses
      /\ Ntop[AnyAddress] \in DOMAIN Pton
      /\ Pton[Ntop[AnyAddress]] = AnyAddress
      /\ DefaultPort \in Nat
      /\ DefaultPort \in 0..(PortValues - 1)
  BY BaseAssumption, AddressAssumption, DefaultAssumption DEF Addresses, PortValues
<1>2. Family(Ntop[AnyAddress]) = 6
  BY <1>1, AddressAssumption, DefaultAssumption DEF Family
<1>3. Narrow(DefaultPort) = DefaultPort
  BY <1>1, DefaultAssumption, NarrowFits
<1>4. /\ Htons(DefaultPort) \in 0..(PortValues - 1)
      /\ Ntohs(Htons(DefaultPort)) = DefaultPort
  BY <1>1, SwappedTwice DEF Htons, Ntohs
<1>5. MkAddr(Ntop[AnyAddress], DefaultPort) =
        [family |-> 6, addr |-> AnyAddress, port |-> Htons(DefaultPort)]
  BY <1>1, <1>2, <1>3 DEF MkAddr
<1>6. Defaults \in SettingsType
  BY <1>1, <1>4, <1>5, DefaultAssumption DEF Defaults, SettingsType, BindAddress
<1>7. SaveTo(Defaults, reusable) =
        [address |-> Ntop[AnyAddress], port |-> DefaultPort, reusable |-> reusable,
         selfport |-> DefaultPort, root |-> DefaultRoot]
  BY <1>4, <1>5 DEF SaveTo, Defaults
<1>8. SaveTo(Defaults, reusable) \in File
  BY <1>1, <1>7, DefaultAssumption DEF File
<1>9. Loadable(SaveTo(Defaults, reusable))
  BY <1>2, <1>7, <1>8 DEF Loadable
<1>10. Alike(LoadFrom(SaveTo(Defaults, reusable)), Defaults)
  BY <1>3, <1>7 DEF Alike, LoadFrom, Defaults
<1>. QED
  BY <1>6, <1>8, <1>9, <1>10

\* A bool that was never written is read as some bool.
LEMMA ReadAsBool ==
  ASSUME NEW sets \in SettingsType, NEW b \in ReadAs(sets.reusable)
  PROVE  b \in BOOLEAN
<1>1. sets.reusable \in BOOLEAN \cup {Unset}
  BY DEF SettingsType
<1>2. CASE sets.reusable = Unset
  BY <1>2 DEF ReadAs
<1>3. CASE sets.reusable # Unset
  <2>1. ReadAs(sets.reusable) = {sets.reusable}
    BY <1>3, Zenon DEF ReadAs
  <2>2. b = sets.reusable
    BY <2>1, Zenon
  <2>. QED
    BY <2>2, <1>1, <1>3, Zenon
<1>. QED
  BY <1>2, <1>3

\* Settings are settings.
LEMMA KeepType ==
  ASSUME Inv, NEW sets \in SettingsType
  PROVE  Keep(sets) \in {None} \cup SettingsType
BY DEF Keep, Inv, TypeOK

-------------------------------------------------------------------------------
(* Inv is inductive.                                                       *)

\* The end of a process leaves the file and what is known of it.
LEMMA EndsPreserves ==
  ASSUME Inv, NEW why \in {"exit 0", "exit 1", "exception", "killed"},
         Ends(why), UNCHANGED conf
  PROVE  Inv'
<1>1. /\ phase' = "down"
      /\ outcome' = why
      /\ settings' = None
      /\ bound' = None
      /\ signalled' = FALSE
      /\ UNCHANGED <<conf, edits, starts, author, since, read, kept>>
  BY DEF Ends, Ended, history
<1>2. TypeOK' /\ since' \in BOOLEAN
  BY <1>1 DEF Inv, TypeOK
<1>3. ~ HasSettings' /\ SavesDefaults' /\ SavesOverNothing' /\ SettingsAsRead'
  BY <1>1 DEF HasSettings, SavesDefaults, SavesOverNothing, SettingsAsRead
<1>4. BoundAsSet' /\ SettingsAsKept'
  BY <1>1, <1>3 DEF BoundAsSet, SettingsAsKept
<1>5. KeptOnDisk'
  BY <1>1 DEF Inv, KeptOnDisk, Loadable, LoadFrom, MkAddr, Family, Alike
<1>. QED
  BY <1>1, <1>2, <1>3, <1>4, <1>5 DEF Inv

\* Inv holds at the start.
LEMMA InvInit == Init => Inv
<1>. SUFFICES ASSUME Init PROVE Inv
  OBVIOUS
<1>1. TypeOK /\ since \in BOOLEAN
  <2>1. edits \in 0..MaxEdits /\ starts \in 0..MaxStarts
    BY MaxAssumption DEF Init
  <2>. QED
    BY <2>1 DEF Init, TypeOK
<1>2. ~ HasSettings /\ settings = None /\ SavesDefaults /\ SavesOverNothing
  BY DEF Init, HasSettings, SavesDefaults, SavesOverNothing
<1>3. SettingsAsRead /\ BoundAsSet /\ KeptOnDisk /\ SettingsAsKept
  BY DEF Init, HasSettings, SettingsAsRead, BoundAsSet, KeptOnDisk, SettingsAsKept
<1>. QED
  BY <1>1, <1>2, <1>3 DEF Inv

\* A new process.
LEMMA StartPreserves == Inv /\ Start => Inv'
<1>. SUFFICES ASSUME Inv, Start PROVE Inv'
  OBVIOUS
<1>1. /\ starts < MaxStarts
      /\ starts' = starts + 1
      /\ phase = "down"
      /\ phase' = "stat"
      /\ outcome' = "none"
      /\ since' = FALSE
      /\ read' = Absent
      /\ UNCHANGED <<conf, edits, settings, bound, signalled, author, kept>>
  BY DEF Start
<1>6. starts \in 0..MaxStarts
  BY DEF Inv, TypeOK
<1>7. starts' \in 0..MaxStarts
  BY <1>1, <1>6, MaxAssumption
<1>8. TypeOK'
  BY <1>1, <1>7 DEF Inv, TypeOK
<1>9. since' \in BOOLEAN
  BY <1>1
<1>2. ~ HasSettings' /\ settings' = None
  BY DEF Start, Inv, HasSettings
<1>3. SavesDefaults' /\ SavesOverNothing' /\ SettingsAsRead' /\ SettingsAsKept'
  BY <1>2 DEF HasSettings, SavesDefaults, SavesOverNothing, SettingsAsRead, SettingsAsKept
<1>4. BoundAsSet'
  BY DEF Start, Inv, BoundAsSet
<1>5. KeptOnDisk'
  BY DEF Start, Inv, KeptOnDisk, Loadable, LoadFrom, MkAddr, Family, Alike
<1>. QED
  BY <1>1, <1>2, <1>3, <1>4, <1>5, <1>8, <1>9 DEF Inv

\* tryload makes the default settings only when there is no file, so that
\* nobody can have kept others.
LEMMA StatPreserves == Inv /\ Stat => Inv'
<1>. SUFFICES ASSUME Inv, Stat PROVE Inv'
  OBVIOUS
<1>1. UNCHANGED <<conf, edits, bound, signalled, outcome, starts,
                  author, since, read, kept>>
  BY DEF Stat, history
<1>2. bound = None
  BY DEF Stat, Inv, BoundAsSet
<1>3. BoundAsSet' /\ KeptOnDisk'
  BY <1>1, <1>2 DEF Inv, BoundAsSet, KeptOnDisk, Loadable, LoadFrom, MkAddr, Family, Alike
<1>4. CASE conf # Absent
  <2>1. phase' = "load" /\ settings' = None
    BY <1>4 DEF Stat, Exists, Inv, HasSettings
  <2>2. TypeOK'
    BY <2>1, <1>1 DEF Inv, TypeOK
  <2>3. ~ HasSettings' /\ SavesDefaults' /\ SavesOverNothing' /\ SettingsAsRead'
    BY <2>1 DEF HasSettings, SavesDefaults, SavesOverNothing, SettingsAsRead
  <2>4. SettingsAsKept'
    BY <2>3 DEF SettingsAsKept
  <2>. QED
    BY <1>1, <1>3, <2>1, <2>2, <2>3, <2>4 DEF Inv
<1>5. CASE conf = Absent
  <2>1. phase' = "save" /\ settings' = Defaults
    BY <1>5 DEF Stat, Exists
  <2>2. kept = None
    BY <1>5, MarksAssumption DEF Inv, KeptOnDisk, Loadable
  <2>3. Defaults \in SettingsType
    BY DefaultsComeBack
  <2>4. TypeOK'
    BY <2>1, <2>3, <1>1 DEF Inv, TypeOK
  <2>5. HasSettings' /\ SavesDefaults' /\ SavesOverNothing' /\ SettingsAsRead'
    BY <2>1, <2>2, <1>1, <1>5
    DEF HasSettings, SavesDefaults, SavesOverNothing, SettingsAsRead
  <2>6. SettingsAsKept'
    BY <2>2, <1>1 DEF SettingsAsKept
  <2>. QED
    BY <1>1, <1>3, <2>1, <2>3, <2>4, <2>5, <2>6 DEF Inv
<1>. QED
  BY <1>4, <1>5

\* The settings are loaded; those kept, if any, were loaded from the same
\* file.
LEMMA LoadPreserves == Inv /\ Load => Inv'
<1>. SUFFICES ASSUME Inv, Load PROVE Inv'
  OBVIOUS
<1>1. /\ Loadable(conf)
      /\ phase' = "bind"
      /\ settings' = LoadFrom(conf)
      /\ read' = conf
      /\ kept' = Keep(LoadFrom(conf))
      /\ UNCHANGED <<conf, edits, bound, signalled, outcome, starts, author, since>>
  BY DEF Load
<1>2. settings' \in SettingsType
  BY <1>1, LoadFromType
<1>3. TypeOK'
  <2>1. kept' \in {None} \cup SettingsType
    BY <1>1, LoadFromType, KeepType
  <2>2. read' \in File
    BY <1>1 DEF Loadable
  <2>. QED
    BY <2>1, <2>2, <1>1, <1>2 DEF Inv, TypeOK
<1>4. Alike(LoadFrom(conf), kept')
  BY <1>1 DEF Keep, Inv, KeptOnDisk, Alike
<1>5. HasSettings' /\ SavesDefaults' /\ SavesOverNothing'
  BY <1>1 DEF HasSettings, SavesDefaults, SavesOverNothing
<1>6. SettingsAsRead'
  BY <1>1 DEF SettingsAsRead, Alike, Loadable, LoadFrom, MkAddr, Family
<1>7. BoundAsSet'
  BY <1>1 DEF Load, Inv, BoundAsSet
<1>8. KeptOnDisk'
  BY <1>1, <1>4 DEF KeptOnDisk, Loadable, LoadFrom, MkAddr, Family, Alike
<1>9. SettingsAsKept'
  BY <1>1, <1>4 DEF SettingsAsKept, Alike
<1>. QED
  BY <1>1, <1>2, <1>3, <1>5, <1>6, <1>7, <1>8, <1>9 DEF Inv, TypeOK

\* The file is emptied: nothing was kept of it.
LEMMA SaveOpensPreserves == Inv /\ SaveOpens => Inv'
<1>. SUFFICES ASSUME Inv, SaveOpens PROVE Inv'
  OBVIOUS
<1>1. /\ phase = "save"
      /\ phase' = "write"
      /\ conf' = Broken
      /\ author' = "program"
      /\ UNCHANGED <<edits, settings, bound, signalled, outcome, starts,
                     since, read, kept>>
  BY DEF SaveOpens
<1>2. settings = Defaults /\ kept = None /\ settings \in SettingsType
  BY <1>1 DEF Inv, SavesDefaults, HasSettings
<1>3. TypeOK'
  BY <1>1 DEF Inv, TypeOK, Conf
<1>4. HasSettings' /\ SavesDefaults' /\ SavesOverNothing' /\ SettingsAsRead'
  BY <1>1, <1>2 DEF HasSettings, SavesDefaults, SavesOverNothing, SettingsAsRead, Defaults
<1>5. BoundAsSet' /\ KeptOnDisk' /\ SettingsAsKept'
  BY <1>1, <1>2 DEF Inv, BoundAsSet, KeptOnDisk, SettingsAsKept
<1>. QED
  BY <1>1, <1>2, <1>3, <1>4, <1>5 DEF Inv

\* The file is written, or the operator has put another in its place.
LEMMA SaveWritesPreserves == Inv /\ SaveWrites => Inv'
<1>. SUFFICES ASSUME Inv, SaveWrites PROVE Inv'
  OBVIOUS
<1>1. settings = Defaults /\ kept = None /\ settings \in SettingsType /\ phase = "write"
  BY DEF SaveWrites, Inv, SavesDefaults, HasSettings
<1>2. PICK b \in ReadAs(settings.reusable) :
        /\ read' = SaveTo(settings, b)
        /\ \/ /\ conf' = SaveTo(settings, b)
              /\ kept' = Keep(settings)
           \/ UNCHANGED <<conf, kept>>
  BY DEF SaveWrites
<1>3. /\ phase' = "bind"
      /\ UNCHANGED <<edits, settings, bound, signalled, outcome, starts, since>>
  BY DEF SaveWrites
<1>4. /\ read' \in File
      /\ Loadable(read')
      /\ Alike(LoadFrom(read'), settings)
  BY <1>1, <1>2, ReadAsBool, DefaultsComeBack
<1>5. kept' = None \/ (kept' = settings /\ conf' = read')
  BY <1>1, <1>2 DEF Keep
<1>6. TypeOK'
  <2>1. conf' \in Conf
    BY <1>2, <1>4 DEF Inv, TypeOK, Conf
  <2>. QED
    BY <2>1, <1>1, <1>3, <1>4, <1>5 DEF Inv, TypeOK
<1>7. HasSettings' /\ SavesDefaults' /\ SavesOverNothing'
  BY <1>3 DEF HasSettings, SavesDefaults, SavesOverNothing
<1>8. SettingsAsRead'
  BY <1>3, <1>4 DEF SettingsAsRead, Alike, Loadable, LoadFrom, MkAddr, Family
<1>9. BoundAsSet'
  BY <1>1, <1>3 DEF Inv, BoundAsSet
<1>10. KeptOnDisk'
  BY <1>4, <1>5 DEF KeptOnDisk, Alike, Loadable, LoadFrom, MkAddr, Family
<1>11. SettingsAsKept'
  BY <1>3, <1>5 DEF SettingsAsKept, Alike
<1>. QED
  BY <1>1, <1>3, <1>6, <1>7, <1>8, <1>9, <1>10, <1>11 DEF Inv

\* The socket listens.
LEMMA BindPreserves == Inv /\ Bind => Inv'
<1>. SUFFICES ASSUME Inv, Bind PROVE Inv'
  OBVIOUS
<1>1. /\ phase = "bind"
      /\ phase' = "map"
      /\ UNCHANGED <<conf, edits, settings, signalled, outcome, starts,
                     author, since, read, kept>>
  BY DEF Bind, history
<1>2. PICK b \in ReadAs(settings.reusable) :
        bound' = [addr |-> settings.bind.addr, port |-> Swapped(settings.bind.port),
                  reusable |-> b]
  BY DEF Bind
<1>3. settings \in SettingsType /\ b \in BOOLEAN
  BY <1>1, ReadAsBool DEF Inv, HasSettings
<1>4. /\ settings.bind.addr \in Addresses
      /\ Swapped(settings.bind.port) \in 0..(PortValues - 1)
  BY <1>3, SwappedTwice DEF SettingsType, BindAddress
<1>5. TypeOK'
  <2>1. bound' \in [addr : Addresses, port : 0..(PortValues - 1), reusable : BOOLEAN]
    BY <1>2, <1>3, <1>4
  <2>. QED
    BY <2>1, <1>1 DEF Inv, TypeOK
<1>6. HasSettings' /\ SavesDefaults' /\ SavesOverNothing' /\ SettingsAsKept'
  BY <1>1 DEF Inv, HasSettings, SavesDefaults, SavesOverNothing, SettingsAsKept, Alike
<1>7. BoundAsSet'
  BY <1>1, <1>2 DEF BoundAsSet
<1>8. SettingsAsRead' /\ KeptOnDisk'
  BY <1>1 DEF Inv, SettingsAsRead, KeptOnDisk, Loadable, LoadFrom, MkAddr, Family, Alike
<1>. QED
  BY <1>1, <1>3, <1>5, <1>6, <1>7, <1>8 DEF Inv

\* What the loop and its signals change.
LEMMA ServingPreserves ==
  ASSUME Inv, phase \in {"map", "serving"}, phase' \in {"map", "serving"},
         signalled' \in BOOLEAN,
         UNCHANGED <<conf, edits, settings, bound, outcome, starts, history>>
  PROVE  Inv'
<1>1. TypeOK'
  BY DEF Inv, TypeOK, history
<1>2. HasSettings' /\ SavesDefaults' /\ SavesOverNothing' /\ SettingsAsKept'
  BY DEF Inv, HasSettings, SavesDefaults, SavesOverNothing, SettingsAsKept, Alike, history
<1>3. SettingsAsRead' /\ KeptOnDisk' /\ BoundAsSet'
  BY DEF Inv, SettingsAsRead, KeptOnDisk, BoundAsSet, Loadable, LoadFrom, MkAddr,
         Family, Alike, history
<1>. QED
  BY <1>1, <1>2, <1>3 DEF Inv, HasSettings, history

\* The operator edits the file: nothing is kept any more.
LEMMA EditPreserves == Inv /\ Edit => Inv'
<1>. SUFFICES ASSUME Inv, Edit PROVE Inv'
  OBVIOUS
<1>1. /\ conf' \in Conf
      /\ edits < MaxEdits
      /\ edits' = edits + 1
      /\ since' = (phase \notin {"down", "stat"})
      /\ kept' = None
      /\ UNCHANGED <<phase, settings, bound, signalled, outcome, starts, read>>
  BY DEF Edit, program
<1>2. TypeOK' /\ since' \in BOOLEAN
  <2>1. edits \in 0..MaxEdits
    BY DEF Inv, TypeOK
  <2>2. edits' \in 0..MaxEdits
    BY <2>1, <1>1, MaxAssumption
  <2>. QED
    BY <2>2, <1>1 DEF Inv, TypeOK
<1>3. SavesDefaults' /\ SavesOverNothing' /\ KeptOnDisk' /\ SettingsAsKept'
  BY <1>1 DEF Inv, SavesDefaults, SavesOverNothing, KeptOnDisk, SettingsAsKept, Defaults
<1>4. SettingsAsRead' /\ BoundAsSet'
  BY <1>1 DEF Inv, SettingsAsRead, BoundAsSet, Loadable, LoadFrom, MkAddr, Family, Alike
<1>. QED
  BY <1>1, <1>2, <1>3, <1>4 DEF Inv, HasSettings
\* Each step keeps Inv.
LEMMA InvStep == Inv /\ [Next]_vars => Inv'
<1>. SUFFICES ASSUME Inv, [Next]_vars PROVE Inv'
  OBVIOUS
<1>1. CASE Start
  BY <1>1, StartPreserves
<1>2. CASE Stat
  BY <1>2, StatPreserves
<1>3. CASE Load
  BY <1>3, LoadPreserves
<1>4. CASE LoadThrows
  BY <1>4, EndsPreserves DEF LoadThrows
<1>5. CASE SaveOpens
  BY <1>5, SaveOpensPreserves
<1>6. CASE SaveWrites
  BY <1>6, SaveWritesPreserves
<1>7. CASE SaveThrows
  BY <1>7, EndsPreserves DEF SaveThrows
<1>8. CASE Bind
  BY <1>8, BindPreserves
<1>9. CASE BindFails
  BY <1>9, EndsPreserves DEF BindFails
<1>10. CASE LoadMap
  <2>1. /\ phase = "map"
        /\ phase' = "serving"
        /\ signalled' \in BOOLEAN
        /\ UNCHANGED <<conf, edits, settings, bound, outcome, starts, history>>
    BY <1>10 DEF LoadMap, StillPending, Inv, TypeOK
  <2>. QED
    BY <2>1, ServingPreserves
<1>11. CASE LoadMapThrows
  BY <1>11, EndsPreserves DEF LoadMapThrows
<1>12. CASE LoopBreaks
  BY <1>12, EndsPreserves DEF LoopBreaks
<1>13. CASE AcceptFails
  BY <1>13, EndsPreserves DEF AcceptFails
<1>14. CASE Sigint
  <2>1. CASE Ends("killed") /\ UNCHANGED conf
    BY <2>1, EndsPreserves
  <2>2. CASE /\ phase \in {"map", "serving"}
             /\ signalled' = TRUE
             /\ UNCHANGED <<conf, edits, phase, settings, bound, outcome, starts, history>>
    BY <2>2, ServingPreserves
  <2>. QED
    BY <1>14, <2>1, <2>2 DEF Sigint
<1>15. CASE Crash
  BY <1>15, EndsPreserves DEF Crash
<1>16. CASE Edit
  BY <1>16, EditPreserves
<1>17. CASE UNCHANGED vars
  <2>1. UNCHANGED <<conf, edits, phase, settings, bound, signalled, outcome, starts,
                    author, since, read, kept>>
    BY <1>17 DEF vars, program, history
  <2>2. TypeOK'
    BY <2>1 DEF Inv, TypeOK
  <2>. QED
    BY <2>1, <2>2
    DEF Inv, HasSettings, SavesDefaults, SavesOverNothing, SettingsAsRead, BoundAsSet,
        KeptOnDisk, SettingsAsKept, Loadable, LoadFrom, MkAddr, Family, Alike, Defaults
<1>. QED
  BY <1>1, <1>2, <1>3, <1>4, <1>5, <1>6, <1>7, <1>8, <1>9, <1>10, <1>11, <1>12,
     <1>13, <1>14, <1>15, <1>16, <1>17
  DEF Next, Step

\* Inv holds in every state.
LEMMA Invariance == Spec => []Inv
<1>. QED
  BY InvInit, InvStep, PTL DEF Spec

-------------------------------------------------------------------------------
(* What follows from it.                                                   *)

\* The variables of Startup have their types, whatever the addresses, the
\* ports and the number of starts and edits.
THEOREM StartupTypeCorrect == Spec => []TypeOK
<1>1. Inv => TypeOK
  BY DEF Inv
<1>. QED
  BY <1>1, Invariance, PTL

\* The socket listens at the address and the port of the file the process
\* loaded or saved: parse4 or parse6, htons, and the bytes sockaddr_in holds
\* lead to no other.
THEOREM StartupListensAsWritten == Spec => []ListensAsWritten
<1>1. ASSUME Inv PROVE ListensAsWritten
  <2>. SUFFICES ASSUME bound # None
                PROVE  /\ read \in File
                       /\ bound.addr = Pton[read.address]
                       /\ read.port < PortValues => bound.port = read.port
    BY DEF ListensAsWritten
  <2>1. /\ bound.addr = settings.bind.addr
        /\ bound.port = Swapped(settings.bind.port)
        /\ read \in File
        /\ LoadFrom(read).bind = settings.bind
    BY <1>1 DEF Inv, BoundAsSet, SettingsAsRead, Loadable, Alike
  <2>2. /\ LoadFrom(read).bind.addr = Pton[read.address]
        /\ LoadFrom(read).bind.port = Swapped(Narrow(read.port))
    BY DEF LoadFrom, MkAddr, Htons
  <2>3. read.port \in Nat
    BY <2>1, BaseAssumption DEF File
  <2>4. ASSUME read.port < PortValues PROVE Swapped(Swapped(Narrow(read.port))) = read.port
    BY <2>3, <2>4, NarrowFits, SwappedTwice
  <2>. QED
    BY <2>1, <2>2, <2>4
<1>. QED
  BY <1>1, Invariance, PTL

\* A process that has settings has those the first process since the last
\* edit had, sock_reusable aside: what save_to writes, load_from reads back.
THEOREM StartupRestartsAlike == Spec => []RestartsAlike
<1>1. ASSUME Inv PROVE RestartsAlike
  <2>. SUFFICES ASSUME settings # None, kept # None
                PROVE  [settings EXCEPT !.reusable = TRUE] = [kept EXCEPT !.reusable = TRUE]
    BY DEF RestartsAlike
  <2>1. settings \in SettingsType /\ kept \in SettingsType /\ Alike(settings, kept)
    BY <1>1 DEF Inv, TypeOK, SettingsAsKept
  <2>. QED
    BY <2>1 DEF Alike, SettingsType
<1>. QED
  BY <1>1, Invariance, PTL

\* No step of the program overwrites a file the operator wrote before tryload
\* looked for one.
THEOREM StartupKeepsOperatorsFile == Spec => KeepsOperatorsFile
<1>1. ASSUME Inv, [Next]_vars PROVE [SparesOperatorsFile]_vars
  <2>. SUFFICES ASSUME author' = "program", conf' # conf
                PROVE  conf = Absent \/ author = "program" \/ since
    BY DEF SparesOperatorsFile
  <2>1. CASE SaveOpens \/ SaveWrites
    BY <2>1, <1>1 DEF SaveOpens, SaveWrites, Inv, SavesOverNothing
  <2>2. CASE Edit
    BY <2>2 DEF Edit
  <2>3. CASE UNCHANGED conf
    BY <2>3
  <2>4. SaveOpens \/ SaveWrites \/ Edit \/ UNCHANGED conf
    BY <1>1 DEF Next, Step, Start, Stat, Load, LoadThrows, SaveThrows, Bind, BindFails,
       LoadMap, LoadMapThrows, LoopBreaks, AcceptFails, Sigint, Crash, vars
  <2>. QED
    BY <2>1, <2>2, <2>3, <2>4
<1>. QED
  BY <1>1, Invariance, PTL DEF Spec, KeepsOperatorsFile
===============================================================================
