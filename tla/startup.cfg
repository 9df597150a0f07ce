\* Two starts and two edits of settings.conf.
CONSTANTS
  Absent = Absent
  Broken = Broken
  Unset = Unset
  None = None
  Addresses4 = {"four"}
  Addresses6 = {"any"}
  Pton <- SomePton
  Ntop <- SomeNtop
  Base = 4
  Ints = {6, 9, 27}
  Roots = {"path/to/gophermap"}
  AnyAddress = "any"
  DefaultPort = 6
  DefaultRoot = "path/to/gophermap"
  MaxEdits = 2
  MaxStarts = 2
SPECIFICATION FairSpec
INVARIANTS TypeOK ListensAsWritten RestartsAlike
PROPERTIES KeepsOperatorsFile StartDecides 
CHECK_DEADLOCK FALSE
