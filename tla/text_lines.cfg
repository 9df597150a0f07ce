\* Every file, by both loops.
CONSTANTS
  NewLine = "nl"
  Tab = "tab"
  Spaces = {"sp"}
  DigitValue <- TheDigits
  Contents <- AllContents
  Loops <- TheLoops
  MaxPort = 79
  Return = "cr"
  InfoHost = "info.host"
  VirtualPath <- SomePath
  SelfHost <- SomeHost
  SelfPort = 17
  MaxLines = 5
  ReadFails = TRUE
SPECIFICATION FairSpec
INVARIANTS TypeOK EndedLinesIntact LinksReported PortsAsWritten MenuReadsBack
PROPERTIES LoopTerminates
CHECK_DEADLOCK FALSE
