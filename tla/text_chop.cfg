\* Every file, by both loops: also those whose last line has no newline.
CONSTANTS
  NewLine = "nl"
  Tab = "tab"
  Spaces = {"sp"}
  DigitValue <- TheDigits
  Contents <- AllContents
  Loops <- TheLoops
  MaxPort = 79
  Return = "cr"
  InfoHost = "info.host"
  VirtualPath <- SomePath
  SelfHost <- SomeHost
  SelfPort = 17
  MaxLines = 5
  ReadFails = FALSE
SPECIFICATION Spec
INVARIANT NextReturnsLine
CHECK_DEADLOCK FALSE
