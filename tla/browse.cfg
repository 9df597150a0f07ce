\* Requests of every spelling and URLs, on disks with links and on one that is
\* edited meanwhile.
CONSTANTS
  Slash = "/"
  UrlMark = "URL:"
  Dot = "."
  DotDot = ".."
  Spaces = {}
  DigitValue = {}
  Places <- SomePlaces
  Target <- SomeTargets
  RootOf <- Roots
  Dotted <- SomeDotted
  Requests <- SomeRequests
  Keyword = "${URL}"
  Keywords = 5
  Disks <- SomeDisks
  Edits <- SomeEdits
  SystemFails = TRUE
  Lookups = 9
  MaxLeft = 7
SPECIFICATION FairSpec
INVARIANTS TypeOK ShownComeBack 
PROPERTIES AnswerMatches SilentOnlyOnRace EveryRequestEnds
