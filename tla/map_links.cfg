\* Sites whose root gophermap mentions every link.
CONSTANTS
  r = r
  g = g
  d = d
  m = m
  Empty = Empty
  None = None
  Root = r
  Paths = {r, g, d, m}
  Lines <- AllLines
  Sites <- SelfContainedSites
  Edits <- RootEdits
  EditPhases = {"serving"}
  Short = {"", "1"}
  Urls = {"URL:x"}
  Ports = {"70"}
SPECIFICATION Spec
INVARIANTS LinksResolve NeverAborts
CHECK_DEADLOCK FALSE
