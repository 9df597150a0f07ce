\* The files of the site are edited while it is loaded and served.
CONSTANTS
  r = r
  g = g
  d = d
  m = m
  Empty = Empty
  None = None
  Root = r
  Paths = {r, g, d, m}
  Lines <- AllLines
  Sites <- AnySites
  Edits <- AnyEdits
  EditPhases = {"scan", "mknode", "serving"}
  Short = {"", "1"}
  Urls = {"URL:x"}
  Ports = {"70"}
SPECIFICATION Spec
INVARIANTS TypeOK SelectorsUnique
PROPERTIES SelectorsStable
CHECK_DEADLOCK FALSE
