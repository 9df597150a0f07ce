\* A site with a link to a file that does not exist.
CONSTANTS
  r = r
  g = g
  d = d
  m = m
  Empty = Empty
  None = None
  Root = r
  Paths = {r, g, d, m}
  Lines <- AllLines
  Sites <- DanglingSites
  Edits <- NoEdits
  EditPhases = {}
  Short = {"", "1"}
  Urls = {"URL:x"}
  Ports = {"70"}
SPECIFICATION Spec
INVARIANTS NeverAborts
CHECK_DEADLOCK FALSE
