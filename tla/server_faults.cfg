\* Three connections, three descriptors, every fault the model knows.
CONSTANTS
  c1 = c1
  c2 = c2
  c3 = c3
  f1 = f1
  f2 = f2
  f3 = f3
  Conns = {c1, c2, c3}
  Fds = {f1, f2, f3}
  NoConn = NoConn
  NoFd = NoFd
  BufSize = 2
  MaxReply = 2
  Replies = {"bytes", "file", "throw", "abort", "hang"}
  AddFails = TRUE
  FstatFails = TRUE
  Truncates = TRUE
SPECIFICATION Spec
INVARIANTS TypeOK EventsOwned FdAccounting BytesAccounted
PROPERTIES SessionsIndependent ImplementsService
SYMMETRY Symmetry
CHECK_DEADLOCK FALSE
