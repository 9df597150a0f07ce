\* Two connections, three descriptors; with every fault, every session ends
\* unless it is starved or forgotten.
CONSTANTS
  c1 = c1
  c2 = c2
  c3 = c3
  f1 = f1
  f2 = f2
  f3 = f3
  Conns = {c1, c2}
  Fds = {f1, f2, f3}
  NoConn = NoConn
  NoFd = NoFd
  BufSize = 2
  MaxReply = 2
  Replies = {"bytes", "file", "throw", "abort", "hang"}
  AddFails = TRUE
  FstatFails = TRUE
  Truncates = TRUE
SPECIFICATION FairSpec
PROPERTY SessionsEnd
CHECK_DEADLOCK FALSE
