\* One read, as session.cc makes it, of a request of at most half the buffer.
CONSTANTS
  BufLen = 8
  MaxStream = 5
  MaxReads = 1
  Answers = {"stop", "throw"}
  AddFails = FALSE
SPECIFICATION Spec
INVARIANTS NoLineMissed
PROPERTIES ImplementsContract
CHECK_DEADLOCK FALSE
