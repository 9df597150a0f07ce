\* Requests that fit in BufLen bytes, line terminator included.
CONSTANTS
  BufLen = 4
  MaxStream = 4
  MaxReads = 1
  Answers = {"stop", "throw"}
  AddFails = FALSE
SPECIFICATION Spec
INVARIANT NoLineMissed
CHECK_DEADLOCK FALSE
