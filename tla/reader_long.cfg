\* One read of streams that may be longer than the buffer; event_add may
\* fail.
CONSTANTS
  BufLen = 2
  MaxStream = 6
  MaxReads = 1
  Answers = {"stop", "throw"}
  AddFails = TRUE
SPECIFICATION FairSpec
INVARIANTS TypeOK BufferedIsTaken LineWasSent
PROPERTIES ReadTerminates
CHECK_DEADLOCK FALSE
