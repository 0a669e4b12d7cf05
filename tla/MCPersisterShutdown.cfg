\* SIGINT while a change waits for its write.
SPECIFICATION Spec
CONSTANTS
  Params = 2
  MaxValue = 1
  WriteFaults <- NoWriteFaults
PROPERTIES
  ShutdownFlushes
CHECK_DEADLOCK FALSE
