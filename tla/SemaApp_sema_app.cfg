SPECIFICATION Spec
CONSTANTS
  parent = parent
  child = child
  mutex = mutex
  MAXFIFO = 2
  FIFOSIZE = 2
  Sent = 7
  NumCells = 2
CHECK_DEADLOCK FALSE
INVARIANTS
  TypeOK
  ReadsWhatParentWrote
PROPERTIES
  UsesFifoSerialised
  Ends
