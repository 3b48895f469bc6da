SPECIFICATION Spec
CONSTANTS
  Processes = {p1, p2}
  MAXFIFO = 2
  FIFOSIZE = 2
  Values = {1, 2}
  Serialised = {"init", "use"}
  MaxIdx = 4
SYMMETRY ProcessSymmetry
INVARIANTS
  TypeOK
  NeverFreeInUse
PROPERTIES
  KeepsContents
  ReadsFirstUnread
