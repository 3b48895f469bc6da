SPECIFICATION Spec
CONSTANTS
  Processes = {p1, p2}
  MAXFIFO = 2
  FIFOSIZE = 2
  Values = {1, 2}
  Serialised = {"init"}
  MaxIdx = 4
SYMMETRY ProcessSymmetry
INVARIANTS
  NeverFreeInUse
