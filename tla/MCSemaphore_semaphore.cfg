SPECIFICATION Spec
CONSTANTS
  Processes = {a, b, c, e}
  DEVICEs = {e}
  PERIODICs = {a, b}
  Initialisers = {c}
  Semaphores = {s, t}
  Grants = 1
  NumCells = 2
  Rules = {"single"}
SYMMETRY PeriodicSymmetry
CHECK_DEADLOCK FALSE
INVARIANTS
  TypeOK
  Conserved
  ListsEnd
  WaitersOwnElement
PROPERTIES
  ImplementsCountingSemaphore
