SPECIFICATION Spec
CONSTANTS
  INT_BITS = 12
  Processes = {p, q}
  MAX_COLS = 2
  MAX_ROWS = 3
  BYTE = 4
  Messages <- SmallMessages
  KernelTexts <- SmallKernelTexts
SYMMETRY ProcessSymmetry
INVARIANTS
  TypeOK
  ShowsText
  NumbersShown
  HexShown
