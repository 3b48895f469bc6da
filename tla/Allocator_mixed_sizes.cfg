SPECIFICATION Spec
CONSTANTS
  Processes = {p}
  Requests = {2, 6}
  Freed = {2, 6}
  Data = {15, 7}
  BASE_MEM_LOCATION = 4
  BASE_STACK_LOCATION = 28
  MAX_NUMBER_OF_MALLOCS = 3
INVARIANTS
  Disjoint
