SPECIFICATION Spec
CONSTANTS
  BASE = 2
  HEADER = 1
  NR_SIZES = 2
  PAGE = 2
  NEW_ALLOC_PAGES = 1
  InitPages = 1
  MaxLines = 6
  MaxHints = 3
  Requests = {1, 3, 4}
  Waits = TRUE
INVARIANTS LinesExact HeadersExact RegionsHinted
PROPERTIES SearchExact ImplementsWearHeap
CHECK_DEADLOCK FALSE
