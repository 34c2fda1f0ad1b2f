SPECIFICATION Spec
CONSTANTS
  L = 2
  W = 5
  P <- MCPowers
  PAGE = 2
  Requests = {1, 2, 3}
  PagesOf <- MCPagesOf
  LevelByte = 19
  Exhaust = FALSE
  Queries = {"page_size"}
INVARIANT PageSizeAnswer
CHECK_DEADLOCK FALSE
