SPECIFICATION FairSpec
CONSTANTS
  L = 2
  W = 5
  P <- MCPowers
  PAGE = 1
  Requests = {1, 2, 3}
  PagesOf <- MCPagesOf
  LevelByte = 19
  Exhaust = TRUE
  Queries = {}
PROPERTY ExhaustedRefused
CHECK_DEADLOCK FALSE
