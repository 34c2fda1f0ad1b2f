SPECIFICATION FairSpec
CONSTANTS
  L = 2
  W = 5
  P <- MCPowers
  PAGE = 2
  Requests = {1, 3, 5}
  PagesOf <- MCPagesOf
  LevelByte = 19
  Exhaust = TRUE
  Queries = {"used_size", "page_size"}
INVARIANTS NoOverlap BuddyInv UsedSizeAnswer AbortOnlyBehind
PROPERTIES BehindOnlyWhenExhausted SearchEnds
CHECK_DEADLOCK FALSE
