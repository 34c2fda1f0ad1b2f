SPECIFICATION FairSpec
CONSTANTS
  L = 3
  W = 7
  P <- MCPowers
  PAGE = 1
  Requests = {1, 3, 9}
  PagesOf <- MCPagesOf
  LevelByte = 19
  Exhaust = FALSE
  Queries = {}
INVARIANTS BuddyInv TreeExact
PROPERTIES OthersUntouched CallsReturn ImplementsArena
