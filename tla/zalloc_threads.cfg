SPECIFICATION FairSpec
CONSTANTS
  main = main
  worker = worker
  Main = main
  Nobody = nobody
  nobody = nobody
  Threads = {main, worker}
  ArenaPages = 4
  Sizes = {1, 2}
  Oversize = {9}
  MaxHeld = 1
  InitOutcomes = {"ok", "small_file", "map_failed", "print_allocates"}
  LateThreads = FALSE
CHECK_DEADLOCK FALSE
INVARIANTS ZallocInv OneAtATime SoleHolder Accounted
PROPERTIES Contents TreeKeepsBlocks LockReleased
