SPECIFICATION Spec
CONSTANTS
  main = main
  worker = worker
  Main = main
  Nobody = nobody
  nobody = nobody
  Threads = {main, worker}
  ArenaPages = 2
  Sizes = {1, 2}
  Oversize = {}
  MaxHeld = 1
  InitOutcomes = {"ok", "map_failed"}
  LateThreads = FALSE
CHECK_DEADLOCK FALSE
INVARIANT FailedInitGivesNull
