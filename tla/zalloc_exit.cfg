SPECIFICATION Spec
CONSTANTS
  main = main
  worker = worker
  Main = main
  Nobody = nobody
  nobody = nobody
  Threads = {main, worker}
  ArenaPages = 2
  Sizes = {1}
  Oversize = {9}
  MaxHeld = 1
  InitOutcomes = {"ok"}
  LateThreads = TRUE
CHECK_DEADLOCK FALSE
INVARIANT GoneStaysGone
PROPERTY CrashHasCause
