CONSTANTS
  Main = m
  Consumer = c
  Attempts = {a1}
  AudioTasks = {}
  Threads = {m, c, a1}
  Lives = {l1, l2}
  NULL = NULL
  Schedules = {"live", "torn", "late", "shared", "orphaned", "carried", "lost"}
SYMMETRY Symmetric
SPECIFICATION CameraSpec
INVARIANTS
  RulesAreKept
\* The activity may be dead, the process ended, or the Lives used up.
CHECK_DEADLOCK FALSE
