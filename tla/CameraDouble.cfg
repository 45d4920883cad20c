CONSTANTS
  Main = m
  Consumer = c
  Attempts = {a1, a2}
  AudioTasks = {}
  Threads = {m, c, a1, a2}
  Lives = {l1, l2}
  NULL = NULL
  Schedules = {"double", "orphaned", "lost"}
SYMMETRY Symmetric
SPECIFICATION CameraSpec
INVARIANTS
  DialogHasOwner
\* The activity may be dead, the process ended, or the Lives used up.
CHECK_DEADLOCK FALSE
