CONSTANTS
  Main = m
  Consumer = c
  Attempts = {a1}
  AudioTasks = {}
  Threads = {m, c, a1}
  Lives = {l1}
  NULL = NULL
  Schedules = {"live"}
SPECIFICATION CameraSpec
INVARIANTS
  InterPacketsCarryPictures
\* The activity may be dead, the process ended, or the Lives used up.
CHECK_DEADLOCK FALSE
