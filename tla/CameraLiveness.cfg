CONSTANTS
  Main = m
  Consumer = c
  Attempts = {a1}
  AudioTasks = {s1}
  Threads = {m, c, a1, s1}
  Lives = {l1}
  NULL = NULL
  Schedules = {"live", "torn", "late", "shared"}
SPECIFICATION CameraFairSpec
PROPERTIES
  ScreenUnlocks
  LiveWindsDown
  DestroyCompletes
\* The activity may be dead, the process ended, or the Lives used up.
CHECK_DEADLOCK FALSE
