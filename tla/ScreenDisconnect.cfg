CONSTANTS
  Attempts = {io}
  Copier = copier
  Threads = {io, copier}
  Lives = {l1, l2}
  NULL = NULL
  MaxRecords = 1
  MaxPending = 1
  Redials = TRUE
SPECIFICATION ScreenSpec
INVARIANTS
  DisconnectCloses
CHECK_DEADLOCK FALSE
