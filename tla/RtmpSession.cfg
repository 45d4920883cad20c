CONSTANTS
  Threads = {t1, t2}
  Lives = {l1, l2}
  NULL = NULL
SYMMETRY Symmetric
SPECIFICATION SessionSpec
INVARIANTS
  SessionTypeOK
  FreedHandleNeedsOverlap
  NullNeedsUnopened
  NullSpsNeedsUnconfigured
  NoHandleLeaks
  KeyFollowsHeader
PROPERTIES
  ResultMatchesSession
\* An undefined access ends the process, and the Lives may run out.
CHECK_DEADLOCK FALSE
