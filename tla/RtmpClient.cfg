CONSTANTS
  StreamIds = {1, 2}
  Chatter <- EveryChatter
  MaxChat = 2
  MaxMedia = 2
  Garbage = {0, 7}
SPECIFICATION FairRtmpSpec
INVARIANTS
  OpenIsPublished
  ServerIsTold
  RecursionNeedsStream
PROPERTIES
  DialogSpec
  ConnectEnds
\* The handle ends closed.
CHECK_DEADLOCK FALSE
