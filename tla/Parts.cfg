CONSTANTS
  Consumers = {c1, c2, c3}
  Items = {i1, i2, i3}
  Core = 2
  Maximum = 3
  Capacity = 1
  Screens = {s1, s2, s3}
  MaxLives = 1
  Cameras = {"back", "front"}
  SizeOf <- Sizes
  FirstCamera = "back"
  MaxPictures = 3
  MaxSwaps = 2
  Rows = {0, 1, 2, 3}
  Custom = 3
  Addresses = {a1, a2}
  Empty = Empty
  Attempts = {io1, io2}
  Copier = copier
  Threads = {io1, io2, copier}
  Lives = {l1, l2}
  NULL = NULL
  MaxRecords = 2
  MaxPending = 1
  Redials = FALSE
  SpsUnits <- SpsExamples
  PpsUnits <- PpsExamples
  Slices <- SliceExamples
  Beyond <- Memory
  Answers <- AnswerExamples
  Fields <- FieldExamples
  Auths <- AuthExamples
  Extras <- ExtraExamples
  Rooms <- RoomExamples
SPECIFICATION PartsSpec
SYMMETRY Symmetric
INVARIANTS
  NoStrandedItem
  StopFreesOne
  NoTaskWithoutWorker
  StarvedByLasting
  StaleNeedsMixing
  ScreenRules
  MuxerIsSafe
  PlayerReadsUnits
  CodecAgrees
PROPERTIES
  FifoSpec
  PicturesInOrder
  RestartOffersUsed
\* A part stops for good after an exception or at the bounds.
CHECK_DEADLOCK FALSE
