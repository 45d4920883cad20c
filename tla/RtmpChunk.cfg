CONSTANTS
  Threads = {t1, t2}
  Channels = {3, 4}
  Offers <- MixedOffers
  ChunkSize = 2
  Full = 4
  Modulus = 8
  MaxSends <- ThreeAndOne
  NONE = NONE
SPECIFICATION FairChunkSpec
PROPERTIES
  StreamsSpec
  MessagesArrive
\* The packets run out, a write failed, or two threads crossed.
CHECK_DEADLOCK FALSE
