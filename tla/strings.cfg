SPECIFICATION FairSpec
CONSTANTS
  Capacity = 4
  LowWater = 2
  SegBytes = 2
  Timeout = 2
  IndexSpan = 32
  ChunkLen <- MCChunkLen
  SubIndices = {0, 1}
  MaxRequests = 2
  Impatient = TRUE
  Persistent = TRUE
INVARIANTS
  DeliveredInOrder
  
  StreamFollowsDocument
PROPERTIES
  RequestIsClosed
