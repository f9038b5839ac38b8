\* One session; three versions of the document compete for four bytes in two leases.
SPECIFICATION TaskSpec
CONSTANTS
  MaxLeaseGeneration = 9
  LeaseGenerationBound = 8
  Apps = {1}
  MaxU32 = 9
  Bodies = {b1}
  Sizes = {1, 2, 3}
  RequestIds = {}
  NativeLeases = {}
  InboxSlots = 1
  FrameBoxSlots = 2
  RequestBoxSlots = 0
  FatalBoxSlots = 2
  FrameLeases = 2
  MaxFrameBytes = 3
  MaxTotalFrameBytes = 4
  PayloadLeases = 0
  MaxPayloadBytes = 0
  MaxTotalPayloadBytes = 0
  MaxTombstones = 0
  MaxIntents = 0
  MaxVersion = 3
\* The session ends.
CHECK_DEADLOCK FALSE
INVARIANTS
  TaskTypeOK
  ProtocolOutlivesTasks
  FramesAreAccounted
  FailureIsSeen
PROPERTIES
  LatestFrameIsTried
  SessionEnds
