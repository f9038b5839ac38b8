\* Two Apps, one slot of everything that is not counted in bytes.
SPECIFICATION Spec
CONSTANTS
  MaxLeaseGeneration = 3
  LeaseGenerationBound = 2
  Apps = {1, 2}
  MaxU32 = 2
  Bodies = {b1}
  Sizes = {1, 2}
  RequestIds = {q1}
  NativeLeases = {n1}
  InboxSlots = 1
  FrameBoxSlots = 1
  RequestBoxSlots = 1
  FatalBoxSlots = 1
  FrameLeases = 1
  MaxFrameBytes = 1
  MaxTotalFrameBytes = 1
  PayloadLeases = 2
  MaxPayloadBytes = 2
  MaxTotalPayloadBytes = 3
  MaxTombstones = 1
  MaxIntents = 1
INVARIANTS
  TypeOK
  NothingOutlivesItsSession
  BytesAccounted
PROPERTIES
  SealedUntilReleased
  ImplementsLifecycle
