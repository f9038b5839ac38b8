\* Two Apps in a row, two requests each, one of everything the requests compete for.
SPECIFICATION SessionSpec
CONSTANTS
  q1 = q1
  q2 = q2
  RequestIds <- MCRequests
  Clients <- MCRequests
  Bodies <- MCBodies
  Apps = {1, 2}
  MaxU32 = 3
  MaxLeaseGeneration = 9
  LeaseGenerationBound = 8
  Sizes = {1}
  NativeLeases = {}
  InboxSlots = 1
  FrameBoxSlots = 0
  RequestBoxSlots = 2
  FatalBoxSlots = 0
  FrameLeases = 0
  MaxFrameBytes = 0
  MaxTotalFrameBytes = 0
  PayloadLeases = 1
  MaxPayloadBytes = 1
  MaxTotalPayloadBytes = 1
  MaxTombstones = 2
  MaxIntents = 0
  AppScoped = any
  HandleScopes = {"client"}
  ServiceWorkers = {w1}
  InFlightCapacity = 1
  CompletionCapacity = 1
  HandleSlots = 1
  MaxHandleGeneration = 9
  MaxInstances = 2
  MaxJobs = 4
  MaxRequests = 2
\* The launches are bounded, so the model stops.
CHECK_DEADLOCK FALSE
INVARIANTS
  SessionTypeOK
  LedgerFollowsRecords
  AnswersAreHeld
  NothingWaitsForNobody
PROPERTIES
  CallbacksAreServed
