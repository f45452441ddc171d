SPECIFICATION Spec
CHECK_DEADLOCK FALSE
CONSTANTS
  None = None
  Horizon = 2
  MaxTime = 1
  NoLimit = 1000000
  ResourceId <- OneResource
  ResourceClass <- Classes
  Worker <- OneWorker
  Owner <- Owners
  RequestId <- OneRequest
  LastReservationId = 2
  LastHoldId = 0
  MaxGeneration = 3
  MaxAuthority = 1
  MaxHolds = 0
  MaxHistory = 1
  HoldLease = 1
  Publications <- OnePublication
  Requests <- LoneRequest
  HoldSpecs <- NoInput
  ConsumeAmounts <- OnlyOne
  NewQuantities <- NewSizes
  NewWindows <- LaterWindow
  NewOwners <- OneOwner
  PolicyGenerations <- OnlyOne
  ResourceGenerations <- NoInput
  WorkerBoots <- OnlyOne
  EvidenceGenerations <- ZeroAndOne
  HoldClock <- OnlyZero
INVARIANTS
  ConsumptionWithinPromise
  HistoryContiguous
PROPERTIES
  GenerationsImmutable
  RefusedModificationChangesNothing
  ConsumedOncePerEvidence
