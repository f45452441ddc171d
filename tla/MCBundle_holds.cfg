SPECIFICATION BundleSpec
CHECK_DEADLOCK FALSE
CONSTANTS
  None = None
  Horizon = 2
  MaxTime = 1
  NoLimit = 1000000
  ResourceId <- OneResource
  ResourceClass <- Classes
  Worker <- OneWorker
  Owner <- Owners
  RequestId <- TwoRequests
  LastReservationId = 4
  LastHoldId = 5
  MaxGeneration = 1
  MaxAuthority = 1
  MaxHolds = 4
  MaxHistory = 1
  HoldLease = 1
  Publications <- FullResource
  Requests <- FullMember
  HoldSpecs <- CallerHold
  ConsumeAmounts <- NoInput
  NewQuantities <- NoInput
  NewWindows <- NoInput
  NewOwners <- NoInput
  PolicyGenerations <- NoInput
  ResourceGenerations <- NoInput
  WorkerBoots <- OnlyOne
  EvidenceGenerations <- OnlyOne
  HoldClock <- OnlyZero
  Bundles <- FullBundle
  LastBundleHold = 5
INVARIANTS
  HoldsGuaranteeCapacity
