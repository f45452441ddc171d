SPECIFICATION BundleSpec
CHECK_DEADLOCK FALSE
CONSTANTS
  None = None
  Horizon = 2
  MaxTime = 1
  NoLimit = 1000000
  ResourceId <- TwoResources
  ResourceClass <- Classes
  Worker <- OneWorker
  Owner <- Owners
  RequestId <- TwoRequests
  LastReservationId = 4
  LastHoldId = 4
  MaxGeneration = 1
  MaxAuthority = 1
  MaxHolds = 4
  MaxHistory = 1
  HoldLease = 1
  Publications <- LargeAndSmall
  Requests <- Alone
  HoldSpecs <- CallerHold
  ConsumeAmounts <- NoInput
  NewQuantities <- NoInput
  NewWindows <- NoInput
  NewOwners <- NoInput
  PolicyGenerations <- NoInput
  ResourceGenerations <- NoInput
  WorkerBoots <- NoInput
  EvidenceGenerations <- NoInput
  HoldClock <- OnlyZero
  Bundles <- FiveBundles
  LastBundleHold = 4
INVARIANTS
  AccountingInvariant
  AllOrNothing
  RollbackSkipsNothing
PROPERTIES
  BundleEnds
