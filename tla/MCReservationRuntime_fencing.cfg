SPECIFICATION Spec
CHECK_DEADLOCK FALSE
CONSTANTS
  None = None
  Horizon = 2
  MaxTime = 1
  NoLimit = 1000000
  ResourceId <- OneResource
  ResourceClass <- Classes
  Worker <- TwoWorkers
  Owner <- Owners
  RequestId <- OneRequest
  LastReservationId = 2
  LastHoldId = 0
  MaxGeneration = 2
  MaxAuthority = 1
  MaxHolds = 0
  MaxHistory = 2
  HoldLease = 1
  Publications <- TwoOwners
  Requests <- LoneRequest
  HoldSpecs <- NoInput
  ConsumeAmounts <- OnlyOne
  NewQuantities <- NoInput
  NewWindows <- NoInput
  NewOwners <- OneOwner
  PolicyGenerations <- NoInput
  ResourceGenerations <- OnlyTwo
  WorkerBoots <- OneAndTwo
  EvidenceGenerations <- OnlyOne
  HoldClock <- OnlyZero
INVARIANTS
  InUseOnlyOnAvailable
PROPERTIES
  OwnerBootNeverRegresses
