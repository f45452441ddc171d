SPECIFICATION ResizingSpec
CHECK_DEADLOCK FALSE
CONSTANTS
  None = None
  Horizon = 2
  MaxTime = 1
  NoLimit = 1000000
  ResourceId <- OneResource
  ResourceClass <- Classes
  Worker <- OneWorker
  Owner <- Owners
  RequestId <- TwoRequests
  LastReservationId = 3
  LastHoldId = 1
  MaxGeneration = 2
  MaxAuthority = 2
  MaxHolds = 2
  MaxHistory = 1
  HoldLease = 1
  Publications <- OnePublication
  Requests <- ContendingRequests
  HoldSpecs <- OneHold
  ConsumeAmounts <- OnlyOne
  NewQuantities <- OneAndTwo
  NewWindows <- NoInput
  NewOwners <- OneOwner
  PolicyGenerations <- OnlyOne
  ResourceGenerations <- OnlyTwo
  WorkerBoots <- OneAndTwo
  EvidenceGenerations <- OnlyOne
  HoldClock <- OnlyZero
INVARIANTS
  NeverOverbooked
