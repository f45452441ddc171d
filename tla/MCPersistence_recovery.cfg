SPECIFICATION PersistenceSpec
CHECK_DEADLOCK FALSE
CONSTANTS
  None = None
  Horizon = 2
  MaxTime = 1
  NoLimit = 1000000
  ResourceId <- OneResource
  ResourceClass <- Classes
  Worker <- OneWorker
  Owner <- Owners
  RequestId <- OneRequest
  LastReservationId = 2
  LastHoldId = 1
  MaxGeneration = 2
  MaxAuthority = 1
  MaxHolds = 1
  MaxHistory = 1
  HoldLease = 1
  Publications <- Maintained
  Requests <- EarlyRequest
  HoldSpecs <- EarlyHold
  ConsumeAmounts <- OnlyOne
  NewQuantities <- NoInput
  NewWindows <- NoInput
  NewOwners <- NoInput
  PolicyGenerations <- OnlyOne
  ResourceGenerations <- NoInput
  WorkerBoots <- OnlyOne
  EvidenceGenerations <- OnlyOne
  HoldClock <- OnlyZero
  MaxSaves = 2
  MaxCrashes = 1
INVARIANTS
  SuspendedUntilRevalidated
PROPERTIES
  RestartHeals
  RecoversLastSave
