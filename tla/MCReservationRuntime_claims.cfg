SPECIFICATION DisciplinedSpec
CHECK_DEADLOCK FALSE
CONSTANTS
  None = None
  Horizon = 2
  MaxTime = 1
  NoLimit = 1000000
  ResourceId <- TwoResources
  ResourceClass <- Classes
  Worker <- OneWorker
  Owner <- Owners
  RequestId <- TwoRequests
  LastReservationId = 3
  LastHoldId = 2
  MaxGeneration = 2
  MaxAuthority = 1
  MaxHolds = 2
  MaxHistory = 1
  HoldLease = 1
  Publications <- TwoPublications
  Requests <- ContendingAndTimeless
  HoldSpecs <- TwoHolds
  ConsumeAmounts <- NoInput
  NewQuantities <- NoInput
  NewWindows <- NoInput
  NewOwners <- NoInput
  PolicyGenerations <- NoInput
  ResourceGenerations <- NoInput
  WorkerBoots <- OnlyOne
  EvidenceGenerations <- OnlyOne
  HoldClock <- OnlyZero
INVARIANTS
  TypeOK
  NeverOverbooked
  AccountingInvariant
  AdmissionExact
PROPERTIES
  ImplementsLedger
