SPECIFICATION CoordinatorSpec
CHECK_DEADLOCK FALSE
CONSTANTS
  None = None
  Horizon = 2
  MaxTime = 1
  NoLimit = 1000000
  ResourceId <- TwoResources
  ResourceClass <- Classes
  Worker <- OneWorker
  Owner <- Owners
  RequestId <- OneRequest
  LastReservationId = 2
  LastHoldId = 0
  MaxGeneration = 1
  MaxAuthority = 1
  MaxHolds = 0
  MaxHistory = 1
  HoldLease = 1
  Publications <- ScenarioPublications
  Requests <- ScenarioRequests
  HoldSpecs <- NoInput
  ConsumeAmounts <- OnlyTwo
  NewQuantities <- NoInput
  NewWindows <- NoInput
  NewOwners <- NoInput
  PolicyGenerations <- NoInput
  ResourceGenerations <- NoInput
  WorkerBoots <- OneAndTwo
  EvidenceGenerations <- OnlyOne
  HoldClock <- OnlyZero
  first = first
  restarted = restarted
  client = client
  Connection <- Connections
  Peer <- ScenarioPeers
  ClientMessages <- ScenarioMessages
  MaxThreads = 1
INVARIANTS
  EvidenceDiesWithItsConnection
  ConnectionsBounded
PROPERTIES
  DisconnectFences
  JoinsEnd
