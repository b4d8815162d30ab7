SPECIFICATION EngineSpec
CONSTANTS
  ann = ann
  bob = bob
  Instance = {i1}
  Person <- MCPerson
  BusinessKey = {k1}
  Activities = 3
  SignRule <- MCSignRule
  OwnerChoices <- MCOwnerChoices
  Targets = {0,2,4}
  MaxBatch = 3
  Nobody = Nobody
  NoKey = NoKey
  NoTask = NoTask
INVARIANTS
  NoStrandedInstance
  OrSignOnce
  AllSignComplete
  IInv
PROPERTIES
  FinishedIsFinal
  ImplementsFlow
CHECK_DEADLOCK FALSE
