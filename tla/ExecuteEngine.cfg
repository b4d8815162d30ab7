SPECIFICATION ExecuteSpec
CONSTANTS
  ann = ann
  bob = bob
  Instance = {i1, i2}
  Person <- MCPerson
  BusinessKey = {k1}
  Activities = 2
  SignRule <- ShortRule
  OwnerChoices <- ShortChoices
  MaxBatch = 4
  Nobody = Nobody
  NoKey = NoKey
  NoTask = NoTask
  Client = {c1, c2}
  Operations = {"start","submit","rollback","transfer","stop","runTo"}
  Targets = {1,3,7}
  MaxRequests = 4
  MaxAborts = 1
CHECK_DEADLOCK FALSE
SYMMETRY Staff
INVARIANTS
  SubmitAnsweredWhenOver
  DuplicatesBoundedByThreads
PROPERTY ImplementsEngine
