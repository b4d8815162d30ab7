SPECIFICATION ExecuteSpec
CONSTANTS
  ann = ann
  bob = bob
  Instance = {i1, i2}
  Person <- MCPerson
  BusinessKey = {k1}
  Activities = 1
  SignRule <- DraftRule
  OwnerChoices <- DraftChoices
  MaxBatch = 9
  Nobody = Nobody
  NoKey = NoKey
  NoTask = NoTask
  Client = {c1, c2}
  Operations = {"start"}
  Targets = {}
  MaxRequests = 2
  MaxAborts = 0
CHECK_DEADLOCK FALSE
INVARIANT OneActivePerKey
