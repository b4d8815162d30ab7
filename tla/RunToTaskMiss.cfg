SPECIFICATION StartedSpec
CONSTANTS
  ann = ann
  bob = bob
  Instance = {i1}
  Person <- MCPerson
  BusinessKey = {k1}
  Activities = 2
  SignRule <- ShortRule
  OwnerChoices <- ShortChoices
  MaxBatch = 9
  Nobody = Nobody
  NoKey = NoKey
  NoTask = NoTask
  Client = {c1, c2}
  Operations = {"runTo"}
  Targets = {2}
  MaxRequests = 1
  MaxAborts = 0
CHECK_DEADLOCK FALSE
PROPERTY TaskMissMeansNothingToDo
