SPECIFICATION StartedSpec
CONSTANTS
  ann = ann
  bob = bob
  Instance = {i1}
  Person <- MCPerson
  BusinessKey = {k1}
  Activities = 2
  SignRule <- ShortRule
  OwnerChoices <- ShortChoices
  MaxBatch = 9
  Nobody = Nobody
  NoKey = NoKey
  NoTask = NoTask
  Client = {c1, c2}
  Operations = {"submit","rollback"}
  Targets = {1,2}
  MaxRequests = 4
  MaxAborts = 0
CHECK_DEADLOCK FALSE
INVARIANT ApprovedByHand
