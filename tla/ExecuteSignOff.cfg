SPECIFICATION FairStartedSpec
CONSTANTS
  ann = ann
  bob = bob
  Instance = {i1}
  Person <- MCPerson
  BusinessKey = {k1}
  Activities = 3
  SignRule <- FullRule
  OwnerChoices <- FullChoices
  MaxBatch = 7
  Nobody = Nobody
  NoKey = NoKey
  NoTask = NoTask
  Client = {c1, c2}
  Operations = {"submit","rollback","withdraw","transfer","stop"}
  Targets = {1,2,3}
  MaxRequests = 4
  MaxAborts = 0
CHECK_DEADLOCK FALSE
INVARIANTS
  NoActivitySkipped
  UnassignedOnlyMidTransfer
PROPERTIES
  TaskMissOnlyMidStop
  OrphanIsRescued
  SuspendedIsStopped
