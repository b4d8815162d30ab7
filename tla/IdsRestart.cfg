SPECIFICATION FairSpec
CONSTANTS
  Server = {s1}
  ThreadId = {0, 1, 2}
  SequenceSize <- MCBit
  WorkerSize <- MCBit
  RandomSize <- MCBit
  MaxClock = 2
  MaxRuns = 1
  MaxBack = 1
  MaxIds = 3
  NoThread = NoThread
CHECK_DEADLOCK FALSE
INVARIANTS
  UniqueIds
PROPERTY WaitEnds
