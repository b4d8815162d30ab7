SPECIFICATION Spec
CONSTANTS
  NoData = NoData
  d1 = d1
  d2 = d2
  Base = {d1, d2}
  Handlers = {h1, h2}
  Data <- MCData
  FlagSets <- MCFlagSets
  WhenArgs <- MCWhenArgs
  MaxCalls = 4
  MaxThrows = 1
SYMMETRY Interchangeable
CHECK_DEADLOCK FALSE
INVARIANTS
  ListsInv
  QuietServed
  ChainsAgree
PROPERTIES
  ImplementsPromise
