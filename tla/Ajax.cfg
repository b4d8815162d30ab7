SPECIFICATION FairAjaxSpec
CONSTANTS
  Request = {r1, r2}
  Options <- MCOptions
  MaxAborts = 2
  MaxThrows = 1
CHECK_DEADLOCK FALSE
INVARIANTS
  AjaxInv
  ToldMatchesResult
PROPERTIES
  DoneIsFinal
  RequestsEnd
