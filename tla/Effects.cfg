SPECIFICATION FairSpec
CONSTANTS
  Nothing = Nothing
  e1 = e1
  e2 = e2
  Elements = {e1, e2}
  Styles <- MCStyles
  MaxCalls <- MCMaxCalls
  MaxMoves = 6
CHECK_DEADLOCK FALSE
INVARIANTS
  QueuesInv
  RestoresDisplay
  MenuFollowsMouse
PROPERTIES
  EffectsEnd
