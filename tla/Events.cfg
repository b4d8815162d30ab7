SPECIFICATION Spec
CONSTANTS
  None = None
  doc = doc
  item = item
  spare = spare
  items = items
  Node = {doc, item, spare}
  Root = doc
  Parent <- MCParent
  f = f
  g = g
  Handler = {f, g}
  Offered <- MCOffered
  Selector = {items}
  Matched <- MCMatched
  MaxCalls = 4
CHECK_DEADLOCK FALSE
INVARIANTS
  DataInv
  BoundAsMeant
  HandlersCalled
