SPECIFICATION Spec
CONSTANTS
  a = a
  b = b
  c = c
  None = None
  Kinds = {"rest", "websocket", "net", "schedule", "mqtt"}
  Routers = {a, b, c}
  From <- TwoPaths
  Methods = {"GET", "POST", "get"}
  Added <- ByMethod
  ToUpper <- Upper
  To <- LeadTo
  Handlers = {q1, q2}
  MaxEnds = 2
  MaxLoose = 1
INVARIANTS AddedIsServed
PROPERTIES ServesAdded RequestEnds CloseEnds
CHECK_DEADLOCK FALSE
