SPECIFICATION Spec
CONSTANTS
  a = a
  b = b
  None = None
  Routers = {a, b}
  Topic <- OneEach
  w1 = w1
  w2 = w2
  Workers = {w1, w2}
  Main = w1
  MaxLosses = 1
INVARIANTS HandlersSubscribed AddedIsRegistered
PROPERTY RegisterReturns
CHECK_DEADLOCK FALSE
