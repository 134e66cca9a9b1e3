SPECIFICATION Spec
CONSTANTS
  Msgs = {m1, m2}
  a = a  b = b  c = c
  Ids <- MCIds
  Last = 2
  NodesOf <- MCNodesOf
  FirstOf <- MCFirstOf
  RoutesOf <- MCRoutesOf
  MaxNodeReloads = 1
  Nil = Nil
SYMMETRY Symmetry
INVARIANTS OneDefinition QuietRunsLive LiveIsCurrent
CHECK_DEADLOCK FALSE
