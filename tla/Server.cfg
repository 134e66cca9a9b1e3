SPECIFICATION Spec
CONSTANTS
  c1 = c1
  c2 = c2
  plain = plain
  plugged = plugged
  unknown = unknown
  remote = remote
  list = list
  node = node
  bad = bad
  p0 = p0
  p1 = p1
  p2 = p2
  None = None
  Torn = Torn
  Ids = {c1, c2}
  RuleFiles <- RulesInOrder
  Bodies = {plain, plugged, unknown, remote, list, node, bad}
  Inner <- InnerIds
  Uses <- UsedBy
  NodeBodies = {node}
  NotJson = bad
  Malformed = {list}
  Remote = {remote}
  Plugins = {p0, p1, p2}
  Broken = {p0}
  PluginFiles <- PluginsInOrder
  Provides <- ProvidedBy
  Builtin = {"js"}
  DebugNodes = {n1, n2}
  Workers = {w1, w2}
  MaxCalls = 3
  MaxEngines = 4
  MaxRecords = 4
  MaxCrashes = 1
  QueueSize = 2
INVARIANTS PooledIsLive SavedIsRun SavedStarts PluginIsWhole
CHECK_DEADLOCK FALSE
