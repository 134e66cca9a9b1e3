SPECIFICATION Spec
CONSTANTS
  Heartbeat = 2
  ReadTimeout = 3
  Processing = 1
  MaxConns = 3
  MaxLines = 2
INVARIANT HealthyStays
PROPERTIES Repaired HandlersEnd DestroyCloses
