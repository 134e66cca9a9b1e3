SPECIFICATION FairSpec
CONSTANTS
  Msgs = {m1, m2, m3}
  Ids = {i1, i2, i3}
  IdOf <- OwnIds
  MaxPendingMsgs = 2
  Overwrites = {TRUE, FALSE}
  MaxReloads = 1
  None = None
INVARIANTS QueueMatchesTimers TimerForEach
PROPERTY EveryMessageEnds
CHECK_DEADLOCK FALSE
