SPECIFICATION FairSpec
CONSTANTS
  Tasks = {t1, t2, t3}
  Workers = {w1, w2, w3}
  MaxWorkersCount = 2
  ChanCap = 1
  MaxIdle = 0
  MaxTime = 1
  Nil = Nil
INVARIANTS OneHolder CountIsLive
PROPERTIES RunsOnce WorkersExit
CHECK_DEADLOCK FALSE
