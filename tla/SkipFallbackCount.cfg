SPECIFICATION Spec
CONSTANTS
  Execs = {x1, x2, x3, x4}
  ErrorCountLimit = 2
  LimitDuration = 0
  MaxTime = 1
  MaxDrops = 1
SYMMETRY Symmetry
INVARIANT CountsEveryFailure
PROPERTY SkipIsEarned
CHECK_DEADLOCK FALSE
