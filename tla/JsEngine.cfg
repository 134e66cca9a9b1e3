SPECIFICATION FairSpec
CONSTANT Execs = {e1, e2}
INVARIANTS OneUser TimerClaimsFirst
PROPERTY ExecuteReturns
CHECK_DEADLOCK FALSE
