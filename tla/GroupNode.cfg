SPECIFICATION FairSpec
CONSTANTS
  Confs <- AllConfs
  Length = 3
  MatchNum = 2
  Match = "True"
  Relations <- Rels
  Behaviours <- Loose
INVARIANTS EarnedVerdict MergesAll
PROPERTY Answers
CHECK_DEADLOCK FALSE
