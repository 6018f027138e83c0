SPECIFICATION Spec
CONSTANTS
  t1 = t1  t2 = t2  t3 = t3
  Tasks = {t1, t2}
  NoState = NoState
  ImmediateAttempts = 2
  MaxPolls = 2
  CacheLimit = 1
  Late = {1, 2}
  MaxTurns = 2
  MaxIdles = 3
  MaxFaults = 0
INVARIANTS EveryReplyAttended
CHECK_DEADLOCK FALSE
