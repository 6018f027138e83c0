SPECIFICATION FairSpec
CONSTANTS
  s1 = s1  s2 = s2  c1 = c1  c2 = c2
  f1 = f1  f2 = f2  f3 = f3  f4 = f4  f5 = f5
  x1 = x1
  NoTurn = NoTurn  NoJob = NoJob
  Servers = {s1}
  Port <- SamePort
  Envelopes <- TwoConversations
  MaxAttempts = 2
  HistoryWindow = 1
  FaultKinds = {"crash", "database"}
  MaxFaults = 2
INVARIANTS OneOpenImplicitTurn RetryBudget NoStrandedTurn NoSleepOnWork
PROPERTIES EveryTurnConcludes
CHECK_DEADLOCK FALSE
