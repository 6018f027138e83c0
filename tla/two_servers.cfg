SPECIFICATION Spec
CONSTANTS
  s1 = s1  s2 = s2  c1 = c1  c2 = c2
  f1 = f1  f2 = f2  f3 = f3  f4 = f4  f5 = f5
  x1 = x1
  NoTurn = NoTurn  NoJob = NoJob
  Servers = {s1, s2}
  Port <- SamePort
  Envelopes <- ShortTurns
  MaxAttempts = 2
  HistoryWindow = 0
  FaultKinds = {"recovery", "disconnect"}
  MaxFaults = 1
INVARIANTS FragmentInOneTurn NoOvertaking OneNotePerStoredTurn StoredInTurnOrder HistoryIsComplete
PROPERTIES FinalTurnsNeverChange ImplementsTurnLog
SYMMETRY ServerSymmetry
VIEW CountsUpToCap
CHECK_DEADLOCK FALSE
