SPECIFICATION Spec
CONSTANTS
  Posts = {p1}
  Queries = {q1}
  Dispatcher = Dispatcher
  Actor = Actor
  NoOne = NoOne
  PoolSize = 2
  MailboxCapacity = 1
  MaxStageRetries = 1
  FaultKinds <- AllFaults
  MaxFaults = 1
INVARIANTS
  OneWriterConnected
  HoldsNothingWhileWaiting
PROPERTIES
  EveryWaitEnds
  ShutdownEnds
CHECK_DEADLOCK FALSE
