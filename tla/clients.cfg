SPECIFICATION Spec
CONSTANTS
  Absent = Absent
  Blank = Blank
  Nobody = Nobody
  Inputs <- MCInputs
  Callers = {c1, c2}
  Window = 1
  Limit = 1
  MaxWork = 3
  MaxStarts = 2
  MaxFaults = 1
  MaxClock = 2
INVARIANTS
  AcceptedIsKept
  EmittedIsParsed
  RepetitionsDropped
  QuietCallSucceeds
PROPERTY EveryCallAnswered
CHECK_DEADLOCK FALSE
