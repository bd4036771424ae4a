CONSTANTS
  Requests = {r1, r2}
  Sources = {a, b}
  MaxConcurrency = 2
  GlobalCapacity = 2
  SourceCapacity = 1
  Window = 2
  Idle = 2
  MaxTracked = 2
  LastTick = 2
SPECIFICATION Spec
INVARIANTS
  MonotonicClockAccepted
CHECK_DEADLOCK FALSE
