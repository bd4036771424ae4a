CONSTANTS
  Requests = {r1, r2, r3, r4}
  Sources = {a, b, c}
  MaxConcurrency = 2
  GlobalCapacity = 3
  SourceCapacity = 1
  Window = 2
  Idle = 2
  MaxTracked = 2
  LastTick = 2
SPECIFICATION Spec
INVARIANTS
  SlotsConserved
  RatesBounded
SYMMETRY Symmetry
CHECK_DEADLOCK FALSE
