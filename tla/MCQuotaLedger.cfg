CONSTANTS
  Leases = {l1}
  Reservations <- MCReservations
  Reasons = {deadline, upstream}
  MaxOperations = 3
  MaxConcurrency = 2
  MaxCost = 4
  Horizon = 1
SPECIFICATION LedgerSpec
INVARIANTS
  LedgerBalanced
PROPERTIES
  TerminalIsFinal
  HardLimit
CHECK_DEADLOCK FALSE
