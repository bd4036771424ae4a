CONSTANTS
  Leases = {l1}
  Reservations <- MCReservations
  Reasons = {"lease_invalid", "preflight_failed", "worker_failed", "timeout_exceeded", "sandbox_cleanup_unconfirmed", "outcomes_invalid", "quota_settlement_failed", "upstream_unavailable"}
  MaxOperations = 2
  MaxConcurrency = 2
  MaxCost = 4
  Horizon = 0
  Count = 2
  PoolSize = 2
  HoldCost = 2
  CallCost = 1
SPECIFICATION SandboxSpec
INVARIANTS
  ReceiptIsFinal
  FailedRunRevokes
  ConfirmedStaysGone
  NothingOutlivesRun
PROPERTIES
  RunEnds
CHECK_DEADLOCK FALSE
