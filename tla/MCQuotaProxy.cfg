CONSTANTS
  Leases = {l1}
  Reservations <- MCReservations
  Reasons = {"deadline", "upstream_unavailable", "upstream_non_success", "provider_accounting_failed"}
  MaxOperations = 2
  MaxConcurrency = 2
  MaxCost = 4
  Horizon = 1
  Scale = 2
  InputRate = 1
  CachedRate = 1
  OutputRate = 1
  Handlers = {h1, h2}
  InputLimit = 2
  OutputLimits = {1}
  BusyFaults = 1
  Crashes = 1
SPECIFICATION ProxySpec
INVARIANTS
  BillCovered
  ProviderConcurrencyBounded
  SettledIsQuiet
  HoldsAreOwned
PROPERTIES
  EveryForwardEnds
CHECK_DEADLOCK FALSE
