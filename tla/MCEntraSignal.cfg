SPECIFICATION Spec
CONSTANTS
    Proc = {p1, p2}
    NoProc = NoProc
    NoDoc = NoDoc
    TTL = 2
    MaxAttempt = 1
    MaxRotations = 1
    MaxReplacements = 1
    Budgets <- MCOneFault
PROPERTY ConsumedMarkerIsScheduled
