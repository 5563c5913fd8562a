SPECIFICATION FairDispatchSpec
CONSTANTS
    Processes = {r1, r2}
    NoProcess = NoProcess
    Deliveries = {d1, d2}
    Unkeyed = {d2}
    ClaimMs = 2
    Margin = 1
    MaxAge = 4
    ClaimLag = 1
    MaxAttempts = 2
    MaxTracked = 1
    MaxEnqueues = 2
    Faults <- AllFaults
    MaxFaults = 1
INVARIANTS
    SentOnce
    ClaimsExclusive
PROPERTIES
    EveryDeliverySettles
    KeepsPromise
