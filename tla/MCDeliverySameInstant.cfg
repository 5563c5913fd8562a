SPECIFICATION DispatchSpec
CONSTANTS
    Processes = {r1, r2}
    NoProcess = NoProcess
    Deliveries = {d1, d2}
    Unkeyed = {}
    ClaimMs = 2
    Margin = 1
    MaxAge = 4
    ClaimLag = 0
    MaxAttempts = 2
    MaxTracked = 1
    MaxEnqueues = 2
    Faults <- CrashOnly
    MaxFaults = 1
INVARIANTS
    SentOnce
