SPECIFICATION Spec
CONSTANTS
    Runs = {1, 2}
    s1 = s1
    k1 = k1
    Sessions = {s1}
    SessionOf <- OneSession
    DedupKeys = {k1}
    DedupKeyOf <- SameKey
    NoKey = NoKey
    MaxAttempts = 2
    MaxClaims = 3
    MaxTokens = 3
    ClaimsInFlight = 1
    ScansInFlight = 1
    RetiresInFlight = 1
INVARIANTS
    LeaseIffRunning
    RememberedRowIsCurrent
    ErrorBudgetRespected
    OneEffectiveRunPerKey
PROPERTIES
    ImplementsQueue
CHECK_DEADLOCK FALSE
