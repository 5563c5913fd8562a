SPECIFICATION Spec
CONSTANTS
    Runs = {1, 2}
    s1 = s1
    k1 = k1
    Sessions = {s1}
    SessionOf <- OneSession
    DedupKeys = {k1}
    DedupKeyOf <- NoKeys
    NoKey = NoKey
    MaxAttempts = 2
    MaxClaims = 2
    MaxTokens = 3
    ClaimsInFlight = 2
    ScansInFlight = 1
    RetiresInFlight = 1
INVARIANTS
    TypeOK
    OneRunningPerSession
PROPERTIES
    NoOvertaking
    FinishedIsFinal
CHECK_DEADLOCK FALSE
